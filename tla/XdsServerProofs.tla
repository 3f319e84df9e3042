-------------------------- MODULE XdsServerProofs --------------------------
(***************************************************************************)
(* Proofs about XdsServer, for any number of streams, types, snapshots,    *)
(* requests and reconnections.  Between the cancel of an old watch and the *)
(* creation of the new one anything may happen; the inductive invariant    *)
(* XdsInv says what a stream still holds then: who owns which channel      *)
(* (Holding), what is being handled (Handling), which watch belongs to     *)
(* which stream and phase of process() (Owned), that a wait was answered   *)
(* or is still registered (Fed), and that whatever is on its way to an     *)
(* Envoy is in the order of publication (Ordered).                         *)
(***************************************************************************)
EXTENDS XdsServer, SnapshotCacheProofs

\* Channels are made before they are held, and no two holders share one.
Holding ==
  /\ \A c \in Callers : value[c] <= calls
  /\ \A c, d \in Callers : value[c] = value[d] /\ value[c] # 0 => c = d

\* What a stream's goroutines hand over is a request; between the test of
\* its nonce and the new watch the nonce stays fresh.
HandlingOn(s) ==
  /\ pc[s] \in {"callback", "cancel", "create"} =>
       req[s] \in WireRequest /\ req[s].type \in Types
  /\ pc[s] \in {"cancel", "create"} => FreshNonce(s, req[s])
  /\ reader[s] = "send" => held[s] \in WireRequest

Handling == \A s \in Streams : HandlingOn(s)

\* An open watch w that stream s asked for type t: it feeds the channel the
\* stream holds, the stream holds its cancel function, and what is left of
\* process() will not forget it.
OwnedBy(s, t, n, w) ==
  /\ n = NodeID(s)
  /\ w.chan = value[<<s, t>>]
  /\ cancel[<<s, t>>] # Nil /\ cancel[<<s, t>>].id = w.id
  /\ nonce[<<s, t>>] \in {0, w.request.nonce}
  /\ pc[s] \notin {"idle", "closed"}
  /\ pc[s] = "create" => req[s].type # t
  /\ pc[s] = "closing" => t \in toCancel[s]

Owned ==
  \A s \in Streams, t \in Types, n \in Nodes : \A w \in watches[n] :
     w.owner = <<s, t>> => OwnedBy(s, t, n, w)

\* A channel that process() waits on was answered or has an open watch.
FedOn(s, t) ==
  /\ pc[s] \in {"select", "callback", "cancel", "create"}
  /\ pc[s] = "create" => req[s].type # t
  /\ value[<<s, t>>] # 0
  => \/ chan[value[<<s, t>>]].sent = 1
     \/ \E w \in watches[NodeID(s)] : w.owner = <<s, t>>

Fed == ~Ads => \A s \in Streams, t \in Types : FedOn(s, t)

\* The number of the last snapshot of n, as ConfigPush counts them.
Published(n) == IF snapshots[n] = Nil THEN 0 ELSE snapshots[n].seq

\* The places of the responses with resources on their way to an Envoy.
InFlight(s, t) ==
  {i \in 1 .. Len(toClient[s]) :
     toClient[s][i].type = t /\ toClient[s][i].seq # 0}

\* From the Envoy over the wire and the channel to the cache, the numbers
\* of the snapshots never fall.
OrderedOn(s, t) ==
  /\ client[<<s, t>>].seq <= Published(NodeID(s))
  /\ \A i \in InFlight(s, t) :
       /\ client[<<s, t>>].seq <= toClient[s][i].seq
       /\ toClient[s][i].seq <= Published(NodeID(s))
  /\ \A i, j \in InFlight(s, t) :
       i < j => toClient[s][i].seq <= toClient[s][j].seq
  /\ value[<<s, t>>] # 0 /\ chan[value[<<s, t>>]].buf # Nil =>
       /\ client[<<s, t>>].seq <= chan[value[<<s, t>>]].buf.seq
       /\ chan[value[<<s, t>>]].buf.seq <= Published(NodeID(s))
       /\ \A i \in InFlight(s, t) :
            toClient[s][i].seq <= chan[value[<<s, t>>]].buf.seq

Ordered == \A s \in Streams, t \in Types : OrderedOn(s, t)

XdsInv ==
  /\ XdsTypeOK /\ CacheInv
  /\ Holding /\ Handling /\ Owned /\ Fed /\ Ordered

----------------------------------------------------------------------------
\* A caller is a stream and a type.
LEMMA CallerIsPair ==
  ASSUME NEW c \in Callers
  PROVE  c[1] \in Streams /\ c[2] \in Types /\ c = <<c[1], c[2]>>
  BY XdsAssumption

LEMMA PairIsCaller ==
  ASSUME NEW s \in Streams, NEW t \in Types
  PROVE  <<s, t>> \in Callers
  BY XdsAssumption

\* The owner of an open watch is a stream and a type, and owns it.
LEMMA WatchOwner ==
  ASSUME TypeOK, Owned, NEW n \in Nodes, NEW w \in watches[n]
  PROVE  \E s \in Streams, t \in Types :
            w.owner = <<s, t>> /\ OwnedBy(s, t, n, w)
  BY WatchType, CallerIsPair DEF Owned

\* An ADS stream carries all the types, another one its own.
LEMMA TypesOfType ==
  ASSUME NEW s \in Streams
  PROVE  TypesOf(s) \subseteq Types
  BY XdsAssumption DEF TypesOf

\* Snapshots are numbered from 1 to setCount.
LEMMA PublishedType ==
  ASSUME TypeOK, Numbered, NEW n \in Nodes
  PROVE  /\ Published(n) \in Nat /\ Published(n) <= setCount
         /\ snapshots[n] # Nil =>
              Published(n) = snapshots[n].seq /\ Published(n) > 0
<1>1. setCount \in Nat
  BY CacheAssumption DEF TypeOK
<1>2. CASE snapshots[n] = Nil
  BY <1>1, <1>2 DEF Published
<1>3. CASE snapshots[n] # Nil
  <2>1. snapshots[n].seq \in 1 .. MaxSets /\ snapshots[n].seq <= setCount
    BY <1>3 DEF TypeOK, Snapshot, Numbered
  <2>2. QED BY <1>3, <2>1, CacheAssumption DEF Published
<1>4. QED BY <1>2, <1>3

\* The first state.
LEMMA InitXdsInv == XdsInit => XdsInv
<1> SUFFICES ASSUME XdsInit PROVE XdsInv
  OBVIOUS
<1>1. CacheInv
  BY InitInv DEF XdsInit
<1>2. XdsTypeOK
  <2>1. client \in [Callers -> ClientState]
    BY XdsAssumption, CacheAssumption DEF XdsInit, ClientState
  <2>2. /\ streamNonce \in [Streams -> Nonces] /\ nonce \in [Callers -> Nonces]
        /\ asks \in [Streams -> 0 .. MaxAsks] /\ opens \in [Streams -> 0 .. MaxOpens]
    BY XdsAssumption DEF XdsInit
  <2>3. /\ toServer \in [Streams -> Seq(WireRequest)]
        /\ toClient \in [Streams -> Seq(WireResponse)]
    BY DEF XdsInit
  <2>4. QED BY <1>1, <2>1, <2>2, <2>3 DEF XdsTypeOK, XdsInit, CacheInv
<1>3. Holding
  BY CacheAssumption DEF Holding, XdsInit, Init
<1>4. Handling
  BY DEF Handling, HandlingOn, XdsInit
<1>5. Owned
  BY DEF Owned, XdsInit, Init
<1>6. Fed
  BY DEF Fed, FedOn, XdsInit
<1>7. Ordered
  <2> SUFFICES ASSUME NEW s \in Streams, NEW t \in Types PROVE OrderedOn(s, t)
    BY DEF Ordered
  <2>1. /\ client[<<s, t>>].seq = 0 /\ value[<<s, t>>] = 0
        /\ InFlight(s, t) = {}
    BY PairIsCaller DEF XdsInit, Init, InFlight
  <2>2. Published(NodeID(s)) = 0
    BY XdsAssumption DEF Published, XdsInit, Init
  <2>3. QED BY <2>1, <2>2 DEF OrderedOn
<1>8. QED BY <1>1, <1>2, <1>3, <1>4, <1>5, <1>6, <1>7 DEF XdsInv

----------------------------------------------------------------------------
\* What is on its way is in order as long as nothing is published, sent,
\* taken out of a channel or accepted.
LEMMA OrderedFrame ==
  ASSUME Ordered, UNCHANGED <<snapshots, chan, value, client, toClient>>
  PROVE  Ordered'
<1>1. ASSUME NEW s \in Streams, NEW t \in Types PROVE OrderedOn(s, t)'
  <2>1. OrderedOn(s, t)
    BY DEF Ordered
  <2>2. InFlight(s, t)' = InFlight(s, t)
    BY DEF InFlight
  <2>3. Published(NodeID(s))' = Published(NodeID(s))
    BY DEF Published
  <2>4. QED BY <2>1, <2>2, <2>3 DEF OrderedOn
<1>2. QED BY <1>1 DEF Ordered

\* A step that leaves the cache alone keeps its invariant.
LEMMA CacheFrame ==
  ASSUME CacheInv, UNCHANGED cacheVars
  PROVE  CacheInv'
  BY NextInv

\* A step of an Envoy alone.
LEMMA EnvoyFrame ==
  ASSUME XdsInv, UNCHANGED <<cacheVars, processVars, readerVars>>
  PROVE  CacheInv' /\ Holding' /\ Handling' /\ Owned' /\ Fed'
<1>1. CacheInv'
  BY CacheFrame DEF XdsInv
<1>2. Holding' /\ Handling'
  BY DEF XdsInv, Holding, Handling, HandlingOn, FreshNonce, cacheVars,
     processVars, readerVars
<1>3. Owned'
  BY DEF XdsInv, Owned, OwnedBy, cacheVars, processVars
<1>4. Fed'
  BY DEF XdsInv, Fed, FedOn, cacheVars, processVars
<1>5. QED BY <1>1, <1>2, <1>3, <1>4

\* A step of the goroutines of one stream, without the cache.
LEMMA StreamFrame ==
  ASSUME XdsInv, NEW s \in Streams,
         UNCHANGED <<cacheVars, nonce, client, toClient>>,
         \A r \in Streams \ {s} :
            /\ pc'[r] = pc[r] /\ req'[r] = req[r] /\ toCancel'[r] = toCancel[r]
            /\ reader'[r] = reader[r] /\ held'[r] = held[r],
         HandlingOn(s)',
         \A t \in Types, n \in Nodes : \A w \in watches[n] :
            w.owner = <<s, t>> => OwnedBy(s, t, n, w)',
         \A t \in Types : ~Ads => FedOn(s, t)'
  PROVE  CacheInv' /\ Holding' /\ Handling' /\ Owned' /\ Fed' /\ Ordered'
<1>1. CacheInv'
  BY CacheFrame DEF XdsInv
<1>2. Holding'
  BY DEF XdsInv, Holding, cacheVars
<1>3. ASSUME NEW r \in Streams \ {s} PROVE HandlingOn(r)'
  BY DEF XdsInv, Handling, HandlingOn, FreshNonce, cacheVars
<1>4. Handling'
  BY <1>3 DEF Handling
<1>5. ASSUME NEW r \in Streams \ {s}, NEW t \in Types, NEW n \in Nodes,
             NEW w \in watches[n], w.owner = <<r, t>>
      PROVE  OwnedBy(r, t, n, w)'
  <2>1. OwnedBy(r, t, n, w)
    BY <1>5 DEF XdsInv, Owned
  <2>2. QED BY <2>1 DEF OwnedBy, cacheVars
<1>6. Owned'
  BY <1>5 DEF Owned, cacheVars
<1>7. ASSUME NEW r \in Streams \ {s}, NEW t \in Types, ~Ads
      PROVE  FedOn(r, t)'
  BY <1>7 DEF XdsInv, Fed, FedOn, cacheVars
<1>8. Fed'
  BY <1>7 DEF Fed
<1>9. Ordered'
  BY OrderedFrame DEF XdsInv, cacheVars
<1>10. QED BY <1>1, <1>2, <1>4, <1>6, <1>8, <1>9

----------------------------------------------------------------------------
\* process() returns: the deferred Cancel will visit every watch it owns.
LEMMA ReturnKeeps ==
  ASSUME XdsInv, NEW s \in Streams, pc[s] = "select", Return(s),
         UNCHANGED <<value, cancel, nonce>>
  PROVE  /\ pc' \in [Streams -> {"idle", "select", "callback", "cancel",
                                 "create", "closing", "closed"}]
         /\ toCancel' \in [Streams -> SUBSET Types]
         /\ pc'[s] = "closing"
         /\ \A r \in Streams \ {s} :
              pc'[r] = pc[r] /\ toCancel'[r] = toCancel[r]
         /\ \A t \in Types, n \in Nodes : \A w \in watches[n] :
              w.owner = <<s, t>> => OwnedBy(s, t, n, w)'
         /\ \A t \in Types : FedOn(s, t)'
<1>1. /\ pc' = [pc EXCEPT ![s] = "closing"]
      /\ toCancel' = [toCancel EXCEPT ![s] = {t \in Types : cancel[<<s, t>>] # Nil}]
  BY DEF Return
<1>2. /\ pc' \in [Streams -> {"idle", "select", "callback", "cancel",
                              "create", "closing", "closed"}]
      /\ toCancel' \in [Streams -> SUBSET Types]
      /\ pc'[s] = "closing"
      /\ toCancel'[s] = {t \in Types : cancel[<<s, t>>] # Nil}
      /\ \A r \in Streams \ {s} : pc'[r] = pc[r] /\ toCancel'[r] = toCancel[r]
  BY <1>1 DEF XdsInv, XdsTypeOK
<1>3. ASSUME NEW t \in Types, NEW n \in Nodes, NEW w \in watches[n],
             w.owner = <<s, t>>
      PROVE  OwnedBy(s, t, n, w)'
  <2>1. OwnedBy(s, t, n, w)
    BY <1>3 DEF XdsInv, Owned
  <2>2. t \in toCancel'[s]
    BY <1>2, <2>1 DEF OwnedBy
  <2>3. QED BY <1>2, <2>1, <2>2 DEF OwnedBy
<1>4. \A t \in Types : FedOn(s, t)'
  BY <1>2 DEF FedOn
<1>5. QED BY <1>2, <1>3, <1>4

LEMMA SelectRequestInv ==
  ASSUME XdsInv, NEW s \in Streams, SelectRequest(s)
  PROVE  XdsInv'
<1>1. /\ pc[s] = "select" /\ reader[s] = "send"
      /\ held[s] \in WireRequest
      /\ UNCHANGED <<cacheVars, streamNonce, nonce, clientVars, netVars>>
  BY DEF SelectRequest, XdsInv, Handling, HandlingOn
<1>2. /\ reader' \in [Streams -> {"recv", "send", "closed", "stopped"}]
      /\ held' \in [Streams -> WireRequest \cup {Nil}]
      /\ reader'[s] = "recv"
      /\ \A r \in Streams \ {s} : reader'[r] = reader[r] /\ held'[r] = held[r]
  BY DEF SelectRequest, XdsInv, XdsTypeOK
<1>3. CASE StreamType[s] = AnyType /\ held[s].type = AnyType
  <2>1. Return(s) /\ UNCHANGED req
    BY <1>3 DEF SelectRequest
  <2>2. HandlingOn(s)'
    BY <1>1, <1>2, <2>1, ReturnKeeps DEF HandlingOn, cacheVars
  <2>3. XdsTypeOK'
    BY <1>1, <1>2, <2>1, ReturnKeeps, CacheFrame
    DEF XdsInv, XdsTypeOK, CacheInv, cacheVars, clientVars, netVars
  <2>4. CacheInv' /\ Holding' /\ Handling' /\ Owned' /\ Fed' /\ Ordered'
    BY <1>1, <1>2, <2>1, <2>2, ReturnKeeps, StreamFrame
    DEF cacheVars, clientVars, netVars
  <2>5. QED BY <2>3, <2>4 DEF XdsInv
<1>4. CASE ~(StreamType[s] = AnyType /\ held[s].type = AnyType)
  <2> DEFINE r == [held[s] EXCEPT !.type = TypeURL(s, @)]
  <2>1. /\ pc' = [pc EXCEPT ![s] = "callback"]
        /\ req' = [req EXCEPT ![s] = r]
        /\ UNCHANGED toCancel
    BY <1>4 DEF SelectRequest
  <2>2. r \in WireRequest /\ r.type \in Types
    <3>1. TypeURL(s, held[s].type) \in Types
      BY <1>1, <1>4, XdsAssumption DEF TypeURL, WireRequest
    <3>2. QED BY <1>1, <3>1 DEF WireRequest
  <2>3. /\ pc' \in [Streams -> {"idle", "select", "callback", "cancel",
                                "create", "closing", "closed"}]
        /\ req' \in [Streams -> {q \in WireRequest : q.type \in Types} \cup {Nil}]
        /\ pc'[s] = "callback" /\ req'[s] = r
        /\ \A q \in Streams \ {s} : pc'[q] = pc[q] /\ req'[q] = req[q]
    BY <2>1, <2>2 DEF XdsInv, XdsTypeOK
  <2>4. HandlingOn(s)'
    BY <1>2, <2>2, <2>3 DEF HandlingOn
  <2>5. XdsTypeOK'
    BY <1>1, <1>2, <2>1, <2>3, CacheFrame
    DEF XdsInv, XdsTypeOK, CacheInv, clientVars, netVars
  <2>6. ASSUME NEW t \in Types, NEW n \in Nodes, NEW w \in watches[n],
               w.owner = <<s, t>>
        PROVE  OwnedBy(s, t, n, w)'
    <3>1. OwnedBy(s, t, n, w)
      BY <2>6 DEF XdsInv, Owned
    <3>2. QED BY <1>1, <2>3, <3>1 DEF OwnedBy, cacheVars
  <2>7. ASSUME NEW t \in Types, ~Ads PROVE FedOn(s, t)'
    BY <1>1, <2>3, <2>7 DEF XdsInv, Fed, FedOn, cacheVars
  <2>8. CacheInv' /\ Holding' /\ Handling' /\ Owned' /\ Fed' /\ Ordered'
    BY <1>1, <1>2, <2>1, <2>3, <2>4, <2>6, <2>7, StreamFrame
    DEF clientVars, netVars
  <2>9. QED BY <2>5, <2>8 DEF XdsInv
<1>5. QED BY <1>3, <1>4

LEMMA SelectClosedInv ==
  ASSUME XdsInv, NEW s \in Streams, SelectClosed(s)
  PROVE  XdsInv'
<1>1. /\ pc[s] = "select" /\ Return(s)
      /\ UNCHANGED <<cacheVars, req, streamNonce, nonce, readerVars,
                     clientVars, netVars>>
  BY DEF SelectClosed
<1>2. HandlingOn(s)'
  BY <1>1, ReturnKeeps DEF HandlingOn, XdsInv, Handling, cacheVars, readerVars
<1>3. XdsTypeOK'
  BY <1>1, ReturnKeeps, CacheFrame
  DEF XdsInv, XdsTypeOK, CacheInv, cacheVars, readerVars, clientVars, netVars
<1>4. CacheInv' /\ Holding' /\ Handling' /\ Owned' /\ Fed' /\ Ordered'
  BY <1>1, <1>2, ReturnKeeps, StreamFrame
  DEF cacheVars, readerVars, clientVars, netVars
<1>5. QED BY <1>3, <1>4 DEF XdsInv

LEMMA CallbackReturnsInv ==
  ASSUME XdsInv, NEW s \in Streams, CallbackReturns(s)
  PROVE  XdsInv'
<1>1. /\ pc[s] = "callback" /\ pc' = [pc EXCEPT ![s] = AfterCallback(s)]
      /\ UNCHANGED <<cacheVars, req, streamNonce, nonce, toCancel, readerVars,
                     clientVars, netVars>>
  BY DEF CallbackReturns
<1>2. /\ AfterCallback(s) \in {"select", "cancel", "create"}
      /\ AfterCallback(s) # "select" => FreshNonce(s, req[s])
      /\ AfterCallback(s) = "create" => cancel[<<s, req[s].type>>] = Nil
  BY DEF AfterCallback
<1>3. /\ pc' \in [Streams -> {"idle", "select", "callback", "cancel",
                              "create", "closing", "closed"}]
      /\ pc'[s] = AfterCallback(s)
      /\ \A r \in Streams \ {s} : pc'[r] = pc[r]
  BY <1>1, <1>2 DEF XdsInv, XdsTypeOK
<1>4. HandlingOn(s)'
  BY <1>1, <1>2, <1>3 DEF HandlingOn, FreshNonce, XdsInv, Handling, readerVars
<1>5. XdsTypeOK'
  BY <1>1, <1>3, CacheFrame
  DEF XdsInv, XdsTypeOK, CacheInv, readerVars, clientVars, netVars
<1>6. ASSUME NEW t \in Types, NEW n \in Nodes, NEW w \in watches[n],
             w.owner = <<s, t>>
      PROVE  OwnedBy(s, t, n, w)'
  <2>1. OwnedBy(s, t, n, w)
    BY <1>6 DEF XdsInv, Owned
  <2>2. QED BY <1>1, <1>2, <1>3, <2>1 DEF OwnedBy, cacheVars
<1>7. ASSUME NEW t \in Types, ~Ads PROVE FedOn(s, t)'
  BY <1>1, <1>2, <1>3, <1>7 DEF XdsInv, Fed, FedOn, cacheVars
<1>8. CacheInv' /\ Holding' /\ Handling' /\ Owned' /\ Fed' /\ Ordered'
  BY <1>1, <1>3, <1>4, <1>6, <1>7, StreamFrame
  DEF readerVars, clientVars, netVars
<1>9. QED BY <1>5, <1>8 DEF XdsInv

LEMMA CloseInv ==
  ASSUME XdsInv, NEW s \in Streams, Close(s)
  PROVE  XdsInv'
<1>1. /\ pc[s] = "closing" /\ toCancel[s] = {}
      /\ pc' = [pc EXCEPT ![s] = "closed"]
      /\ UNCHANGED <<cacheVars, req, streamNonce, nonce, toCancel, readerVars,
                     clientVars, netVars>>
  BY DEF Close
<1>2. /\ pc' \in [Streams -> {"idle", "select", "callback", "cancel",
                              "create", "closing", "closed"}]
      /\ pc'[s] = "closed"
      /\ \A r \in Streams \ {s} : pc'[r] = pc[r]
  BY <1>1 DEF XdsInv, XdsTypeOK
<1>3. HandlingOn(s)'
  BY <1>1, <1>2 DEF HandlingOn, XdsInv, Handling, readerVars
<1>4. XdsTypeOK'
  BY <1>1, <1>2, CacheFrame
  DEF XdsInv, XdsTypeOK, CacheInv, readerVars, clientVars, netVars
<1>5. ASSUME NEW t \in Types, NEW n \in Nodes, NEW w \in watches[n],
             w.owner = <<s, t>>
      PROVE  FALSE
  BY <1>1, <1>5 DEF XdsInv, Owned, OwnedBy
<1>6. \A t \in Types : FedOn(s, t)'
  BY <1>2 DEF FedOn
<1>7. CacheInv' /\ Holding' /\ Handling' /\ Owned' /\ Fed' /\ Ordered'
  BY <1>1, <1>2, <1>3, <1>5, <1>6, StreamFrame
  DEF readerVars, clientVars, netVars
<1>8. QED BY <1>4, <1>7 DEF XdsInv

\* The reader of a stream.
LEMMA ReaderInv ==
  ASSUME XdsInv, NEW s \in Streams, Reader(s)
  PROVE  XdsInv'
<1>1. UNCHANGED <<cacheVars, processVars, clientVars, toClient>>
  BY DEF Reader, ReaderRecv, ReaderError, ReaderReturns, netVars
<1>2. /\ reader' \in [Streams -> {"recv", "send", "closed", "stopped"}]
      /\ held' \in [Streams -> WireRequest \cup {Nil}]
      /\ toServer' \in [Streams -> Seq(WireRequest)]
      /\ \A r \in Streams \ {s} : reader'[r] = reader[r] /\ held'[r] = held[r]
      /\ reader'[s] = "send" => held'[s] \in WireRequest
  <2>1. CASE ReaderRecv(s)
    <3>1. Head(toServer[s]) \in WireRequest /\ Tail(toServer[s]) \in Seq(WireRequest)
      BY <2>1 DEF ReaderRecv, XdsInv, XdsTypeOK
    <3>2. toServer' \in [Streams -> Seq(WireRequest)]
      BY <2>1, <3>1 DEF ReaderRecv, XdsInv, XdsTypeOK
    <3>3. CASE pc[s] = "closed"
      BY <2>1, <3>2, <3>3 DEF ReaderRecv, XdsInv, XdsTypeOK
    <3>4. CASE pc[s] # "closed"
      <4>1. /\ reader' = [reader EXCEPT ![s] = "send"]
            /\ held' = [held EXCEPT ![s] = Head(toServer[s])]
        BY <2>1, <3>4 DEF ReaderRecv
      <4>2. QED BY <3>1, <3>2, <4>1 DEF XdsInv, XdsTypeOK
    <3>5. QED BY <3>3, <3>4
  <2>2. CASE ReaderError(s)
    BY <2>2 DEF ReaderError, XdsInv, XdsTypeOK, netVars
  <2>3. CASE ReaderReturns(s)
    BY <2>3 DEF ReaderReturns, XdsInv, XdsTypeOK, netVars
  <2>4. QED BY <2>1, <2>2, <2>3 DEF Reader
<1>3. HandlingOn(s)'
  BY <1>1, <1>2 DEF HandlingOn, FreshNonce, XdsInv, Handling, processVars
<1>4. XdsTypeOK'
  BY <1>1, <1>2, CacheFrame
  DEF XdsInv, XdsTypeOK, CacheInv, processVars, clientVars
<1>5. ASSUME NEW t \in Types, NEW n \in Nodes, NEW w \in watches[n],
             w.owner = <<s, t>>
      PROVE  OwnedBy(s, t, n, w)'
  BY <1>1, <1>5 DEF XdsInv, Owned, OwnedBy, cacheVars, processVars
<1>6. ASSUME NEW t \in Types, ~Ads PROVE FedOn(s, t)'
  BY <1>1, <1>6 DEF XdsInv, Fed, FedOn, cacheVars, processVars
<1>7. CacheInv' /\ Holding' /\ Handling' /\ Owned' /\ Fed' /\ Ordered'
  BY <1>1, <1>2, <1>3, <1>5, <1>6, StreamFrame DEF processVars, clientVars
<1>8. QED BY <1>4, <1>7 DEF XdsInv

----------------------------------------------------------------------------
\* The responses that are left when the first one is taken off the wire.
LEMMA TakenOff ==
  ASSUME XdsTypeOK, NEW s \in Streams, NEW t \in Types, toClient[s] # <<>>,
         toClient'[s] = Tail(toClient[s]),
         NEW i \in InFlight(s, t)'
  PROVE  /\ i + 1 \in InFlight(s, t) /\ i \in Nat
         /\ toClient'[s][i] = toClient[s][i + 1]
<1>1. toClient[s] \in Seq(WireResponse)
  BY DEF XdsTypeOK
<1>2. /\ i \in 1 .. Len(Tail(toClient[s]))
      /\ toClient'[s][i].type = t /\ toClient'[s][i].seq # 0
  BY DEF InFlight
<1>3. Len(Tail(toClient[s])) = Len(toClient[s]) - 1
  BY <1>1
<1>4. i \in Nat /\ i + 1 \in 1 .. Len(toClient[s])
  BY <1>1, <1>2, <1>3
<1>5. toClient'[s][i] = toClient[s][i + 1]
  BY <1>1, <1>2, <1>3
<1>6. QED BY <1>2, <1>4, <1>5 DEF InFlight

\* A response that is taken off the wire, and its snapshot perhaps kept.
LEMMA OrderedTail ==
  ASSUME XdsInv, NEW s \in Streams, NEW t \in Types, toClient[s] # <<>>,
         UNCHANGED <<snapshots, chan, value>>,
         toClient'[s] = Tail(toClient[s]),
         \/ client'[<<s, t>>].seq = client[<<s, t>>].seq
         \/ /\ 1 \in InFlight(s, t)
            /\ client'[<<s, t>>].seq = toClient[s][1].seq
  PROVE  OrderedOn(s, t)'
<1>1. OrderedOn(s, t)
  BY DEF XdsInv, Ordered
<1>2. Published(NodeID(s))' = Published(NodeID(s))
  BY DEF Published
<1>3. client[<<s, t>>].seq \in Nat /\ Published(NodeID(s)) \in Nat
  <2>1. <<s, t>> \in Callers /\ NodeID(s) \in Nodes
    BY PairIsCaller, XdsAssumption
  <2>2. Published(NodeID(s)) \in Nat
    BY <2>1, PublishedType DEF XdsInv, CacheInv
  <2>3. client[<<s, t>>] \in ClientState
    BY <2>1 DEF XdsInv, XdsTypeOK
  <2>4. QED BY <2>2, <2>3 DEF ClientState
<1>4. ASSUME NEW i \in InFlight(s, t)
      PROVE  toClient[s][i].seq \in Nat /\ i \in Nat
  <2>1. toClient[s] \in Seq(WireResponse) /\ i \in 1 .. Len(toClient[s])
    BY DEF InFlight, XdsInv, XdsTypeOK
  <2>2. toClient[s][i] \in WireResponse
    BY <2>1
  <2>3. QED BY <2>1, <2>2 DEF WireResponse
<1>5. ASSUME NEW i \in InFlight(s, t)'
      PROVE  /\ i + 1 \in InFlight(s, t) /\ i \in Nat
             /\ toClient'[s][i] = toClient[s][i + 1]
  BY TakenOff DEF XdsInv
<1>6. \/ client'[<<s, t>>].seq = client[<<s, t>>].seq
      \/ /\ 1 \in InFlight(s, t)
         /\ client'[<<s, t>>].seq = toClient[s][1].seq
  OBVIOUS
<1>7. client'[<<s, t>>].seq <= Published(NodeID(s))'
  BY <1>1, <1>2, <1>6 DEF OrderedOn
<1>8. ASSUME NEW i \in InFlight(s, t)'
      PROVE  /\ client'[<<s, t>>].seq <= toClient'[s][i].seq
             /\ toClient'[s][i].seq <= Published(NodeID(s))'
  <2>1. i + 1 \in InFlight(s, t) /\ toClient'[s][i] = toClient[s][i + 1] /\ i \in Nat
    BY <1>5
  <2>2. ASSUME 1 \in InFlight(s, t)
        PROVE  toClient[s][1].seq <= toClient[s][i + 1].seq
    <3>1. CASE i = 0
      BY <3>1, <2>1, <1>4
    <3>2. CASE i # 0
      <4>1. 1 < i + 1
        BY <3>2, <2>1
      <4>2. QED BY <4>1, <2>1, <2>2, <1>1 DEF OrderedOn
    <3>3. QED BY <3>1, <3>2
  <2>3. client[<<s, t>>].seq <= toClient[s][i + 1].seq
    BY <1>1, <2>1 DEF OrderedOn
  <2>4. toClient[s][i + 1].seq <= Published(NodeID(s))
    BY <1>1, <2>1 DEF OrderedOn
  <2>5. QED BY <1>2, <1>6, <2>1, <2>2, <2>3, <2>4
<1>9. ASSUME NEW i \in InFlight(s, t)', NEW j \in InFlight(s, t)', i < j
      PROVE  toClient'[s][i].seq <= toClient'[s][j].seq
  <2>1. i + 1 \in InFlight(s, t) /\ toClient'[s][i] = toClient[s][i + 1] /\ i \in Nat
    BY <1>5
  <2>2. j + 1 \in InFlight(s, t) /\ toClient'[s][j] = toClient[s][j + 1] /\ j \in Nat
    BY <1>5
  <2>3. i + 1 < j + 1
    BY <1>9, <2>1, <2>2
  <2>4. toClient[s][i + 1].seq <= toClient[s][j + 1].seq
    BY <1>1, <2>1, <2>2, <2>3 DEF OrderedOn
  <2>5. QED BY <2>1, <2>2, <2>4
<1>10. ASSUME value'[<<s, t>>] # 0, chan'[value'[<<s, t>>]].buf # Nil
       PROVE  /\ client'[<<s, t>>].seq <= chan'[value'[<<s, t>>]].buf.seq
              /\ chan'[value'[<<s, t>>]].buf.seq <= Published(NodeID(s))'
              /\ \A i \in InFlight(s, t)' :
                   toClient'[s][i].seq <= chan'[value'[<<s, t>>]].buf.seq
  <2>1. /\ client[<<s, t>>].seq <= chan[value[<<s, t>>]].buf.seq
        /\ chan[value[<<s, t>>]].buf.seq <= Published(NodeID(s))
        /\ \A i \in InFlight(s, t) :
             toClient[s][i].seq <= chan[value[<<s, t>>]].buf.seq
    BY <1>1, <1>10 DEF OrderedOn
  <2>2. QED BY <1>2, <1>5, <1>6, <2>1
<1>11. QED BY <1>7, <1>8, <1>9, <1>10 DEF OrderedOn

\* Streams other than s see nothing of an Envoy's step on s.
LEMMA OrderedOther ==
  ASSUME Ordered, NEW s \in Streams, NEW t \in Types,
         UNCHANGED <<snapshots, chan, value>>,
         toClient'[s] = toClient[s],
         client'[<<s, t>>].seq = client[<<s, t>>].seq
  PROVE  OrderedOn(s, t)'
<1>1. OrderedOn(s, t)
  BY DEF Ordered
<1>2. InFlight(s, t)' = InFlight(s, t)
  BY DEF InFlight
<1>3. Published(NodeID(s))' = Published(NodeID(s))
  BY DEF Published
<1>4. QED BY <1>1, <1>2, <1>3 DEF OrderedOn

\* A request that an Envoy puts on the wire.
LEMMA AskType ==
  ASSUME XdsTypeOK, NEW s \in Streams, NEW url \in Types \cup {AnyType},
         NEW version \in Versions, NEW names \in SUBSET Names,
         NEW n \in Nonces, Ask(s, url, version, names, n)
  PROVE  toServer' \in [Streams -> Seq(WireRequest)]
<1> DEFINE r == [type |-> url, version |-> version, names |-> names, nonce |-> n]
<1>1. r \in WireRequest
  BY DEF WireRequest
<1>2. Append(toServer[s], r) \in Seq(WireRequest)
  BY <1>1 DEF XdsTypeOK
<1>3. QED BY <1>2 DEF Ask, XdsTypeOK

\* The first response on the wire, and what is left.
LEMMA FirstResponse ==
  ASSUME XdsTypeOK, NEW s \in Streams, toClient[s] # <<>>,
         toClient' = [toClient EXCEPT ![s] = Tail(@)]
  PROVE  /\ Head(toClient[s]) \in WireResponse
         /\ Head(toClient[s]) = toClient[s][1]
         /\ toClient'[s] = Tail(toClient[s])
         /\ toClient' \in [Streams -> Seq(WireResponse)]
         /\ \A r \in Streams \ {s} : toClient'[r] = toClient[r]
         /\ 1 \in 1 .. Len(toClient[s])
<1>1. toClient[s] \in Seq(WireResponse)
  BY DEF XdsTypeOK
<1>2. /\ Head(toClient[s]) \in WireResponse
      /\ Head(toClient[s]) = toClient[s][1]
      /\ Tail(toClient[s]) \in Seq(WireResponse)
      /\ 1 \in 1 .. Len(toClient[s])
  BY <1>1
<1>3. QED BY <1>2 DEF XdsTypeOK

\* A step of the Envoy of s that takes the first response and keeps it or
\* not, or takes none, keeps everything in order.
LEMMA EnvoyOrdered ==
  ASSUME XdsInv, NEW s \in Streams,
         UNCHANGED <<snapshots, chan, value>>,
         \/ UNCHANGED toClient
         \/ /\ toClient[s] # <<>>
            /\ toClient' = [toClient EXCEPT ![s] = Tail(@)],
         \A r \in Streams, t \in Types :
            \/ client'[<<r, t>>].seq = client[<<r, t>>].seq
            \/ /\ r = s /\ toClient[s] # <<>>
               /\ toClient' = [toClient EXCEPT ![s] = Tail(@)]
               /\ toClient[s][1].type = t /\ toClient[s][1].seq # 0
               /\ client'[<<r, t>>].seq = toClient[s][1].seq
  PROVE  Ordered'
<1> SUFFICES ASSUME NEW r \in Streams, NEW t \in Types PROVE OrderedOn(r, t)'
  BY DEF Ordered
<1>1. CASE toClient'[r] = toClient[r] /\ client'[<<r, t>>].seq = client[<<r, t>>].seq
  BY <1>1, OrderedOther DEF XdsInv
<1>2. CASE r = s /\ toClient[s] # <<>>
           /\ toClient' = [toClient EXCEPT ![s] = Tail(@)]
  <2>1. /\ toClient'[s] = Tail(toClient[s])
        /\ 1 \in 1 .. Len(toClient[s])
    BY <1>2, FirstResponse DEF XdsInv
  <2>2. \/ client'[<<s, t>>].seq = client[<<s, t>>].seq
        \/ /\ 1 \in InFlight(s, t)
           /\ client'[<<s, t>>].seq = toClient[s][1].seq
    BY <1>2, <2>1 DEF InFlight
  <2>3. QED BY <1>2, <2>1, <2>2, OrderedTail
<1>3. QED
  <2>1. CASE UNCHANGED toClient
    <3>1. CASE client'[<<r, t>>].seq = client[<<r, t>>].seq
      BY <1>1, <2>1, <3>1
    <3>2. CASE client'[<<r, t>>].seq # client[<<r, t>>].seq
      BY <1>2, <3>2
    <3>3. QED BY <3>1, <3>2
  <2>2. CASE toClient[s] # <<>> /\ toClient' = [toClient EXCEPT ![s] = Tail(@)]
    <3>1. CASE r = s
      BY <1>2, <2>2, <3>1
    <3>2. CASE r # s
      BY <1>1, <2>2, <3>2, FirstResponse DEF XdsInv
    <3>3. QED BY <3>1, <3>2
  <2>3. QED BY <2>1, <2>2

LEMMA SubscribeInv ==
  ASSUME XdsInv, NEW s \in Streams, NEW t \in Types,
         NEW url \in Types \cup {AnyType}, NEW names \in Wanted,
         Subscribe(s, t, url, names)
  PROVE  XdsInv'
<1>1. UNCHANGED <<cacheVars, processVars, readerVars, up, opens, toClient>>
  BY DEF Subscribe
<1>2. /\ <<s, t>> \in Callers /\ names \in SUBSET Names
      /\ client[<<s, t>>] \in ClientState
  BY PairIsCaller, XdsAssumption DEF XdsInv, XdsTypeOK
<1>3. toServer' \in [Streams -> Seq(WireRequest)]
  BY <1>2, AskType DEF Subscribe, ClientState, XdsInv
<1>4. /\ client' \in [Callers -> ClientState]
      /\ \A c \in Callers : client'[c].seq = client[c].seq
  BY <1>2 DEF Subscribe, XdsInv, XdsTypeOK, ClientState
<1>5. asks' \in [Streams -> 0 .. MaxAsks]
  BY SMTT(20), XdsAssumption DEF Subscribe, XdsInv, XdsTypeOK
<1>6. XdsTypeOK'
  BY <1>1, <1>3, <1>4, <1>5, CacheFrame
  DEF XdsInv, XdsTypeOK, CacheInv, processVars, readerVars
<1>7. Ordered'
  BY <1>1, <1>4, PairIsCaller, EnvoyOrdered DEF cacheVars
<1>8. QED BY <1>1, <1>6, <1>7, EnvoyFrame DEF XdsInv

LEMMA AckInv ==
  ASSUME XdsInv, NEW s \in Streams, NEW t \in Types, Ack(s, t)
  PROVE  XdsInv'
<1> DEFINE r == Head(toClient[s])
           c == client[<<s, t>>]
           d == [c EXCEPT !.version = r.version, !.nonce = r.nonce,
                          !.seq = IF r.seq = 0 THEN @ ELSE r.seq,
                          !.has = IF r.seq = 0 THEN @ ELSE r.names]
<1>1. /\ UNCHANGED <<cacheVars, processVars, readerVars, up, asks, opens>>
      /\ toClient[s] # <<>> /\ r.type = t
      /\ toClient' = [toClient EXCEPT ![s] = Tail(@)]
      /\ client' = [client EXCEPT ![<<s, t>>] = d]
      /\ Ask(s, t, r.version, c.wants, r.nonce)
  BY DEF Ack
<1>2. <<s, t>> \in Callers /\ c \in ClientState
  BY PairIsCaller DEF XdsInv, XdsTypeOK
<1>3. /\ r \in WireResponse /\ r = toClient[s][1]
      /\ toClient' \in [Streams -> Seq(WireResponse)]
  BY <1>1, FirstResponse DEF XdsInv
<1>4. toServer' \in [Streams -> Seq(WireRequest)]
  BY <1>1, <1>2, <1>3, AskType DEF ClientState, WireResponse, XdsInv
<1>5. d \in ClientState /\ d.seq = IF r.seq = 0 THEN c.seq ELSE r.seq
  BY <1>2, <1>3 DEF ClientState, WireResponse
<1>6. /\ client' \in [Callers -> ClientState]
      /\ client'[<<s, t>>] = d
      /\ \A e \in Callers \ {<<s, t>>} : client'[e] = client[e]
  BY <1>1, <1>2, <1>5 DEF XdsInv, XdsTypeOK
<1>7. XdsTypeOK'
  BY <1>1, <1>3, <1>4, <1>6, CacheFrame
  DEF XdsInv, XdsTypeOK, CacheInv, processVars, readerVars
<1>8. ASSUME NEW q \in Streams, NEW u \in Types
      PROVE  \/ client'[<<q, u>>].seq = client[<<q, u>>].seq
             \/ /\ q = s /\ toClient[s] # <<>>
                /\ toClient' = [toClient EXCEPT ![s] = Tail(@)]
                /\ toClient[s][1].type = u /\ toClient[s][1].seq # 0
                /\ client'[<<q, u>>].seq = toClient[s][1].seq
  <2>1. CASE <<q, u>> = <<s, t>>
    BY <1>1, <1>3, <1>5, <1>6, <2>1
  <2>2. CASE <<q, u>> # <<s, t>>
    BY <1>6, <2>2, PairIsCaller
  <2>3. QED BY <2>1, <2>2
<1>9. Ordered'
  <2>1. UNCHANGED <<snapshots, chan, value>>
    BY <1>1 DEF cacheVars
  <2>2. QED BY <1>1, <1>8, <2>1, EnvoyOrdered
<1>10. QED BY <1>1, <1>7, <1>9, EnvoyFrame DEF XdsInv

LEMMA NackInv ==
  ASSUME XdsInv, NEW s \in Streams, NEW t \in Types, Nack(s, t)
  PROVE  XdsInv'
<1> DEFINE r == Head(toClient[s])
           c == client[<<s, t>>]
<1>1. /\ UNCHANGED <<cacheVars, processVars, readerVars, up, asks, opens>>
      /\ toClient[s] # <<>> /\ r.type = t
      /\ toClient' = [toClient EXCEPT ![s] = Tail(@)]
      /\ client' = [client EXCEPT ![<<s, t>>].nonce = r.nonce]
      /\ Ask(s, t, c.version, c.wants, r.nonce)
  BY DEF Nack
<1>2. <<s, t>> \in Callers /\ c \in ClientState
  BY PairIsCaller DEF XdsInv, XdsTypeOK
<1>3. /\ r \in WireResponse
      /\ toClient' \in [Streams -> Seq(WireResponse)]
  BY <1>1, FirstResponse DEF XdsInv
<1>4. toServer' \in [Streams -> Seq(WireRequest)]
  BY <1>1, <1>2, <1>3, AskType DEF ClientState, WireResponse, XdsInv
<1>5. /\ client' \in [Callers -> ClientState]
      /\ \A e \in Callers : client'[e].seq = client[e].seq
  <2>1. r.nonce \in Nonces
    BY <1>3 DEF WireResponse
  <2>2. QED BY <1>1, <1>2, <2>1 DEF XdsInv, XdsTypeOK, ClientState
<1>6. XdsTypeOK'
  BY <1>1, <1>3, <1>4, <1>5, CacheFrame
  DEF XdsInv, XdsTypeOK, CacheInv, processVars, readerVars
<1>7. Ordered'
  BY <1>1, <1>5, PairIsCaller, EnvoyOrdered DEF cacheVars
<1>8. QED BY <1>1, <1>6, <1>7, EnvoyFrame DEF XdsInv

LEMMA IgnoreInv ==
  ASSUME XdsInv, NEW s \in Streams, Ignore(s)
  PROVE  XdsInv'
<1>1. /\ UNCHANGED <<cacheVars, processVars, readerVars, clientVars, toServer>>
      /\ toClient[s] # <<>>
      /\ toClient' = [toClient EXCEPT ![s] = Tail(@)]
  BY DEF Ignore
<1>2. XdsTypeOK'
  BY <1>1, FirstResponse, CacheFrame
  DEF XdsInv, XdsTypeOK, CacheInv, processVars, readerVars, clientVars
<1>3. Ordered'
  BY <1>1, EnvoyOrdered DEF cacheVars, clientVars
<1>4. QED BY <1>1, <1>2, <1>3, EnvoyFrame DEF XdsInv

LEMMA DisconnectInv ==
  ASSUME XdsInv, NEW s \in Streams, Disconnect(s)
  PROVE  XdsInv'
<1>1. /\ UNCHANGED <<cacheVars, processVars, readerVars, client, asks, opens,
                     netVars>>
      /\ up' = [up EXCEPT ![s] = FALSE]
  BY DEF Disconnect
<1>2. XdsTypeOK'
  BY <1>1, CacheFrame
  DEF XdsInv, XdsTypeOK, CacheInv, processVars, readerVars, netVars
<1>3. Ordered'
  BY <1>1, OrderedFrame DEF XdsInv, cacheVars, netVars
<1>4. QED BY <1>1, <1>2, <1>3, EnvoyFrame DEF XdsInv

\* Whatever the Envoy of a stream does.
LEMMA EnvoyInv ==
  ASSUME XdsInv, NEW s \in Streams, Envoy(s)
  PROVE  XdsInv'
  BY TypesOfType, SubscribeInv, AckInv, NackInv, IgnoreInv, DisconnectInv
  DEF Envoy

----------------------------------------------------------------------------
\* A stream that is opened again owns nothing in the cache.
LEMMA OpenInv ==
  ASSUME XdsInv, NEW s \in Streams, Open(s)
  PROVE  XdsInv'
<1> DEFINE Empty == [type |-> StreamType[s], version |-> NoVersion,
                     names |-> {}, nonce |-> 1, seq |-> 0]
<1>1. /\ pc[s] \in {"idle", "closed"} /\ opens[s] < MaxOpens /\ MaxNonce > 0
      /\ UNCHANGED <<snapshots, tracked, watches, watchCount, setCount, calls,
                     chan, reading, down, asks>>
  BY DEF Open
<1>2. /\ pc' = [pc EXCEPT ![s] = "select"]
      /\ req' = [req EXCEPT ![s] = Nil]
      /\ toCancel' = [toCancel EXCEPT ![s] = {}]
      /\ reader' = [reader EXCEPT ![s] = "recv"]
      /\ held' = [held EXCEPT ![s] = Nil]
      /\ value' = [c \in Callers |-> IF c[1] = s THEN 0 ELSE value[c]]
      /\ cancel' = [c \in Callers |-> IF c[1] = s THEN Nil ELSE cancel[c]]
      /\ nonce' = [c \in Callers |-> IF c[1] = s THEN 0 ELSE nonce[c]]
      /\ streamNonce' = [streamNonce EXCEPT ![s] = 1]
      /\ opens' = [opens EXCEPT ![s] = @ + 1]
      /\ up' = [up EXCEPT ![s] = TRUE]
      /\ toServer' = [toServer EXCEPT ![s] = <<>>]
      /\ toClient' = [toClient EXCEPT ![s] = <<Empty>>]
      /\ client' = [c \in Callers |->
            IF c[1] = s THEN [client[c] EXCEPT !.subscribed = FALSE, !.nonce = 0]
                        ELSE client[c]]
  BY DEF Open
<1>3. ASSUME NEW t \in Types
      PROVE  /\ value'[<<s, t>>] = 0
             /\ \A n \in Nodes : \A w \in watches[n] : w.owner # <<s, t>>
  BY <1>1, <1>2, PairIsCaller DEF XdsInv, Owned, OwnedBy
<1>4. ASSUME NEW r \in Streams \ {s}, NEW t \in Types
      PROVE  /\ value'[<<r, t>>] = value[<<r, t>>]
             /\ cancel'[<<r, t>>] = cancel[<<r, t>>]
             /\ nonce'[<<r, t>>] = nonce[<<r, t>>]
  BY <1>2, PairIsCaller
<1>5. /\ pc'[s] = "select" /\ reader'[s] = "recv"
      /\ \A r \in Streams \ {s} :
           /\ pc'[r] = pc[r] /\ req'[r] = req[r] /\ toCancel'[r] = toCancel[r]
           /\ reader'[r] = reader[r] /\ held'[r] = held[r]
  BY <1>2 DEF XdsInv, XdsTypeOK
<1>6. \A c \in Callers :
        \/ value'[c] = value[c] /\ cancel'[c] = cancel[c]
        \/ value'[c] = 0 /\ cancel'[c] = Nil
  BY <1>2
<1>7. CacheInv'
  <2>1. TypeOK'
    <3>1. TypeOK /\ 0 \in 0 .. MaxCalls
      BY CacheAssumption DEF XdsInv, CacheInv
    <3>2. value' \in [Callers -> 0 .. MaxCalls]
      BY <1>2, <3>1 DEF TypeOK
    <3>3. cancel' \in [Callers -> Cancel \cup {Nil}]
      BY <1>2, <3>1 DEF TypeOK
    <3>4. QED BY <1>1, <3>1, <3>2, <3>3 DEF TypeOK
  <2>2. Numbered' /\ Filed' /\ Distinct' /\ NoOutdatedWatch'
    BY <1>1, <1>6 DEF XdsInv, CacheInv, Numbered, Filed, Distinct, Unused,
       NoOutdatedWatch, UpToDate, GetVersion
  <2>3. CancelIsOwn'
    BY <1>1, <1>6 DEF XdsInv, CacheInv, CancelIsOwn
  <2>4. QED BY <2>1, <2>2, <2>3 DEF CacheInv
<1>8. XdsTypeOK'
  <2>1. /\ 0 \in Nonces /\ 1 \in Nonces
        /\ opens[s] + 1 \in 0 .. MaxOpens
    <3>1. opens[s] \in 0 .. MaxOpens
      BY DEF XdsInv, XdsTypeOK
    <3>2. QED BY <1>1, <3>1, XdsAssumption
  <2>2. /\ streamNonce' \in [Streams -> Nonces] /\ nonce' \in [Callers -> Nonces]
        /\ opens' \in [Streams -> 0 .. MaxOpens]
    BY <1>2, <2>1 DEF XdsInv, XdsTypeOK
  <2>3. /\ toServer' \in [Streams -> Seq(WireRequest)]
        /\ toClient' \in [Streams -> Seq(WireResponse)]
    <3>1. Empty \in WireResponse
      BY <2>1, XdsAssumption, CacheAssumption DEF WireResponse
    <3>2. <<Empty>> \in Seq(WireResponse) /\ <<>> \in Seq(WireRequest)
      BY <3>1
    <3> HIDE DEF Empty
    <3>3. QED BY <1>2, <3>2 DEF XdsInv, XdsTypeOK
  <2>4. client' \in [Callers -> ClientState]
    <3>1. ASSUME NEW c \in Callers
          PROVE  client'[c] \in ClientState
      <4>1. PICK k \in ClientState : k = client[c]
        BY DEF XdsInv, XdsTypeOK
      <4>2. [k EXCEPT !.subscribed = FALSE, !.nonce = 0] \in ClientState
        BY <2>1 DEF ClientState
      <4>3. client'[c] = IF c[1] = s
                         THEN [k EXCEPT !.subscribed = FALSE, !.nonce = 0] ELSE k
        BY <1>2, <4>1
      <4>4. QED BY <4>2, <4>3
    <3>2. QED BY <1>2, <3>1
  <2>5. up' \in [Streams -> BOOLEAN]
    BY <1>2 DEF XdsInv, XdsTypeOK
  <2>6. QED BY <1>1, <1>2, <1>7, <2>1, <2>2, <2>3, <2>4, <2>5
            DEF XdsInv, XdsTypeOK, CacheInv
<1>9. Holding'
  <2>1. calls \in Nat
    BY CacheAssumption DEF XdsInv, CacheInv, TypeOK
  <2>2. QED BY <1>1, <1>6, <2>1 DEF XdsInv, Holding
<1>10. Handling'
  <2>1. HandlingOn(s)'
    BY <1>5 DEF HandlingOn
  <2>2. ASSUME NEW r \in Streams \ {s} PROVE HandlingOn(r)'
    BY <1>4, <1>5 DEF XdsInv, Handling, HandlingOn, FreshNonce
  <2>3. QED BY <2>1, <2>2 DEF Handling
<1>11. Owned'
  <2> SUFFICES ASSUME NEW r \in Streams, NEW t \in Types, NEW n \in Nodes,
                      NEW w \in watches[n], w.owner = <<r, t>>
               PROVE  OwnedBy(r, t, n, w)'
    BY <1>1 DEF Owned
  <2>1. r # s
    BY <1>3
  <2>2. OwnedBy(r, t, n, w)
    BY DEF XdsInv, Owned
  <2>3. QED BY <1>4, <1>5, <2>1, <2>2 DEF OwnedBy
<1>12. Fed'
  <2> SUFFICES ASSUME NEW r \in Streams, NEW t \in Types, ~Ads
               PROVE  FedOn(r, t)'
    BY DEF Fed
  <2>1. CASE r = s
    BY <1>3, <2>1 DEF FedOn
  <2>2. CASE r # s
    BY <1>1, <1>4, <1>5, <2>2 DEF XdsInv, Fed, FedOn
  <2>3. QED BY <2>1, <2>2
<1>13. Ordered'
  <2> SUFFICES ASSUME NEW r \in Streams, NEW t \in Types
               PROVE  OrderedOn(r, t)'
    BY DEF Ordered
  <2>1. client'[<<r, t>>].seq = client[<<r, t>>].seq
    <3>1. <<r, t>> \in Callers /\ client[<<r, t>>] \in ClientState
      BY PairIsCaller DEF XdsInv, XdsTypeOK
    <3>2. client'[<<r, t>>] =
             IF r = s THEN [client[<<r, t>>] EXCEPT !.subscribed = FALSE, !.nonce = 0]
                      ELSE client[<<r, t>>]
      BY <1>2, <3>1
    <3>3. QED BY <3>1, <3>2 DEF ClientState
  <2>2. Published(NodeID(r))' = Published(NodeID(r))
    BY <1>1 DEF Published
  <2>3. OrderedOn(r, t)
    BY DEF XdsInv, Ordered
  <2>4. CASE r = s
    <3>1. toClient'[s] = <<Empty>>
      BY <1>2 DEF XdsInv, XdsTypeOK
    <3>2. InFlight(s, t)' = {}
      BY <3>1 DEF InFlight
    <3>3. QED BY <1>3, <2>1, <2>2, <2>3, <2>4, <3>2 DEF OrderedOn
  <2>5. CASE r # s
    <3>1. toClient'[r] = toClient[r]
      BY <1>2, <2>5 DEF XdsInv, XdsTypeOK
    <3>2. InFlight(r, t)' = InFlight(r, t)
      BY <3>1 DEF InFlight
    <3>3. QED BY <1>1, <1>4, <2>1, <2>2, <2>3, <2>5, <3>1, <3>2 DEF OrderedOn
  <2>6. QED BY <2>4, <2>5
<1>14. QED BY <1>7, <1>8, <1>9, <1>10, <1>11, <1>12, <1>13 DEF XdsInv

----------------------------------------------------------------------------
\* The responses on the wire once r is sent after them.
LEMMA PutOn ==
  ASSUME XdsTypeOK, NEW s \in Streams, NEW t \in Types, NEW r \in WireResponse,
         toClient' = [toClient EXCEPT ![s] = Append(@, r)]
  PROVE  /\ toClient' \in [Streams -> Seq(WireResponse)]
         /\ \A q \in Streams \ {s} : toClient'[q] = toClient[q]
         /\ \A i \in InFlight(s, t)' :
              \/ i \in InFlight(s, t) /\ toClient'[s][i] = toClient[s][i]
              \/ /\ i = Len(toClient[s]) + 1 /\ toClient'[s][i] = r
                 /\ r.type = t
<1>1. toClient[s] \in Seq(WireResponse)
  BY DEF XdsTypeOK
<1>2. Append(toClient[s], r) \in Seq(WireResponse)
  BY <1>1
<1>3. toClient'[s] = Append(toClient[s], r)
  BY DEF XdsTypeOK
<1>4. ASSUME NEW i \in InFlight(s, t)'
      PROVE  \/ i \in InFlight(s, t) /\ toClient'[s][i] = toClient[s][i]
             \/ /\ i = Len(toClient[s]) + 1 /\ toClient'[s][i] = r
                /\ r.type = t
  <2>1. /\ i \in 1 .. Len(toClient[s]) + 1
        /\ toClient'[s][i].type = t /\ toClient'[s][i].seq # 0
    BY <1>1, <1>3 DEF InFlight
  <2>2. CASE i \in 1 .. Len(toClient[s])
    <3>1. toClient'[s][i] = toClient[s][i]
      BY <1>1, <1>3, <2>2
    <3>2. QED BY <2>1, <2>2, <3>1 DEF InFlight
  <2>3. CASE i \notin 1 .. Len(toClient[s])
    <3>1. i = Len(toClient[s]) + 1
      BY <1>1, <2>1, <2>3
    <3>2. toClient'[s][i] = r
      BY <1>1, <1>3, <3>1
    <3>3. QED BY <2>1, <3>1, <3>2
  <2>4. QED BY <2>2, <2>3
<1>5. QED BY <1>2, <1>4 DEF XdsTypeOK

\* process() takes the response of a type: it was not yet overtaken, so it
\* may follow what is on the wire.
LEMMA SelectResponseOrdered ==
  ASSUME XdsInv, NEW s \in Streams, NEW t \in Types, Receive(<<s, t>>),
         UNCHANGED client, NEW n \in Nonces,
         \/ UNCHANGED toClient
         \/ toClient' = [toClient EXCEPT ![s] = Append(@,
              [type |-> t, version |-> chan[value[<<s, t>>]].buf.version,
               names |-> chan[value[<<s, t>>]].buf.names, nonce |-> n,
               seq |-> chan[value[<<s, t>>]].buf.seq])]
  PROVE  Ordered' /\ toClient' \in [Streams -> Seq(WireResponse)]
<1> DEFINE c == <<s, t>>
           i == value[c]
           b == chan[i].buf
           r == [type |-> t, version |-> b.version, names |-> b.names,
                 nonce |-> n, seq |-> b.seq]
<1>1. /\ i # 0 /\ b # Nil /\ chan' = [chan EXCEPT ![i].buf = Nil]
      /\ UNCHANGED <<snapshots, value>>
  BY DEF Receive
<1>2. c \in Callers /\ i \in ChanId /\ b \in Response
  <2>1. c \in Callers
    BY PairIsCaller
  <2>2. i \in ChanId
    BY <1>1, <2>1, CacheAssumption DEF XdsInv, CacheInv, TypeOK, ChanId
  <2>3. QED BY <1>1, <2>1, <2>2 DEF XdsInv, CacheInv, TypeOK, Channel
<1>3. r \in WireResponse /\ r.type = t /\ r.seq = b.seq
  BY <1>2, CacheAssumption DEF WireResponse, Response
<1> HIDE DEF r
<1>4. UNCHANGED toClient \/ toClient' = [toClient EXCEPT ![s] = Append(@, r)]
  BY DEF r
<1>5. toClient' \in [Streams -> Seq(WireResponse)]
  BY <1>3, <1>4, PutOn DEF XdsInv, XdsTypeOK
<1>6. chan'[i].buf = Nil /\ \A j \in ChanId \ {i} : chan'[j] = chan[j]
  BY <1>1, <1>2 DEF XdsInv, CacheInv, TypeOK, Channel
<1>7. ASSUME NEW q \in Streams, NEW u \in Types
      PROVE  OrderedOn(q, u)'
  <2>1. OrderedOn(q, u)
    BY DEF XdsInv, Ordered
  <2>2. Published(NodeID(q))' = Published(NodeID(q))
    BY <1>1 DEF Published
  <2>3. CASE q = s /\ u = t
    <3>1. OrderedOn(s, t)
      BY <2>1, <2>3
    <3>2. /\ client[c].seq <= b.seq /\ b.seq <= Published(NodeID(s))
          /\ \A j \in InFlight(s, t) : toClient[s][j].seq <= b.seq
      BY <1>1, <3>1 DEF OrderedOn
    <3>3. ASSUME NEW j \in InFlight(s, t)'
          PROVE  \/ j \in InFlight(s, t) /\ toClient'[s][j] = toClient[s][j]
                 \/ j = Len(toClient[s]) + 1 /\ toClient'[s][j].seq = b.seq
      <4>1. CASE UNCHANGED toClient
        BY <4>1 DEF InFlight
      <4>2. CASE toClient' = [toClient EXCEPT ![s] = Append(@, r)]
        <5>1. r \in WireResponse /\ XdsTypeOK
          BY <1>3 DEF XdsInv
        <5>2. \A k \in InFlight(s, t)' :
                 \/ k \in InFlight(s, t) /\ toClient'[s][k] = toClient[s][k]
                 \/ k = Len(toClient[s]) + 1 /\ toClient'[s][k] = r /\ r.type = t
          BY ZenonT(20), <4>2, <5>1, PutOn
        <5>3. QED BY <1>3, <5>2
      <4>3. QED BY <1>4, <4>1, <4>2
    <3>4. ASSUME NEW j \in InFlight(s, t)'
          PROVE  /\ client'[c].seq <= toClient'[s][j].seq
                 /\ toClient'[s][j].seq <= Published(NodeID(s))'
      BY <2>2, <2>3, <3>1, <3>2, <3>3 DEF OrderedOn
    <3>5. ASSUME NEW j \in InFlight(s, t)', NEW k \in InFlight(s, t)', j < k
          PROVE  toClient'[s][j].seq <= toClient'[s][k].seq
      <4>1. b.seq \in Nat /\ Len(toClient[s]) \in Nat
        BY SMTT(20), <1>2, CacheAssumption DEF XdsInv, XdsTypeOK, Response
      <4>2. CASE j \in InFlight(s, t) /\ toClient'[s][j] = toClient[s][j]
        <5>1. CASE k \in InFlight(s, t) /\ toClient'[s][k] = toClient[s][k]
          BY <3>1, <3>5, <4>2, <5>1 DEF OrderedOn
        <5>2. CASE toClient'[s][k].seq = b.seq
          BY <3>2, <4>2, <5>2
        <5>3. QED BY <3>3, <5>1, <5>2
      <4>3. CASE j = Len(toClient[s]) + 1 /\ toClient'[s][j].seq = b.seq
        <5>1. k \notin InFlight(s, t)
          BY <3>5, <4>1, <4>3 DEF InFlight
        <5>2. QED BY <3>3, <4>1, <4>3, <5>1
      <4>4. QED BY <3>3, <4>2, <4>3
    <3>6. chan'[value'[c]].buf = Nil
      BY <1>1, <1>6
    <3>7. client'[c].seq <= Published(NodeID(s))'
      BY <2>2, <2>3, <3>1 DEF OrderedOn
    <3>8. QED BY <2>3, <3>4, <3>5, <3>6, <3>7 DEF OrderedOn
  <2>4. CASE ~(q = s /\ u = t)
    <3>1. <<q, u>> # c /\ <<q, u>> \in Callers
      BY <2>4, PairIsCaller
    <3>2. ASSUME NEW j \in InFlight(q, u)'
          PROVE  j \in InFlight(q, u) /\ toClient'[q][j] = toClient[q][j]
      <4>1. CASE toClient'[q] = toClient[q]
        BY <4>1 DEF InFlight
      <4>2. CASE q = s /\ toClient' = [toClient EXCEPT ![s] = Append(@, r)]
        <5>1. r \in WireResponse /\ XdsTypeOK /\ u # t
          BY <1>3, <2>4, <4>2 DEF XdsInv
        <5>2. \A k \in InFlight(s, u)' :
                 \/ k \in InFlight(s, u) /\ toClient'[s][k] = toClient[s][k]
                 \/ k = Len(toClient[s]) + 1 /\ toClient'[s][k] = r /\ r.type = u
          BY ZenonT(20), <4>2, <5>1, PutOn
        <5>3. QED BY <1>3, <4>2, <5>1, <5>2
      <4>3. CASE q # s /\ toClient' = [toClient EXCEPT ![s] = Append(@, r)]
        <5>1. r \in WireResponse /\ XdsTypeOK
          BY <1>3 DEF XdsInv
        <5>2. toClient'[q] = toClient[q]
          BY <4>3, <5>1, PutOn
        <5>3. QED BY <4>1, <5>2
      <4>4. QED BY <1>4, <4>1, <4>2, <4>3
    <3>3. ASSUME value[<<q, u>>] # 0
          PROVE  chan'[value[<<q, u>>]] = chan[value[<<q, u>>]]
      <4>1. value[<<q, u>>] # i
        BY <1>1, <1>2, <3>1, <3>3 DEF XdsInv, Holding
      <4>2. value[<<q, u>>] \in ChanId
        BY <3>1, <3>3, CacheAssumption DEF XdsInv, CacheInv, TypeOK, ChanId
      <4>3. QED BY <1>6, <4>1, <4>2
    <3>4. ASSUME value'[<<q, u>>] # 0, chan'[value'[<<q, u>>]].buf # Nil
          PROVE  /\ value[<<q, u>>] # 0
                 /\ chan'[value'[<<q, u>>]] = chan[value[<<q, u>>]]
      BY <1>1, <3>3, <3>4
    <3>5. QED BY <2>1, <2>2, <3>2, <3>4 DEF OrderedOn
  <2>5. QED BY <2>3, <2>4
<1>8. QED BY <1>5, <1>7 DEF Ordered

LEMMA SelectResponseInv ==
  ASSUME XdsInv, NEW s \in Streams, NEW t \in Types, SelectResponse(s, t)
  PROVE  XdsInv'
<1> DEFINE n == streamNonce[s] + 1
<1>1. /\ pc[s] = "select" /\ Receive(<<s, t>>) /\ n <= MaxNonce
      /\ streamNonce' = [streamNonce EXCEPT ![s] = n]
      /\ UNCHANGED <<req, readerVars, clientVars, toServer>>
  BY DEF SelectResponse
<1>2. /\ chan[value[<<s, t>>]].buf # Nil /\ value[<<s, t>>] # 0
      /\ chan' = [chan EXCEPT ![value[<<s, t>>]].buf = Nil]
      /\ UNCHANGED <<snapshots, watches, value, cancel, calls>>
  BY <1>1 DEF Receive
<1>3. CacheInv'
  BY <1>1, PairIsCaller, ReceiveInv DEF XdsInv
<1>4. n \in Nonces
  BY <1>1, XdsAssumption DEF XdsInv, XdsTypeOK
<1>5. Ordered' /\ toClient' \in [Streams -> Seq(WireResponse)]
  BY <1>1, <1>4, SelectResponseOrdered DEF SelectResponse, clientVars
\* The watch that fed this channel is closed.
<1>6. ASSUME NEW m \in Nodes, NEW w \in watches[m]
      PROVE  w.owner # <<s, t>>
  <2>1. chan[w.chan] = Unused
    BY DEF XdsInv, CacheInv, Filed
  <2>2. w.owner = <<s, t>> => w.chan = value[<<s, t>>]
    BY DEF XdsInv, Owned, OwnedBy
  <2>3. QED BY <1>2, <2>1, <2>2 DEF Unused
<1>7. /\ nonce' \in [Callers -> Nonces]
      /\ \A c \in Callers \ {<<s, t>>} : nonce'[c] = nonce[c]
  <2>1. nonce' = [nonce EXCEPT ![<<s, t>>] = n] \/ nonce' = nonce
    BY DEF SelectResponse
  <2>2. QED BY <1>4, <2>1, PairIsCaller DEF XdsInv, XdsTypeOK
<1>8. \A j \in ChanId : chan'[j].sent = chan[j].sent
  BY <1>2 DEF XdsInv, CacheInv, TypeOK, Channel
<1>9. /\ pc' \in [Streams -> {"idle", "select", "callback", "cancel",
                              "create", "closing", "closed"}]
      /\ toCancel' \in [Streams -> SUBSET Types]
      /\ pc'[s] \in {"select", "closing"}
      /\ \A r \in Streams \ {s} : pc'[r] = pc[r] /\ toCancel'[r] = toCancel[r]
      /\ pc'[s] = "closing" => \A u \in Types :
            cancel[<<s, u>>] # Nil => u \in toCancel'[s]
  <2>1. CASE UNCHANGED <<pc, toCancel>>
    BY <1>1, <2>1 DEF XdsInv, XdsTypeOK
  <2>2. CASE Return(s)
    BY <2>2 DEF Return, XdsInv, XdsTypeOK
  <2>3. QED BY <2>1, <2>2 DEF SelectResponse
<1>10. XdsTypeOK'
  <2>1. streamNonce' \in [Streams -> Nonces]
    BY <1>1, <1>4 DEF XdsInv, XdsTypeOK
  <2>2. QED BY <1>1, <1>3, <1>5, <1>7, <1>9, <2>1
            DEF XdsInv, XdsTypeOK, CacheInv, readerVars, clientVars
<1>11. Holding'
  BY <1>2 DEF XdsInv, Holding
<1>12. Handling'
  <2> SUFFICES ASSUME NEW r \in Streams PROVE HandlingOn(r)'
    BY DEF Handling
  <2>1. HandlingOn(r)
    BY DEF XdsInv, Handling
  <2>2. CASE r = s
    BY <1>1, <1>9, <2>1, <2>2 DEF HandlingOn, readerVars
  <2>3. CASE r # s
    <3>1. pc'[r] \in {"cancel", "create"} =>
             nonce'[<<r, req[r].type>>] = nonce[<<r, req[r].type>>]
      BY <1>7, <1>9, <2>1, <2>3, PairIsCaller DEF HandlingOn
    <3>2. QED BY <1>1, <1>9, <2>1, <2>3, <3>1
              DEF HandlingOn, FreshNonce, readerVars
  <2>4. QED BY <2>2, <2>3
<1>13. Owned'
  <2> SUFFICES ASSUME NEW r \in Streams, NEW u \in Types, NEW m \in Nodes,
                      NEW w \in watches[m], w.owner = <<r, u>>
               PROVE  OwnedBy(r, u, m, w)'
    BY <1>2 DEF Owned
  <2>1. OwnedBy(r, u, m, w)
    BY DEF XdsInv, Owned
  <2>2. nonce'[<<r, u>>] = nonce[<<r, u>>]
    BY <1>6, <1>7, PairIsCaller
  <2>3. QED BY <1>1, <1>2, <1>9, <2>1, <2>2 DEF OwnedBy
<1>14. Fed'
  <2> SUFFICES ASSUME NEW r \in Streams, NEW u \in Types, ~Ads
               PROVE  FedOn(r, u)'
    BY DEF Fed
  <2>1. FedOn(r, u)
    BY DEF XdsInv, Fed
  <2>2. value[<<r, u>>] # 0 => value[<<r, u>>] \in ChanId
    BY PairIsCaller, CacheAssumption DEF XdsInv, CacheInv, TypeOK, ChanId
  <2>3. QED BY <1>1, <1>2, <1>8, <1>9, <2>1, <2>2 DEF FedOn
<1>15. QED BY <1>3, <1>5, <1>10, <1>11, <1>12, <1>13, <1>14 DEF XdsInv

----------------------------------------------------------------------------
\* A cancel function removes the watch of its stream and type, no other.
LEMMA CancelRemoves ==
  ASSUME XdsInv, NEW s \in Streams, NEW t \in Types, CancelWatch(<<s, t>>)
  PROVE  /\ CacheInv' /\ Holding'
         /\ UNCHANGED <<snapshots, calls, chan, value, cancel>>
         /\ \A m \in Nodes :
              watches'[m] = {w \in watches[m] : w.owner # <<s, t>>}
<1> DEFINE c == <<s, t>>
           f == cancel[c]
<1>1. /\ f # Nil
      /\ watches' = [watches EXCEPT ![f.node] = {w \in @ : w.id # f.id}]
      /\ UNCHANGED <<snapshots, calls, chan, value, cancel>>
  BY DEF CancelWatch
<1>2. CacheInv' /\ Holding'
  BY <1>1, PairIsCaller, CancelWatchInv DEF XdsInv, Holding
<1>3. ASSUME NEW m \in Nodes, NEW w \in watches[m]
      PROVE  w.owner = c <=> m = f.node /\ w.id = f.id
  <2>1. ASSUME w.owner = c PROVE m = f.node /\ w.id = f.id
    <3>1. w.id = f.id
      BY <2>1 DEF XdsInv, Owned, OwnedBy
    <3>2. QED BY <1>1, <3>1, PairIsCaller DEF XdsInv, CacheInv, CancelIsOwn
  <2>2. ASSUME w.id = f.id PROVE w.owner = c
    BY <1>1, <2>2, PairIsCaller DEF XdsInv, CacheInv, CancelIsOwn
  <2>3. QED BY <2>1, <2>2
<1>4. ASSUME NEW m \in Nodes
      PROVE  watches'[m] = {w \in watches[m] : w.owner # c}
  <2>1. watches'[m] = IF m = f.node THEN {w \in watches[m] : w.id # f.id}
                                    ELSE watches[m]
    BY <1>1 DEF XdsInv, CacheInv, TypeOK
  <2>2. QED BY <1>3, <2>1
<1>5. QED BY <1>1, <1>2, <1>4

LEMMA CancelOldInv ==
  ASSUME XdsInv, NEW s \in Streams, CancelOld(s)
  PROVE  XdsInv'
<1> DEFINE t == req[s].type
<1>1. /\ pc[s] = "cancel" /\ CancelWatch(<<s, t>>)
      /\ pc' = [pc EXCEPT ![s] = "create"]
      /\ UNCHANGED <<req, streamNonce, nonce, toCancel, readerVars,
                     clientVars, netVars>>
  BY DEF CancelOld
<1>2. t \in Types /\ HandlingOn(s)
  BY <1>1 DEF XdsInv, Handling, HandlingOn
<1>3. /\ CacheInv' /\ Holding'
      /\ UNCHANGED <<snapshots, calls, chan, value, cancel>>
      /\ \A m \in Nodes :
           watches'[m] = {w \in watches[m] : w.owner # <<s, t>>}
  BY <1>1, <1>2, CancelRemoves
<1>4. /\ pc' \in [Streams -> {"idle", "select", "callback", "cancel",
                              "create", "closing", "closed"}]
      /\ pc'[s] = "create" /\ \A r \in Streams \ {s} : pc'[r] = pc[r]
  BY <1>1 DEF XdsInv, XdsTypeOK
<1>5. XdsTypeOK'
  BY <1>1, <1>3, <1>4
  DEF XdsInv, XdsTypeOK, CacheInv, readerVars, clientVars, netVars
<1>6. Handling'
  <2> SUFFICES ASSUME NEW r \in Streams PROVE HandlingOn(r)'
    BY DEF Handling
  <2>1. HandlingOn(r)
    BY DEF XdsInv, Handling
  <2>2. QED BY <1>1, <1>4, <2>1 DEF HandlingOn, FreshNonce, readerVars
<1>7. Owned'
  <2> SUFFICES ASSUME NEW r \in Streams, NEW u \in Types, NEW m \in Nodes,
                      NEW w \in watches'[m], w.owner = <<r, u>>
               PROVE  OwnedBy(r, u, m, w)'
    BY DEF Owned
  <2>1. w \in watches[m] /\ <<r, u>> # <<s, t>>
    BY <1>3
  <2>2. OwnedBy(r, u, m, w)
    BY <2>1 DEF XdsInv, Owned
  <2>3. QED BY <1>1, <1>3, <1>4, <2>1, <2>2 DEF OwnedBy
<1>8. Fed'
  <2> SUFFICES ASSUME NEW r \in Streams, NEW u \in Types, ~Ads,
                      pc'[r] \in {"select", "callback", "cancel", "create"},
                      pc'[r] = "create" => req'[r].type # u,
                      value'[<<r, u>>] # 0
               PROVE  \/ chan'[value'[<<r, u>>]].sent = 1
                      \/ \E w \in watches'[NodeID(r)] : w.owner = <<r, u>>
    BY DEF Fed, FedOn
  <2>1. <<r, u>> # <<s, t>>
    BY <1>1, <1>4
  <2>2. \/ chan[value[<<r, u>>]].sent = 1
        \/ \E w \in watches[NodeID(r)] : w.owner = <<r, u>>
    <3>1. /\ pc[r] \in {"select", "callback", "cancel", "create"}
          /\ pc[r] = "create" => req[r].type # u
          /\ value[<<r, u>>] # 0
      BY <1>1, <1>3, <1>4
    <3>2. FedOn(r, u)
      BY DEF XdsInv, Fed
    <3>3. QED BY <3>1, <3>2 DEF FedOn
  <2>3. QED BY <1>3, <2>1, <2>2, XdsAssumption
<1>9. Ordered'
  BY <1>1, <1>3, OrderedFrame DEF XdsInv, clientVars, netVars
<1>10. QED BY <1>3, <1>5, <1>6, <1>7, <1>8, <1>9 DEF XdsInv

LEMMA CloseCancelInv ==
  ASSUME XdsInv, NEW s \in Streams, NEW t \in Types, CloseCancel(s, t)
  PROVE  XdsInv'
<1>1. /\ pc[s] = "closing" /\ CancelWatch(<<s, t>>)
      /\ toCancel' = [toCancel EXCEPT ![s] = @ \ {t}]
      /\ UNCHANGED <<pc, req, streamNonce, nonce, readerVars, clientVars,
                     netVars>>
  BY DEF CloseCancel
<1>2. /\ CacheInv' /\ Holding'
      /\ UNCHANGED <<snapshots, calls, chan, value, cancel>>
      /\ \A m \in Nodes :
           watches'[m] = {w \in watches[m] : w.owner # <<s, t>>}
  BY <1>1, CancelRemoves
<1>3. /\ toCancel' \in [Streams -> SUBSET Types]
      /\ toCancel'[s] = toCancel[s] \ {t}
      /\ \A r \in Streams \ {s} : toCancel'[r] = toCancel[r]
  BY <1>1 DEF XdsInv, XdsTypeOK
<1>4. XdsTypeOK'
  BY <1>1, <1>2, <1>3
  DEF XdsInv, XdsTypeOK, CacheInv, readerVars, clientVars, netVars
<1>5. Handling'
  BY <1>1 DEF XdsInv, Handling, HandlingOn, FreshNonce, readerVars
<1>6. Owned'
  <2> SUFFICES ASSUME NEW r \in Streams, NEW u \in Types, NEW m \in Nodes,
                      NEW w \in watches'[m], w.owner = <<r, u>>
               PROVE  OwnedBy(r, u, m, w)'
    BY DEF Owned
  <2>1. w \in watches[m] /\ <<r, u>> # <<s, t>>
    BY <1>2
  <2>2. OwnedBy(r, u, m, w)
    BY <2>1 DEF XdsInv, Owned
  <2>3. u \in toCancel[r] => u \in toCancel'[r]
    BY <1>3, <2>1
  <2>4. QED BY <1>1, <1>2, <2>2, <2>3 DEF OwnedBy
<1>7. Fed'
  <2> SUFFICES ASSUME NEW r \in Streams, NEW u \in Types, ~Ads,
                      pc[r] \in {"select", "callback", "cancel", "create"},
                      pc[r] = "create" => req[r].type # u,
                      value[<<r, u>>] # 0
               PROVE  \/ chan[value[<<r, u>>]].sent = 1
                      \/ \E w \in watches'[NodeID(r)] : w.owner = <<r, u>>
    BY <1>1, <1>2 DEF Fed, FedOn
  <2>1. <<r, u>> # <<s, t>>
    BY <1>1
  <2>2. \/ chan[value[<<r, u>>]].sent = 1
        \/ \E w \in watches[NodeID(r)] : w.owner = <<r, u>>
    BY DEF XdsInv, Fed, FedOn
  <2>3. QED BY <1>2, <2>1, <2>2, XdsAssumption
<1>8. Ordered'
  BY <1>1, <1>2, OrderedFrame DEF XdsInv, clientVars, netVars
<1>9. QED BY <1>2, <1>4, <1>5, <1>6, <1>7, <1>8 DEF XdsInv

----------------------------------------------------------------------------
\* What the two outcomes of CreateWatch have in common.
LEMMA CreateMakes ==
  ASSUME XdsInv, NEW s \in Streams, CreateNew(s), NEW t, t = req[s].type
  PROVE  /\ t \in Types /\ RequestOf(s, req[s]) \in Request
         /\ calls \in Nat /\ calls + 1 \in ChanId /\ calls' = calls + 1
         /\ chan[calls + 1] = Unused
         /\ value'[<<s, t>>] = calls + 1
         /\ \A c \in Callers \ {<<s, t>>} :
              /\ value'[c] = value[c] /\ cancel'[c] = cancel[c]
              /\ value[c] # 0 =>
                   /\ value[c] \in ChanId /\ value[c] # calls + 1
                   /\ chan'[value[c]] = chan[value[c]]
         /\ \A n \in Nodes : \A w \in watches[n] : w.owner # <<s, t>>
         /\ UNCHANGED snapshots
         /\ CacheInv' /\ Holding'
<1> DEFINE c == <<s, t>>
           q == RequestOf(s, req[s])
<1>1. /\ pc[s] = "create" /\ CreateWatch(c, q)
      /\ t \in Types /\ req[s] \in WireRequest
  BY DEF CreateNew, XdsInv, Handling, HandlingOn
<1>2. q \in Request
  BY <1>1, XdsAssumption DEF RequestOf, Request, WireRequest
<1> HIDE DEF q
<1>3. CacheInv'
  BY <1>1, <1>2, PairIsCaller, OpenWatchInv, RespondNowInv
  DEF CreateWatch, XdsInv
<1>4. /\ NewChannel(c, q) /\ UNCHANGED snapshots
      /\ \/ UNCHANGED chan
         \/ \E r : chan' = [chan EXCEPT ![calls + 1] = r]
      /\ \E f : cancel' = [cancel EXCEPT ![c] = f]
  <2>1. CASE OpenWatch(c, q)
    BY <2>1 DEF OpenWatch, NewChannel
  <2>2. CASE RespondNow(c, q)
    <3>1. UNCHANGED chan \/ \E r : chan' = [chan EXCEPT ![calls + 1] = r]
      BY <2>2 DEF RespondNow
    <3>2. QED BY <2>2, <3>1 DEF RespondNow, NewChannel
  <2>3. QED BY <1>1, <2>1, <2>2 DEF CreateWatch
<1>5. /\ calls < MaxCalls /\ calls' = calls + 1
      /\ value' = [value EXCEPT ![c] = calls + 1]
  BY <1>4 DEF NewChannel
<1>6. calls \in Nat /\ calls + 1 \in ChanId
  BY <1>5, CacheAssumption DEF XdsInv, CacheInv, TypeOK, ChanId
<1>7. chan[calls + 1] = Unused
  BY <1>6 DEF XdsInv, CacheInv, Numbered
<1>8. value'[c] = calls + 1
  BY <1>1, <1>5, PairIsCaller DEF XdsInv, CacheInv, TypeOK
<1>9. ASSUME NEW d \in Callers \ {c}
      PROVE  value'[d] = value[d] /\ cancel'[d] = cancel[d]
  BY <1>4, <1>5 DEF XdsInv, CacheInv, TypeOK
<1>10. ASSUME NEW d \in Callers, value[d] # 0
       PROVE  /\ value[d] \in ChanId /\ value[d] # calls + 1
              /\ chan'[value[d]] = chan[value[d]]
  <2>1. value[d] \in ChanId /\ value[d] <= calls
    BY <1>10, CacheAssumption DEF XdsInv, CacheInv, TypeOK, ChanId, Holding
  <2>2. value[d] # calls + 1
    BY <1>6, <2>1 DEF ChanId
  <2>3. QED BY <1>4, <2>1, <2>2 DEF XdsInv, CacheInv, TypeOK
<1>11. Holding'
  <2>1. ASSUME NEW d \in Callers PROVE value'[d] <= calls'
    BY <1>5, <1>6, <1>8, <1>9 DEF XdsInv, CacheInv, TypeOK, Holding
  <2>2. ASSUME NEW d \in Callers, NEW e \in Callers,
               value'[d] = value'[e], value'[d] # 0
        PROVE  d = e
    BY <1>8, <1>9, <1>10, <2>2 DEF XdsInv, Holding
  <2>3. QED BY <2>1, <2>2 DEF Holding
<1>12. \A n \in Nodes : \A w \in watches[n] : w.owner # c
  BY <1>1 DEF XdsInv, Owned, OwnedBy
<1>13. QED
  BY <1>1, <1>2, <1>3, <1>4, <1>5, <1>6, <1>7, <1>8, <1>9, <1>10, <1>11, <1>12
  DEF q

\* The two outcomes: an open watch, or a channel that was sent to unless the
\* request was incomplete.
LEMMA CreateFeeds ==
  ASSUME XdsInv, NEW s \in Streams, CreateNew(s), NEW t, t = req[s].type
  PROVE  \/ /\ UNCHANGED chan
            /\ cancel'[<<s, t>>] # Nil
            /\ \E w : /\ watches' = [watches EXCEPT ![NodeID(s)] = @ \cup {w}]
                      /\ w.owner = <<s, t>> /\ w.chan = calls + 1
                      /\ w.id = cancel'[<<s, t>>].id
                      /\ w.request.nonce = req[s].nonce
         \/ /\ UNCHANGED watches
            /\ ~Ads => chan'[calls + 1].sent = 1
            /\ chan'[calls + 1].buf # Nil =>
                 chan'[calls + 1].buf.seq = Published(NodeID(s))
<1> DEFINE c == <<s, t>>
           q == RequestOf(s, req[s])
<1>1. CreateWatch(c, q)
  BY DEF CreateNew
<1>2. /\ t \in Types /\ q \in Request /\ q.node = NodeID(s)
      /\ q.nonce = req[s].nonce
      /\ calls + 1 \in ChanId /\ chan[calls + 1] = Unused
  BY CreateMakes DEF RequestOf
<1> HIDE DEF q
<1>3. CASE OpenWatch(c, q)
  <2> DEFINE w == [id |-> NextWatchID, request |-> q, chan |-> calls + 1,
                   owner |-> c]
  <2>1. /\ UNCHANGED chan
        /\ watches' = [watches EXCEPT ![NodeID(s)] = @ \cup {w}]
        /\ cancel' = [cancel EXCEPT ![c] = [node |-> NodeID(s), id |-> NextWatchID]]
    BY <1>2, <1>3 DEF OpenWatch
  <2>2. cancel'[c] = [node |-> NodeID(s), id |-> NextWatchID]
    BY <1>2, <2>1, PairIsCaller DEF XdsInv, CacheInv, TypeOK
  <2>3. NextWatchID \in ChanId
    BY <1>2, CacheAssumption
    DEF XdsInv, CacheInv, TypeOK, Numbered, NextWatchID, ChanId
  <2>4. cancel'[c] # Nil
    BY <2>2, <2>3, XdsAssumption, CacheAssumption DEF Cancel
  <2>5. /\ w.owner = c /\ w.chan = calls + 1 /\ w.id = cancel'[c].id
        /\ w.request.nonce = req[s].nonce
    BY <1>2, <2>2
  <2>6. QED BY <2>1, <2>4, <2>5
<1>4. CASE RespondNow(c, q)
  <2> DEFINE b == CreateResponse(q, snapshots[NodeID(s)])
  <2>1. /\ UNCHANGED watches /\ snapshots[NodeID(s)] # Nil
        /\ chan' = IF Responds(q, snapshots[NodeID(s)])
                   THEN [chan EXCEPT ![calls + 1] = Send(@, b)]
                   ELSE chan
    BY <1>2, <1>4 DEF RespondNow
  <2>2. CASE Responds(q, snapshots[NodeID(s)])
    <3>1. chan'[calls + 1] = Send(Unused, b)
      BY <1>2, <2>1, <2>2 DEF XdsInv, CacheInv, TypeOK
    <3>2. b.seq = snapshots[NodeID(s)].seq
      BY DEF CreateResponse
    <3>3. chan'[calls + 1].sent = 1 /\ chan'[calls + 1].buf = b
      BY <3>1 DEF Send, Unused
    <3>4. QED BY <2>1, <3>2, <3>3 DEF Published
  <2>3. CASE ~Responds(q, snapshots[NodeID(s)])
    <3>1. Ads /\ chan'[calls + 1].buf = Nil
      BY <1>2, <2>1, <2>3 DEF Responds, Unused
    <3>2. QED BY <2>1, <3>1
  <2>4. QED BY <2>2, <2>3
<1>5. QED BY <1>1, <1>3, <1>4 DEF CreateWatch

LEMMA CreateNewInv ==
  ASSUME XdsInv, NEW s \in Streams, CreateNew(s)
  PROVE  XdsInv'
<1> DEFINE i == calls + 1
<1> PICK t \in Types : t = req[s].type
  BY CreateMakes
<1>1. /\ pc[s] = "create" /\ pc' = [pc EXCEPT ![s] = "select"]
      /\ req' = [req EXCEPT ![s] = Nil]
      /\ UNCHANGED <<streamNonce, nonce, toCancel, readerVars, clientVars,
                     netVars>>
      /\ HandlingOn(s)
  BY DEF CreateNew, XdsInv, Handling
<1>2. /\ i \in ChanId /\ i # 0
      /\ chan[i] = Unused /\ value'[<<s, t>>] = i
      /\ \A c \in Callers \ {<<s, t>>} :
           /\ value'[c] = value[c] /\ cancel'[c] = cancel[c]
           /\ value[c] # 0 => chan'[value[c]] = chan[value[c]]
      /\ \A n \in Nodes : \A w \in watches[n] : w.owner # <<s, t>>
      /\ UNCHANGED snapshots
      /\ CacheInv' /\ Holding'
  BY CreateMakes DEF ChanId
<1>3. \/ /\ UNCHANGED chan
         /\ cancel'[<<s, t>>] # Nil
         /\ \E w : /\ watches' = [watches EXCEPT ![NodeID(s)] = @ \cup {w}]
                   /\ w.owner = <<s, t>> /\ w.chan = i
                   /\ w.id = cancel'[<<s, t>>].id
                   /\ w.request.nonce = req[s].nonce
      \/ /\ UNCHANGED watches
         /\ ~Ads => chan'[i].sent = 1
         /\ chan'[i].buf # Nil => chan'[i].buf.seq = Published(NodeID(s))
  BY CreateFeeds
<1>4. /\ pc' \in [Streams -> {"idle", "select", "callback", "cancel",
                              "create", "closing", "closed"}]
      /\ req' \in [Streams -> {r \in WireRequest : r.type \in Types} \cup {Nil}]
      /\ pc'[s] = "select"
      /\ \A r \in Streams \ {s} : pc'[r] = pc[r] /\ req'[r] = req[r]
  BY <1>1 DEF XdsInv, XdsTypeOK
<1>5. XdsTypeOK'
  BY <1>1, <1>2, <1>4
  DEF XdsInv, XdsTypeOK, CacheInv, readerVars, clientVars, netVars
<1>6. Handling'
  <2> SUFFICES ASSUME NEW r \in Streams PROVE HandlingOn(r)'
    BY DEF Handling
  <2>1. HandlingOn(r)
    BY DEF XdsInv, Handling
  <2>2. CASE r = s
    BY <1>1, <1>4, <2>1, <2>2 DEF HandlingOn, readerVars
  <2>3. CASE r # s
    BY <1>1, <1>4, <2>1, <2>3 DEF HandlingOn, FreshNonce, readerVars
  <2>4. QED BY <2>2, <2>3
<1>7. ASSUME NEW r \in Streams, NEW u \in Types, NEW m \in Nodes,
             NEW w \in watches[m], w.owner = <<r, u>>
      PROVE  OwnedBy(r, u, m, w)'
  <2>1. OwnedBy(r, u, m, w)
    BY <1>7 DEF XdsInv, Owned
  <2>2. <<r, u>> \in Callers \ {<<s, t>>}
    BY <1>2, <1>7, PairIsCaller
  <2>3. QED BY <1>1, <1>2, <1>4, <2>1, <2>2 DEF OwnedBy
<1>8. Owned'
  <2>1. CASE UNCHANGED watches
    BY <1>7, <2>1 DEF Owned
  <2>2. CASE UNCHANGED chan /\ cancel'[<<s, t>>] # Nil /\
             \E w : /\ watches' = [watches EXCEPT ![NodeID(s)] = @ \cup {w}]
                    /\ w.owner = <<s, t>> /\ w.chan = i
                    /\ w.id = cancel'[<<s, t>>].id
                    /\ w.request.nonce = req[s].nonce
    <3>1. PICK v : /\ watches' = [watches EXCEPT ![NodeID(s)] = @ \cup {v}]
                   /\ v.owner = <<s, t>> /\ v.chan = i
                   /\ v.id = cancel'[<<s, t>>].id
                   /\ v.request.nonce = req[s].nonce
      BY <2>2
    <3>2. OwnedBy(s, t, NodeID(s), v)'
      <4>1. nonce'[<<s, t>>] \in {0, v.request.nonce}
        BY <1>1, <3>1 DEF HandlingOn, FreshNonce
      <4>2. QED BY <1>2, <1>4, <2>2, <3>1, <4>1 DEF OwnedBy
    <3>3. ASSUME NEW r \in Streams, NEW u \in Types, NEW m \in Nodes,
                 NEW w \in watches'[m], w.owner = <<r, u>>
          PROVE  OwnedBy(r, u, m, w)'
      <4>1. w \in watches[m] \/ (w = v /\ m = NodeID(s))
        BY <3>1 DEF XdsInv, CacheInv, TypeOK
      <4>2. CASE w \in watches[m]
        BY <1>7, <3>3, <4>2
      <4>3. CASE w = v /\ m = NodeID(s)
        <5>1. <<r, u>> = <<s, t>>
          BY <3>1, <3>3, <4>3
        <5>2. r = s /\ u = t
          BY <5>1
        <5>3. QED BY <3>2, <4>3, <5>2
      <4>4. QED BY <4>1, <4>2, <4>3
    <3>4. QED BY <3>3 DEF Owned
  <2>3. QED BY <1>3, <2>1, <2>2
<1>9. Fed'
  <2> SUFFICES ASSUME NEW r \in Streams, NEW u \in Types, ~Ads
               PROVE  FedOn(r, u)'
    BY DEF Fed
  <2>1. CASE <<r, u>> = <<s, t>>
    <3>1. \/ chan'[i].sent = 1
          \/ \E w \in watches'[NodeID(s)] : w.owner = <<s, t>>
      BY <1>3, XdsAssumption DEF XdsInv, CacheInv, TypeOK
    <3>2. r = s /\ u = t
      BY <2>1
    <3>3. value'[<<r, u>>] = i
      BY <1>2, <3>2
    <3>4. \/ chan'[value'[<<r, u>>]].sent = 1
          \/ \E w \in watches'[NodeID(r)] : w.owner = <<r, u>>
      BY <2>1, <3>1, <3>2, <3>3
    <3>5. QED BY <3>4 DEF FedOn
  <2>2. CASE <<r, u>> # <<s, t>>
    <3>1. FedOn(r, u)
      BY DEF XdsInv, Fed
    <3>2. <<r, u>> \in Callers \ {<<s, t>>}
      BY <2>2, PairIsCaller
    <3>3. \A m \in Nodes : watches[m] \subseteq watches'[m]
      BY <1>3 DEF XdsInv, CacheInv, TypeOK
    <3>4. r = s => u # t
      BY <2>2
    <3>5. QED
      BY <1>1, <1>2, <1>4, <3>1, <3>2, <3>3, <3>4, XdsAssumption DEF FedOn
  <2>3. QED BY <2>1, <2>2
<1>10. Ordered'
  <2> SUFFICES ASSUME NEW r \in Streams, NEW u \in Types
               PROVE  OrderedOn(r, u)'
    BY DEF Ordered
  <2>1. OrderedOn(r, u)
    BY DEF XdsInv, Ordered
  <2>2. /\ InFlight(r, u)' = InFlight(r, u)
        /\ Published(NodeID(r))' = Published(NodeID(r))
        /\ UNCHANGED <<client, toClient>>
    BY <1>1, <1>2 DEF InFlight, Published, clientVars, netVars
  <2>3. CASE <<r, u>> = <<s, t>>
    <3>1. r = s /\ u = t /\ NodeID(s) \in Nodes
      BY <2>3, XdsAssumption
    <3>2. Published(NodeID(s)) \in Nat
      BY <3>1, PublishedType DEF XdsInv, CacheInv
    <3>3. chan'[i].buf # Nil => chan'[i].buf.seq = Published(NodeID(s))
      BY <1>2, <1>3 DEF Unused
    <3>4. QED BY <1>2, <2>1, <2>2, <3>1, <3>2, <3>3 DEF OrderedOn
  <2>4. CASE <<r, u>> # <<s, t>>
    <3>1. <<r, u>> \in Callers \ {<<s, t>>}
      BY <2>4, PairIsCaller
    <3>2. value'[<<r, u>>] = value[<<r, u>>]
      BY <1>2, <3>1
    <3>3. value[<<r, u>>] # 0 => chan'[value[<<r, u>>]] = chan[value[<<r, u>>]]
      BY <1>2, <3>1
    <3>4. QED BY <2>1, <2>2, <3>2, <3>3 DEF OrderedOn
  <2>5. QED BY <2>3, <2>4
<1>11. QED BY <1>2, <1>5, <1>6, <1>8, <1>9, <1>10 DEF XdsInv

----------------------------------------------------------------------------
\* A new snapshot is numbered higher than all that was published.
LEMMA LoadPublishes ==
  ASSUME CacheInv, NEW n \in Nodes, NEW version \in Versions,
         NEW names \in [Types -> SUBSET Names], SetSnapshot(n, version, names)
  PROVE  /\ setCount \in Nat
         /\ \A m \in Nodes :
              Published(m)' = IF m = n THEN setCount + 1 ELSE Published(m)
         /\ \A m \in Nodes : Published(m) \in Nat /\ Published(m) <= setCount
<1> DEFINE snapshot == NewSnapshot(version, names, setCount + 1)
<1>1. snapshot \in Snapshot /\ snapshot.seq = setCount + 1
  BY CacheAssumption DEF SetSnapshot, NewSnapshot, Snapshot, CacheInv, TypeOK
<1>2. snapshot # Nil
  BY <1>1, CacheAssumption
<1>3. snapshots' = [snapshots EXCEPT ![n] = snapshot]
  BY DEF SetSnapshot
<1> HIDE DEF snapshot
<1>4. \A m \in Nodes :
         Published(m)' = IF m = n THEN setCount + 1 ELSE Published(m)
  BY <1>1, <1>2, <1>3 DEF Published, CacheInv, TypeOK
<1>5. setCount \in Nat
  BY CacheAssumption DEF CacheInv, TypeOK
<1>6. QED BY <1>4, <1>5, PublishedType DEF CacheInv

\* A channel that a new snapshot is put into was waited on, for its node.
LEMMA LoadSends ==
  ASSUME CacheInv, NEW n \in Nodes, NEW version \in Versions,
         NEW names \in [Types -> SUBSET Names], SetSnapshot(n, version, names),
         NEW i \in ChanId, chan'[i] # chan[i]
  PROVE  /\ \E w \in watches[n] : w.chan = i
         /\ chan[i] = Unused
         /\ chan'[i].sent = 1 /\ chan'[i].buf.seq = setCount + 1
<1> DEFINE snapshot == NewSnapshot(version, names, setCount + 1)
<1>1. PICK w \in AnsweredOn(i, n, snapshot) :
         chan'[i] = Send(chan[i], CreateResponse(w.request, snapshot))
  BY SetSnapshotChannels DEF CacheInv
<1>2. w \in watches[n] /\ w.chan = i /\ chan[i] = Unused
  BY <1>1 DEF AnsweredOn, Outdated, CacheInv, Filed
<1>3. CreateResponse(w.request, snapshot).seq = setCount + 1
  BY DEF CreateResponse, NewSnapshot
<1>4. QED BY <1>1, <1>2, <1>3 DEF Send, Unused

\* Without the ADS mode every watch that a new snapshot closes is answered.
LEMMA LoadAnswers ==
  ASSUME CacheInv, NEW n \in Nodes, NEW version \in Versions,
         NEW names \in [Types -> SUBSET Names], SetSnapshot(n, version, names),
         NEW m \in Nodes
  PROVE  /\ watches'[m] \subseteq watches[m]
         /\ ~Ads => \A w \in watches[m] :
                      w \in watches'[m] \/ chan'[w.chan].sent = 1
<1> DEFINE snapshot == NewSnapshot(version, names, setCount + 1)
<1>1. watches' = [watches EXCEPT ![n] = @ \ Outdated(n, snapshot)]
  BY DEF SetSnapshot, Remaining, CacheInv, TypeOK
<1>2. ASSUME ~Ads, NEW w \in watches[m], w \notin watches'[m]
      PROVE  chan'[w.chan].sent = 1
  <2>1. m = n /\ w \in Outdated(n, snapshot)
    BY <1>1, <1>2 DEF CacheInv, TypeOK
  <2>2. w.chan \in ChanId
    BY WatchType DEF CacheInv
  <2>3. w \in AnsweredOn(w.chan, n, snapshot)
    BY <1>2, <2>1 DEF AnsweredOn, Responds
  <2>4. PICK v \in AnsweredOn(w.chan, n, snapshot) :
           chan'[w.chan] = Send(chan[w.chan], CreateResponse(v.request, snapshot))
    BY <2>2, <2>3, SetSnapshotChannels DEF CacheInv
  <2>5. chan[w.chan].sent = 0
    BY DEF CacheInv, Filed, Unused
  <2>6. QED BY <2>4, <2>5 DEF Send
<1>3. watches'[m] \subseteq watches[m]
  BY <1>1 DEF CacheInv, TypeOK
<1>4. QED BY <1>2, <1>3

\* A snapshot is set, by whoever loads it.
LEMMA LoadInv ==
  ASSUME XdsInv, NEW n \in Nodes, NEW version \in Versions,
         NEW names \in [Types -> SUBSET Names], SetSnapshot(n, version, names),
         UNCHANGED xdsVars
  PROVE  XdsInv'
<1>1. /\ UNCHANGED <<pc, req, streamNonce, nonce, toCancel, reader, held, up,
                     client, asks, opens, toServer, toClient>>
      /\ UNCHANGED <<calls, value, cancel>>
  BY DEF SetSnapshot, xdsVars, processVars, readerVars, clientVars, netVars
<1>2. CacheInv /\ CacheInv'
  BY SetSnapshotInv DEF XdsInv
<1>3. XdsTypeOK'
  BY <1>1, <1>2 DEF XdsInv, XdsTypeOK, CacheInv
<1>4. Holding' /\ Handling'
  BY <1>1 DEF XdsInv, Holding, Handling, HandlingOn, FreshNonce
<1>5. Owned'
  <2> SUFFICES ASSUME NEW r \in Streams, NEW u \in Types, NEW m \in Nodes,
                      NEW w \in watches'[m], w.owner = <<r, u>>
               PROVE  OwnedBy(r, u, m, w)'
    BY DEF Owned
  <2>1. w \in watches[m]
    BY <1>2, LoadAnswers
  <2>2. OwnedBy(r, u, m, w)
    BY <2>1 DEF XdsInv, Owned
  <2>3. QED BY <1>1, <2>2 DEF OwnedBy
<1>6. ASSUME NEW r \in Streams, NEW u \in Types, value[<<r, u>>] # 0
      PROVE  value[<<r, u>>] \in ChanId
  BY <1>2, <1>6, PairIsCaller, CacheAssumption DEF CacheInv, TypeOK, ChanId
<1>7. Fed'
  <2> SUFFICES ASSUME NEW r \in Streams, NEW u \in Types, ~Ads,
                      value[<<r, u>>] # 0,
                      \/ chan[value[<<r, u>>]].sent = 1
                      \/ \E w \in watches[NodeID(r)] : w.owner = <<r, u>>
               PROVE  \/ chan'[value[<<r, u>>]].sent = 1
                      \/ \E w \in watches'[NodeID(r)] : w.owner = <<r, u>>
    BY <1>1 DEF XdsInv, Fed, FedOn
  <2>1. CASE chan[value[<<r, u>>]].sent = 1
    BY <1>2, <1>6, <2>1, LoadSends
  <2>2. CASE \E w \in watches[NodeID(r)] : w.owner = <<r, u>>
    <3>1. PICK w \in watches[NodeID(r)] : w.owner = <<r, u>>
      BY <2>2
    <3>2. NodeID(r) \in Nodes
      BY XdsAssumption
    <3>3. w.chan = value[<<r, u>>]
      BY <3>1, <3>2 DEF XdsInv, Owned, OwnedBy
    <3>4. w \in watches'[NodeID(r)] \/ chan'[w.chan].sent = 1
      BY <1>2, <3>1, <3>2, LoadAnswers
    <3>5. QED BY <3>1, <3>3, <3>4
  <2>3. QED BY <2>1, <2>2
<1>8. Ordered'
  <2> SUFFICES ASSUME NEW r \in Streams, NEW u \in Types
               PROVE  OrderedOn(r, u)'
    BY DEF Ordered
  <2> DEFINE i == value[<<r, u>>]
  <2>1. OrderedOn(r, u)
    BY DEF XdsInv, Ordered
  <2>2. InFlight(r, u)' = InFlight(r, u)
    BY <1>1 DEF InFlight
  <2>3. /\ NodeID(r) \in Nodes /\ setCount \in Nat
        /\ Published(NodeID(r)) \in Nat /\ Published(NodeID(r)) <= setCount
        /\ Published(NodeID(r))' = IF NodeID(r) = n THEN setCount + 1
                                   ELSE Published(NodeID(r))
    <3>1. NodeID(r) \in Nodes
      BY XdsAssumption
    <3>2. QED BY <1>2, <3>1, LoadPublishes
  <2>4. Published(NodeID(r)) <= Published(NodeID(r))'
    BY <2>3
  <2>5. /\ client[<<r, u>>].seq \in Nat
        /\ \A j \in InFlight(r, u) : toClient[r][j].seq \in Nat
    <3>1. client[<<r, u>>] \in ClientState /\ toClient[r] \in Seq(WireResponse)
      BY PairIsCaller DEF XdsInv, XdsTypeOK
    <3>2. ASSUME NEW j \in InFlight(r, u) PROVE toClient[r][j] \in WireResponse
      BY <3>1 DEF InFlight
    <3>3. QED BY <3>1, <3>2 DEF ClientState, WireResponse
  <2>6. /\ client[<<r, u>>].seq <= Published(NodeID(r))'
        /\ \A j \in InFlight(r, u) : toClient[r][j].seq <= Published(NodeID(r))'
    BY <2>1, <2>3, <2>4, <2>5 DEF OrderedOn
  <2>7. ASSUME i # 0, chan'[i].buf # Nil
        PROVE  /\ client[<<r, u>>].seq <= chan'[i].buf.seq
               /\ chan'[i].buf.seq <= Published(NodeID(r))'
               /\ \A j \in InFlight(r, u) : toClient[r][j].seq <= chan'[i].buf.seq
    <3>1. i \in ChanId
      BY <1>6, <2>7
    <3>2. CASE chan'[i] = chan[i]
      <4>1. chan[i].buf \in Response
        BY <1>2, <2>7, <3>1, <3>2 DEF CacheInv, TypeOK, Channel
      <4>2. chan[i].buf.seq \in Nat
        BY <4>1, CacheAssumption DEF Response
      <4>3. /\ client[<<r, u>>].seq <= chan[i].buf.seq
            /\ chan[i].buf.seq <= Published(NodeID(r))
            /\ \A j \in InFlight(r, u) : toClient[r][j].seq <= chan[i].buf.seq
        BY <2>1, <2>7, <3>2 DEF OrderedOn
      <4>4. chan[i].buf.seq <= Published(NodeID(r))'
        BY <2>3, <2>4, <4>2, <4>3
      <4>5. QED BY <3>2, <4>3, <4>4
    <3>3. CASE chan'[i] # chan[i]
      <4>1. /\ \E w \in watches[n] : w.chan = i
            /\ chan'[i].buf.seq = setCount + 1
        BY <1>2, <3>1, <3>3, LoadSends
      <4>2. PICK w \in watches[n] : w.chan = i
        BY <4>1
      <4>3. PICK q \in Streams, v \in Types :
               w.owner = <<q, v>> /\ OwnedBy(q, v, n, w)
        BY <1>2, WatchOwner DEF XdsInv, CacheInv
      <4>4. n = NodeID(q) /\ value[<<q, v>>] = i
        BY <4>2, <4>3 DEF OwnedBy
      <4>5. <<q, v>> = <<r, u>>
        BY <2>7, <4>4, PairIsCaller DEF XdsInv, Holding
      <4>6. n = NodeID(r)
        BY <4>4, <4>5
      <4>7. /\ client[<<r, u>>].seq <= setCount
            /\ \A j \in InFlight(r, u) : toClient[r][j].seq <= setCount
        BY <2>1, <2>3, <2>5 DEF OrderedOn
      <4>8. QED BY <2>3, <2>5, <4>1, <4>6, <4>7
    <3>4. QED BY <3>2, <3>3
  <2> HIDE DEF i
  <2>8. QED BY <1>1, <2>1, <2>2, <2>6, <2>7 DEF OrderedOn, i
<1>9. QED BY <1>2, <1>3, <1>4, <1>5, <1>7, <1>8 DEF XdsInv

----------------------------------------------------------------------------
\* A step that only begins or ends a read of the cache, or the process.
LEMMA IdleInv ==
  ASSUME XdsInv, reading' \subseteq Readers, down' \in BOOLEAN,
         UNCHANGED <<snapshots, tracked, watches, watchCount, setCount, calls,
                     chan, value, cancel, xdsVars>>
  PROVE  XdsInv'
<1>1. /\ UNCHANGED <<processVars, readerVars, clientVars, netVars>>
      /\ UNCHANGED <<pc, req, streamNonce, nonce, toCancel, reader, held, up,
                     client, asks, opens, toServer, toClient>>
  BY DEF xdsVars, processVars, readerVars, clientVars, netVars
<1>2. TypeOK'
  BY DEF XdsInv, CacheInv, TypeOK
<1>3. CacheInv'
  BY <1>2 DEF XdsInv, CacheInv, Numbered, Filed, Distinct, Unused,
     NoOutdatedWatch, CancelIsOwn, UpToDate, GetVersion
<1>4. XdsTypeOK'
  BY <1>1, <1>2 DEF XdsInv, XdsTypeOK
<1>5. Holding' /\ Handling'
  BY <1>1 DEF XdsInv, Holding, Handling, HandlingOn, FreshNonce
<1>6. Owned'
  BY <1>1 DEF XdsInv, Owned, OwnedBy
<1>7. Fed'
  BY <1>1 DEF XdsInv, Fed, FedOn
<1>8. Ordered'
  BY <1>1, OrderedFrame DEF XdsInv
<1>9. QED BY <1>3, <1>4, <1>5, <1>6, <1>7, <1>8 DEF XdsInv

\* What the goroutines of a stream, and its Envoy, do.
LEMMA StreamInv ==
  ASSUME XdsInv, NEW s \in Streams,
         Open(s) \/ Process(s) \/ Reader(s) \/ Envoy(s)
  PROVE  XdsInv'
<1>1. CASE Process(s)
  BY <1>1, SelectResponseInv, CloseCancelInv, SelectRequestInv,
     SelectClosedInv, CancelOldInv, CreateNewInv, CloseInv, CallbackReturnsInv
  DEF Process, ProcessOwn
<1>2. QED BY <1>1, OpenInv, ReaderInv, EnvoyInv

LEMMA XdsNextInv == XdsInv /\ [XdsNext]_vars => XdsInv'
<1> SUFFICES ASSUME XdsInv, [XdsNext]_vars PROVE XdsInv'
  OBVIOUS
<1>1. CASE Load
  <2>1. PICK n \in Nodes, v \in Loadable, names \in Contents :
           SetSnapshot(n, v, names) /\ UNCHANGED xdsVars
    BY <1>1 DEF Load
  <2>2. v \in Versions /\ names \in [Types -> SUBSET Names]
    BY XdsAssumption, CacheAssumption
  <2>3. QED BY <2>1, <2>2, LoadInv
<1>2. ASSUME NEW s \in Streams,
             Open(s) \/ Process(s) \/ Reader(s) \/ Envoy(s)
      PROVE  XdsInv'
  BY <1>2, StreamInv
<1>3. CASE UNCHANGED vars
  <2>1. reading' \subseteq Readers /\ down' \in BOOLEAN
    BY <1>3 DEF vars, cacheVars, XdsInv, CacheInv, TypeOK
  <2>2. QED BY <1>3, <2>1, IdleInv DEF vars, cacheVars
<1>4. QED BY <1>1, <1>2, <1>3 DEF XdsNext

(***************************************************************************)
(* The inductive invariant of the server: between any two steps of any two *)
(* goroutines, every open watch belongs to a stream that holds its channel *)
(* and its cancel function and will cancel it, every wait is registered or *)
(* answered, and what is on its way is in the order of publication.        *)
(***************************************************************************)
THEOREM XdsInvariant == XdsSpec => []XdsInv
<1>1. QED BY InitXdsInv, XdsNextInv, PTL DEF XdsSpec

----------------------------------------------------------------------------
(***************************************************************************)
(* The streams, their requests and responses are always of their types.    *)
(***************************************************************************)
THEOREM XdsTypeCorrect == XdsSpec => []XdsTypeOK
<1>1. XdsInv => XdsTypeOK
  BY DEF XdsInv
<1>2. QED BY <1>1, XdsInvariant, PTL

\* What the inductive invariant says of the open watches.
LEMMA XdsWatches == XdsInv => NoDanglingWatch /\ WatchAnswersLatest
<1>1. ASSUME XdsInv, NEW n \in Nodes, NEW w \in watches[n]
      PROVE  /\ w.chan = value[w.owner] /\ pc[w.owner[1]] # "closed"
             /\ nonce[w.owner] \in {0, w.request.nonce}
  <2>1. PICK s \in Streams, t \in Types :
           w.owner = <<s, t>> /\ OwnedBy(s, t, n, w)
    BY <1>1, WatchOwner DEF XdsInv, CacheInv
  <2>2. w.owner[1] = s
    BY <2>1
  <2>3. QED BY <2>1, <2>2 DEF OwnedBy
<1>2. QED BY <1>1 DEF NoDanglingWatch, WatchAnswersLatest, OpenWatches

\* And of the streams that wait for one.
LEMMA XdsWaiters ==
  ASSUME ~Ads, XdsInv
  PROVE  WaiterNotForgotten
<1> SUFFICES ASSUME NEW s \in Streams, NEW t \in Types,
                    pc[s] \in {"select", "callback", "cancel"},
                    value[<<s, t>>] # 0
             PROVE  \/ chan[value[<<s, t>>]].sent = 1
                    \/ \E w \in watches[NodeID(s)] : w.chan = value[<<s, t>>]
  BY DEF WaiterNotForgotten
<1>1. FedOn(s, t)
  BY DEF XdsInv, Fed
<1>2. NodeID(s) \in Nodes
  BY XdsAssumption
<1>3. \A w \in watches[NodeID(s)] :
         w.owner = <<s, t>> => w.chan = value[<<s, t>>]
  BY <1>2 DEF XdsInv, Owned, OwnedBy
<1>4. QED BY <1>1, <1>3 DEF FedOn

(***************************************************************************)
(* No watch is leaked: an open watch feeds the channel its stream selects  *)
(* on, and a stream whose process() has returned has none.                 *)
(***************************************************************************)
THEOREM NoDanglingWatchHolds == XdsSpec => []NoDanglingWatch
  BY XdsWatches, XdsInvariant, PTL

(***************************************************************************)
(* A stale request opens no watch: an open watch answers the last response *)
(* of its type on its stream.                                              *)
(***************************************************************************)
THEOREM WatchAnswersLatestHolds == XdsSpec => []WatchAnswersLatest
  BY XdsWatches, XdsInvariant, PTL

(***************************************************************************)
(* Without the ADS mode process() never waits for ever: the channel it     *)
(* waits on was answered, or the cache still holds the watch.              *)
(***************************************************************************)
THEOREM WaiterNotForgottenHolds ==
  ASSUME ~Ads
  PROVE  XdsSpec => []WaiterNotForgotten
<1>1. XdsInv => WaiterNotForgotten
  BY XdsWaiters
<1>2. QED BY <1>1, XdsInvariant, PTL

----------------------------------------------------------------------------
(***************************************************************************)
(* The server implements ConfigPush: a load publishes, an acknowledgement  *)
(* delivers, and every other step is a stutter.                            *)
(***************************************************************************)

\* The first state publishes nothing and delivers nothing.
LEMMA PushInitMaps == XdsInit => Push!PushInit
<1> SUFFICES ASSUME XdsInit PROVE Push!PushInit
  OBVIOUS
<1>1. \A n \in Nodes : snapshots[n] = Nil
  BY DEF XdsInit, Init
<1>2. \A c \in Callers : client[c].seq = 0
  BY DEF XdsInit
<1>3. QED BY <1>1, <1>2 DEF Push!PushInit

\* A load publishes a configuration of its node.
LEMMA LoadMaps ==
  ASSUME XdsInv, NEW n \in Nodes, NEW version \in Versions,
         NEW names \in [Types -> SUBSET Names], SetSnapshot(n, version, names),
         UNCHANGED xdsVars
  PROVE  Push!Publish(n)
<1> DEFINE p == [m \in Nodes |-> IF snapshots[m] = Nil THEN 0
                                 ELSE snapshots[m].seq]
           k == setCount + 1
<1>1. /\ setCount \in Nat
      /\ \A m \in Nodes : Published(m)' = IF m = n THEN k ELSE Published(m)
      /\ \A m \in Nodes : Published(m) \in Nat /\ Published(m) <= setCount
  BY LoadPublishes DEF XdsInv
<1>2. \A m \in Nodes : p[m] = Published(m) /\ p'[m] = Published(m)'
  BY DEF Published
<1>3. p'[n] > p[n]
  BY <1>1, <1>2
<1>4. p' = [p EXCEPT ![n] = p'[n]]
  <2>1. \A m \in Nodes \ {n} : p'[m] = p[m]
    BY <1>1, <1>2
  <2>2. QED BY <2>1
<1>5. UNCHANGED client
  BY DEF xdsVars, clientVars
<1>6. QED BY <1>3, <1>4, <1>5 DEF Push!Publish

\* What an Envoy accepts is published for its node, and not older than what
\* it has.
LEMMA AckMaps ==
  ASSUME XdsInv, NEW s \in Streams, NEW t \in Types, Ack(s, t)
  PROVE  Push!Deliver(<<s, t>>)
<1> DEFINE r == Head(toClient[s])
           c == <<s, t>>
           sees == [d \in Callers |-> client[d].seq]
           nodes == [d \in Callers |-> NodeID(d[1])]
           p == [m \in Nodes |-> IF snapshots[m] = Nil THEN 0
                                 ELSE snapshots[m].seq]
<1>1. /\ toClient[s] # <<>> /\ r.type = t
      /\ toClient' = [toClient EXCEPT ![s] = Tail(@)]
      /\ client' = [client EXCEPT ![c] =
           [client[c] EXCEPT !.version = r.version, !.nonce = r.nonce,
                             !.seq = IF r.seq = 0 THEN @ ELSE r.seq,
                             !.has = IF r.seq = 0 THEN @ ELSE r.names]]
      /\ UNCHANGED snapshots
  BY DEF Ack, cacheVars
<1>2. c \in Callers /\ client[c] \in ClientState /\ NodeID(s) \in Nodes
  BY PairIsCaller, XdsAssumption DEF XdsInv, XdsTypeOK
<1>3. /\ r = toClient[s][1] /\ 1 \in 1 .. Len(toClient[s])
      /\ r \in WireResponse
  BY <1>1, FirstResponse DEF XdsInv
<1>4. /\ client'[c].seq = IF r.seq = 0 THEN client[c].seq ELSE r.seq
      /\ \A d \in Callers \ {c} : client'[d] = client[d]
  BY <1>1, <1>2 DEF XdsInv, XdsTypeOK, ClientState
<1>5. /\ Published(NodeID(s)) \in Nat /\ client[c].seq \in Nat /\ r.seq \in Nat
  BY <1>2, <1>3, PublishedType DEF XdsInv, CacheInv, ClientState, WireResponse
<1>6. OrderedOn(s, t)
  BY DEF XdsInv, Ordered
<1>7. r.seq # 0 => 1 \in InFlight(s, t)
  BY <1>1, <1>3 DEF InFlight
<1>8. client'[c].seq \in client[c].seq .. Published(NodeID(s))
  BY <1>3, <1>4, <1>5, <1>6, <1>7 DEF OrderedOn
<1>9. sees'[c] \in sees[c] .. p[nodes[c]]
  BY <1>2, <1>8 DEF Published
<1>10. sees' = [sees EXCEPT ![c] = sees'[c]]
  BY <1>4
<1>11. p' = p
  BY <1>1
<1>12. QED BY <1>9, <1>10, <1>11 DEF Push!Deliver

\* A step that neither loads nor acknowledges.
LEMMA OthersMap ==
  ASSUME UNCHANGED snapshots,
         \A c \in Callers : client'[c].seq = client[c].seq
  PROVE  UNCHANGED Push!pushVars
  BY DEF Push!pushVars

\* A stream only reads the snapshots, and does not end the process.
LEMMA StreamReads ==
  ASSUME NEW s \in Streams,
         Open(s) \/ Process(s) \/ Reader(s) \/ Envoy(s)
  PROVE  UNCHANGED <<snapshots, reading, down>>
<1>1. CASE Open(s)
  BY <1>1 DEF Open
<1>2. CASE Process(s)
  BY <1>2 DEF Process, ProcessOwn, SelectResponse, SelectRequest,
     SelectClosed, CallbackReturns, CancelOld, CreateNew, CloseCancel, Close,
     cacheVars, Receive, CancelWatch, CreateWatch, OpenWatch, RespondNow,
     NewChannel
<1>3. CASE Reader(s)
  BY <1>3 DEF Reader, ReaderRecv, ReaderError, ReaderReturns, cacheVars
<1>4. CASE Envoy(s)
  BY <1>4 DEF Envoy, Subscribe, Ack, Nack, Ignore, Disconnect, cacheVars
<1>5. QED BY <1>1, <1>2, <1>3, <1>4

\* Every step of a stream that is no acknowledgement is a stutter.
LEMMA StreamMaps ==
  ASSUME XdsInv, NEW s \in Streams,
         Open(s) \/ Process(s) \/ Reader(s) \/ Envoy(s)
  PROVE  \/ \E c \in Callers : Push!Deliver(c)
         \/ UNCHANGED Push!pushVars
<1>1. CASE Open(s)
  <2>1. \A c \in Callers : client'[c].seq = client[c].seq
    <3>1. client \in [Callers -> ClientState]
      BY DEF XdsInv, XdsTypeOK
    <3>2. client' = [c \in Callers |->
             IF c[1] = s THEN [client[c] EXCEPT !.subscribed = FALSE, !.nonce = 0]
                         ELSE client[c]]
      BY <1>1 DEF Open
    <3>3. QED BY <3>1, <3>2 DEF ClientState
  <2>2. QED BY <2>1, StreamReads, OthersMap
<1>2. CASE Process(s)
  <2>1. UNCHANGED clientVars
    BY <1>2 DEF Process, ProcessOwn, SelectResponse, SelectRequest,
       SelectClosed, CallbackReturns, CancelOld, CreateNew, CloseCancel, Close
  <2>2. QED BY <2>1, StreamReads, OthersMap DEF clientVars
<1>3. CASE Reader(s)
  <2>1. UNCHANGED clientVars
    BY <1>3 DEF Reader, ReaderRecv, ReaderError, ReaderReturns
  <2>2. QED BY <2>1, StreamReads, OthersMap DEF clientVars
<1>4. CASE Envoy(s)
  <2>1. UNCHANGED snapshots
    BY StreamReads
  <2>2. client \in [Callers -> ClientState]
    BY DEF XdsInv, XdsTypeOK
  <2>3. ASSUME NEW t \in Types, NEW url, NEW names,
               Subscribe(s, t, url, names)
        PROVE  \A c \in Callers : client'[c].seq = client[c].seq
    BY <2>2, <2>3, PairIsCaller DEF Subscribe, ClientState
  <2>4. ASSUME NEW t \in Types, Ack(s, t)
        PROVE  \E c \in Callers : Push!Deliver(c)
    BY <2>4, AckMaps, PairIsCaller
  <2>5. ASSUME NEW t \in Types, Nack(s, t)
        PROVE  \A c \in Callers : client'[c].seq = client[c].seq
    BY <2>2, <2>5, PairIsCaller DEF Nack, ClientState
  <2>6. ASSUME Ignore(s) \/ Disconnect(s)
        PROVE  \A c \in Callers : client'[c].seq = client[c].seq
    BY <2>6 DEF Ignore, Disconnect, clientVars
  <2>7. QED
    BY <1>4, <2>1, <2>3, <2>4, <2>5, <2>6, TypesOfType, OthersMap DEF Envoy
<1>5. QED BY <1>1, <1>2, <1>3, <1>4

LEMMA XdsNextMaps == XdsInv /\ [XdsNext]_vars => [Push!PushNext]_Push!pushVars
<1> SUFFICES ASSUME XdsInv, [XdsNext]_vars
             PROVE  \/ \E n \in Nodes : Push!Publish(n)
                    \/ \E c \in Callers : Push!Deliver(c)
                    \/ UNCHANGED Push!pushVars
  BY DEF Push!PushNext
<1>1. CASE Load
  <2>1. PICK n \in Nodes, v \in Loadable, names \in Contents :
           SetSnapshot(n, v, names) /\ UNCHANGED xdsVars
    BY <1>1 DEF Load
  <2>2. v \in Versions /\ names \in [Types -> SUBSET Names]
    BY XdsAssumption, CacheAssumption
  <2>3. QED BY <2>1, <2>2, LoadMaps
<1>2. ASSUME NEW s \in Streams,
             Open(s) \/ Process(s) \/ Reader(s) \/ Envoy(s)
      PROVE  \/ \E c \in Callers : Push!Deliver(c)
             \/ UNCHANGED Push!pushVars
  BY <1>2, StreamMaps
<1>3. CASE UNCHANGED vars
  BY <1>3, OthersMap DEF vars, cacheVars, xdsVars, clientVars
<1>4. QED BY <1>1, <1>2, <1>3 DEF XdsNext

(***************************************************************************)
(* Whatever the interleaving of loads, cancels, answers and reconnections, *)
(* the configuration of an Envoy was published for its node and is never   *)
(* replaced by an older one.                                               *)
(***************************************************************************)
THEOREM XdsImplementsPush == XdsSpec => InOrder
<1>1. XdsSpec => Push!PushInit /\ [][Push!PushNext]_Push!pushVars
  BY PushInitMaps, XdsNextMaps, XdsInvariant, PTL DEF XdsSpec
<1>2. QED BY <1>1 DEF InOrder, Push!PushSpec

----------------------------------------------------------------------------
(***************************************************************************)
(* What the cache promises any caller it keeps under this server, whose    *)
(* streams give up their channels when they are opened again.              *)
(***************************************************************************)

\* A step of the server is one of the cache, or none of its channels',
\* watches' and snapshots'.
LEMMA XdsNextIsCacheStep ==
  XdsInv /\ [XdsNext]_vars =>
     [Next]_cacheVars \/ UNCHANGED <<snapshots, watches, chan>>
<1> SUFFICES ASSUME XdsInv, [XdsNext]_vars
             PROVE  [Next]_cacheVars \/ UNCHANGED <<snapshots, watches, chan>>
  OBVIOUS
<1>1. CASE Load
  BY <1>1, XdsAssumption DEF Load, Next
<1>2. ASSUME NEW s \in Streams, Open(s)
      PROVE  UNCHANGED <<snapshots, watches, chan>>
  BY <1>2 DEF Open
<1>3. ASSUME NEW s \in Streams, NEW t \in Types,
             SelectResponse(s, t) \/ CloseCancel(s, t)
      PROVE  Next
  BY <1>3, PairIsCaller DEF SelectResponse, CloseCancel, Next
<1>4. ASSUME NEW s \in Streams, CancelOld(s)
      PROVE  Next
  <2>1. req[s].type \in Types
    BY <1>4 DEF CancelOld, XdsInv, Handling, HandlingOn
  <2>2. QED BY <1>4, <2>1, PairIsCaller DEF CancelOld, Next
<1>5. ASSUME NEW s \in Streams, CreateNew(s)
      PROVE  Next
  <2>1. req[s].type \in Types /\ RequestOf(s, req[s]) \in Request
    BY <1>5, CreateMakes
  <2>2. QED BY <1>5, <2>1, PairIsCaller DEF CreateNew, Next
<1>6. ASSUME NEW s \in Streams,
             \/ SelectRequest(s) \/ SelectClosed(s) \/ Close(s)
             \/ CallbackReturns(s) \/ Reader(s) \/ Envoy(s)
      PROVE  UNCHANGED cacheVars
  BY <1>6 DEF SelectRequest, SelectClosed, Close, CallbackReturns, Reader,
     ReaderRecv, ReaderError, ReaderReturns, Envoy, Subscribe, Ack, Nack,
     Ignore, Disconnect
<1>7. CASE UNCHANGED vars
  BY <1>7 DEF vars
<1>8. QED
  BY <1>1, <1>2, <1>3, <1>4, <1>5, <1>6, <1>7
  DEF XdsNext, Process, ProcessOwn

(***************************************************************************)
(* Under the server no watch is outdated, no send blocks with cache.mu     *)
(* held, and no cancel function reaches another caller's watch.            *)
(***************************************************************************)
THEOREM CacheUnderXds ==
  XdsSpec => [](NoOutdatedWatch /\ RespondNeverBlocks /\ CancelIsOwn)
<1>1. XdsInv => NoOutdatedWatch /\ RespondNeverBlocks /\ CancelIsOwn
  BY DEF XdsInv, CacheInv, RespondNeverBlocks, OpenWatches, Filed, Distinct,
     Unused
<1>2. QED BY <1>1, XdsInvariant, PTL

(***************************************************************************)
(* Under the server no watch leaves the table without a cause.             *)
(***************************************************************************)
THEOREM ClosedForCauseUnderXds == XdsSpec => WatchClosedForCause
<1> DEFINE Closes == \A n \in Nodes : \A w \in watches[n] \ watches'[n] :
                        ClosedForCause(n, w)
<1>1. XdsInv /\ [XdsNext]_vars => [Closes]_cacheVars
  BY XdsNextIsCacheStep, NextCloses DEF XdsInv
<1>2. XdsSpec => [][Closes]_cacheVars
  BY <1>1, XdsInvariant, PTL DEF XdsSpec
<1>3. QED BY <1>2 DEF WatchClosedForCause

(***************************************************************************)
(* Under the server what is sent is the current snapshot of the node.      *)
(***************************************************************************)
THEOREM ResponseIsCurrentUnderXds == XdsSpec => ResponseIsCurrent
<1> DEFINE Sends == \A i \in ChanId : CurrentOn(i)
<1>1. XdsInv /\ [XdsNext]_vars => [Sends]_cacheVars
  <2> SUFFICES ASSUME XdsInv, [XdsNext]_vars, NEW i \in ChanId
               PROVE  CurrentOn(i)
    OBVIOUS
  <2>1. CASE [Next]_cacheVars
    BY <2>1, NextSends DEF XdsInv
  <2>2. CASE UNCHANGED <<snapshots, watches, chan>>
    BY <2>2 DEF CurrentOn
  <2>3. QED BY <2>1, <2>2, XdsNextIsCacheStep
<1>2. XdsSpec => [][Sends]_cacheVars
  BY <1>1, XdsInvariant, PTL DEF XdsSpec
<1>3. QED BY <1>2 DEF ResponseIsCurrent, CurrentOn
=============================================================================
