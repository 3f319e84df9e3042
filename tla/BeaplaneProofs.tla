--------------------------- MODULE BeaplaneProofs ---------------------------
(***************************************************************************)
(* Proofs about Beaplane, for any number of streams, fetches, loads and    *)
(* nodes.  The invariant of XdsServerProofs is kept by everything beaplane *)
(* does around the server.  BeaplaneInv adds that main never receives from *)
(* a channel a Fetch has closed while the callbacks still send on it, and  *)
(* that a loop over nodes belongs to a bucket; LoadsInv, for one operator  *)
(* at a time, that a node of the bucket being loaded is set or still left. *)
(***************************************************************************)
EXTENDS Beaplane, XdsServerProofs

\* The callbacks send on an open channel or on the nil one.
SignalOpen == signal = "channel" => ~closed

\* Nodes are left only of a bucket that is being loaded, and main loads one
\* only before it listens.
BucketsHeld ==
  /\ \A l \in Loaders : left[l] # <<>> => loading[l] # Nil
  /\ main # "start" => loading["main"] = Nil

BeaplaneInv ==
  /\ XdsInv /\ BeaplaneTypeOK
  /\ SignalOpen /\ BucketsHeld
  /\ DownForCause

\* Handlers load after main has.
Serial == main = "start" => \A h \in Handlers : loading[h] = Nil

\* Node n has the snapshot of a bucket.
Has(n, bucket) ==
  /\ snapshots[n] # Nil
  /\ snapshots[n].version = SnapshotVersion(bucket)
  /\ \A t \in Types : snapshots[n].names[t] = SnapshotNames(bucket, t)

\* Every node of the bucket that l loads is set, or left to be set.
SetOrLeft(l) ==
  loading[l] # Nil =>
     \A i \in DOMAIN loading[l].nodes :
        \/ Has(loading[l].nodes[i], loading[l])
        \/ \E j \in DOMAIN left[l] : left[l][j] = loading[l].nodes[i]

\* A load that panics changes no snapshot: the nodes of the last bucket
\* loaded have its snapshot meanwhile.
Settled ==
  (latest # Nil /\ \A l \in Loaders : loading[l] = Nil \/ Panics(loading[l])) =>
     \A i \in DOMAIN latest.nodes : Has(latest.nodes[i], latest)

LoadsInv ==
  /\ BeaplaneInv /\ Serial
  /\ \A l \in Loaders : SetOrLeft(l)
  /\ Settled

----------------------------------------------------------------------------
\* What bucket.GetSnapshot makes of a bucket fits the cache.
LEMMA BucketContents ==
  ASSUME NEW bucket \in Bucket
  PROVE  /\ SnapshotVersion(bucket) \in Versions
         /\ [t \in Types |-> SnapshotNames(bucket, t)]
               \in [Types -> SUBSET Names]
         /\ bucket.nodes \in Seq(Nodes)
<1>1. SnapshotVersion(bucket) \in Versions /\ bucket.nodes \in Seq(Nodes)
  BY BeaplaneAssumption DEF SnapshotVersion, Bucket
<1>2. /\ \A i \in bucket.endpoints.items : i.name \in Names
      /\ \A i \in bucket.routes.items : i.name \in Names
  BY BeaplaneAssumption DEF Bucket, EndpointItem, RouteItem
<1>3. ASSUME NEW t \in Types PROVE SnapshotNames(bucket, t) \subseteq Names
  <2>1. CASE t = EndpointType
    BY <1>2, <2>1 DEF SnapshotNames
  <2>2. CASE t = RouteType
    BY <1>2, <2>2, BeaplaneAssumption DEF SnapshotNames
  <2>3. CASE t # EndpointType /\ t # RouteType
    BY <2>3 DEF SnapshotNames
  <2>4. QED BY <2>1, <2>2, <2>3
<1>4. QED BY <1>1, <1>3

\* The first state: main holds the initial bucket.
LEMMA BeaplaneInitInv == BeaplaneInit => LoadsInv
<1> SUFFICES ASSUME BeaplaneInit PROVE LoadsInv
  OBVIOUS
<1>1. XdsInv
  BY InitXdsInv DEF BeaplaneInit
<1>2. PICK bucket \in InitialBuckets :
         /\ loading = [l \in Loaders |-> IF l = "main" THEN bucket ELSE Nil]
         /\ left = [l \in Loaders |-> IF l = "main" THEN bucket.nodes ELSE <<>>]
  BY DEF BeaplaneInit
<1>3. bucket \in Bucket /\ bucket.nodes \in Seq(Nodes) /\ bucket # Nil
  BY BucketContents, BeaplaneAssumption
<1>4. BeaplaneTypeOK
  <2>1. /\ loading \in [Loaders -> Bucket \cup {Nil}]
        /\ left \in [Loaders -> Seq(Nodes)]
    BY <1>2, <1>3
  <2>2. posts \in 0 .. MaxPosts /\ fetches \in 0 .. MaxFetches
    BY BeaplaneAssumption DEF BeaplaneInit
  <2>3. QED BY <1>1, <2>1, <2>2 DEF BeaplaneInit, BeaplaneTypeOK, XdsInv
<1>5. SignalOpen /\ DownForCause
  BY DEF BeaplaneInit, SignalOpen, DownForCause, XdsInit, Init
<1>6. BucketsHeld
  BY <1>2, <1>3 DEF BeaplaneInit, BucketsHeld
<1>7. Serial
  BY <1>2, BeaplaneAssumption DEF Serial, Loaders
<1>8. \A l \in Loaders : SetOrLeft(l)
  BY <1>2 DEF SetOrLeft
<1>9. Settled
  BY DEF BeaplaneInit, Settled
<1>10. QED BY <1>1, <1>4, <1>5, <1>6, <1>7, <1>8, <1>9 DEF LoadsInv, BeaplaneInv

----------------------------------------------------------------------------
\* A step of beaplane around the server.
LEMMA ServerIdle ==
  ASSUME XdsInv, UNCHANGED vars
  PROVE  /\ XdsInv' /\ UNCHANGED <<snapshots, reading, down, pc>>
<1>1. UNCHANGED <<snapshots, tracked, watches, watchCount, setCount, calls,
                  chan, value, cancel, reading, down, xdsVars>>
  BY DEF vars, cacheVars
<1>2. reading' \subseteq Readers /\ down' \in BOOLEAN
  BY <1>1 DEF XdsInv, CacheInv, TypeOK
<1>3. UNCHANGED pc
  BY <1>1 DEF xdsVars, processVars
<1>4. QED BY <1>1, <1>2, <1>3, IdleInv

\* The process ends, and nothing else of the server changes.
LEMMA DiesInv ==
  ASSUME XdsInv, Dies
  PROVE  /\ XdsInv' /\ down' /\ UNCHANGED <<snapshots, client, reading, pc>>
<1>1. /\ down' = TRUE
      /\ UNCHANGED <<snapshots, tracked, watches, watchCount, setCount, calls,
                     chan, value, cancel, reading, xdsVars>>
  BY DEF Dies
<1>2. reading' \subseteq Readers
  BY <1>1 DEF XdsInv, CacheInv, TypeOK
<1>3. UNCHANGED <<client, pc>>
  BY <1>1 DEF xdsVars, processVars, clientVars
<1>4. QED BY <1>1, <1>2, <1>3, IdleInv

\* Once the process is down, no stream goes on.
LEMMA StreamStops ==
  ASSUME NEW s \in Streams, down,
         Open(s) \/ Process(s) \/ Reader(s) \/ Envoy(s)
  PROVE  UNCHANGED pc
<1>1. ~Open(s)
  BY DEF Open
<1>2. ~Process(s)
  BY DEF Process, ProcessOwn, SelectResponse, SelectRequest, SelectClosed,
     CallbackReturns, CancelOld, CreateNew, CloseCancel, Close, Receive,
     CancelWatch, CreateWatch, OpenWatch, RespondNow, NewChannel
<1>3. CASE Reader(s)
  BY <1>3 DEF Reader, ReaderRecv, ReaderError, ReaderReturns, processVars
<1>4. CASE Envoy(s)
  BY <1>4 DEF Envoy, Subscribe, Ack, Nack, Ignore, Disconnect, processVars
<1>5. QED BY <1>1, <1>2, <1>3, <1>4

\* A request without a node ends the process before cb.mu is locked.
LEMMA OnStreamRequestPanicsInv ==
  ASSUME BeaplaneInv, NEW s \in Streams, OnStreamRequestPanics(s)
  PROVE  BeaplaneInv' /\ UNCHANGED <<snapshots, client>>
<1>1. /\ pc[s] = "callback" /\ NodeOf[s] = Nil
      /\ Dies
      /\ UNCHANGED <<main, canceled, loading, left, latest, posts, mu, signal,
                     closed, fetches>>
  BY DEF OnStreamRequestPanics, bpVars, mainVars, loadVars, cbVars
<1>2. XdsInv' /\ down' /\ UNCHANGED <<snapshots, client, reading, pc>>
  BY <1>1, DiesInv DEF BeaplaneInv
<1>3. BeaplaneTypeOK'
  BY <1>1, <1>2 DEF BeaplaneInv, BeaplaneTypeOK, XdsInv
<1>4. SignalOpen' /\ BucketsHeld' /\ DownForCause'
  BY <1>1, <1>2 DEF BeaplaneInv, SignalOpen, BucketsHeld, DownForCause
<1>5. QED BY <1>2, <1>3, <1>4 DEF BeaplaneInv

LEMMA OnStreamRequestLocksInv ==
  ASSUME BeaplaneInv, NEW s \in Streams, OnStreamRequestLocks(s)
  PROVE  BeaplaneInv'
<1>1. XdsInv' /\ UNCHANGED <<snapshots, reading, down, pc>>
  BY ServerIdle DEF OnStreamRequestLocks, BeaplaneInv
<1>2. BeaplaneTypeOK'
  BY <1>1 DEF OnStreamRequestLocks, BeaplaneInv, BeaplaneTypeOK, XdsInv,
     mainVars, loadVars
<1>3. SignalOpen' /\ BucketsHeld' /\ DownForCause'
  BY <1>1 DEF OnStreamRequestLocks, BeaplaneInv, SignalOpen, BucketsHeld,
     DownForCause, mainVars, loadVars
<1>4. QED BY <1>1, <1>2, <1>3 DEF BeaplaneInv

\* The send of a callback is received by main: no Fetch has closed the
\* channel while it is still that of the callbacks.
LEMMA OnStreamRequestSignalsInv ==
  ASSUME BeaplaneInv, NEW s \in Streams, OnStreamRequestSignals(s)
  PROVE  BeaplaneInv' /\ UNCHANGED snapshots
<1>1. /\ ~closed /\ CallbackReturns(s) /\ mu' = Nil
      /\ UNCHANGED <<signal, closed, fetches, mainVars, loadVars>>
  BY DEF OnStreamRequestSignals, BeaplaneInv, SignalOpen, Unlock
<1>2. XdsInv' /\ UNCHANGED <<snapshots, reading, down>> /\ ~down
  BY <1>1, StreamInv, StreamReads DEF BeaplaneInv, Process, CallbackReturns
<1>3. BeaplaneTypeOK'
  BY <1>1, <1>2 DEF BeaplaneInv, BeaplaneTypeOK, XdsInv, mainVars, loadVars
<1>4. SignalOpen' /\ BucketsHeld' /\ DownForCause'
  BY <1>1, <1>2 DEF BeaplaneInv, SignalOpen, BucketsHeld, DownForCause,
     mainVars, loadVars
<1>5. QED BY <1>2, <1>3, <1>4 DEF BeaplaneInv

LEMMA OnFetchRequestInv ==
  ASSUME BeaplaneInv, NEW f \in Fetchers, OnFetchRequest(f)
  PROVE  BeaplaneInv'
<1>1. /\ UNCHANGED <<vars, mu, mainVars, loadVars>>
      /\ fetches < MaxFetches /\ fetches' = fetches + 1 /\ CloseSignal
  BY DEF OnFetchRequest
<1>2. XdsInv' /\ UNCHANGED <<snapshots, reading, down, pc>>
  BY <1>1, ServerIdle DEF BeaplaneInv
<1>3. /\ signal' \in {"channel", "nil"} /\ closed' \in BOOLEAN
      /\ SignalOpen'
  BY <1>1 DEF CloseSignal, BeaplaneInv, BeaplaneTypeOK, SignalOpen
<1>4. fetches' \in 0 .. MaxFetches
  BY <1>1, BeaplaneAssumption DEF BeaplaneInv, BeaplaneTypeOK
<1>5. BeaplaneTypeOK'
  BY <1>1, <1>2, <1>3, <1>4
  DEF BeaplaneInv, BeaplaneTypeOK, XdsInv, mainVars, loadVars
<1>6. BucketsHeld' /\ DownForCause'
  BY <1>1, <1>2 DEF BeaplaneInv, BucketsHeld, DownForCause, mainVars,
     loadVars
<1>7. QED BY <1>2, <1>3, <1>5, <1>6 DEF BeaplaneInv

LEMMA HandleBucketInv ==
  ASSUME BeaplaneInv, NEW h \in Handlers, NEW b \in Buckets,
         HandleBucket(h, b)
  PROVE  BeaplaneInv'
<1>1. /\ ~down /\ UNCHANGED <<vars, latest, mainVars, cbVars>>
      /\ posts < MaxPosts /\ posts' = posts + 1
      /\ loading' = [loading EXCEPT ![h] = b]
      /\ left' = [left EXCEPT ![h] = b.nodes]
  BY DEF HandleBucket
<1>2. XdsInv' /\ UNCHANGED <<snapshots, reading, down, pc>>
  BY <1>1, ServerIdle DEF BeaplaneInv
<1>3. /\ b \in Bucket /\ b # Nil /\ b.nodes \in Seq(Nodes)
      /\ h \in Loaders /\ h # "main" /\ "main" \in Loaders
  BY BeaplaneAssumption, BucketContents DEF Loaders
<1>4. posts' \in 0 .. MaxPosts
  BY <1>1, BeaplaneAssumption DEF BeaplaneInv, BeaplaneTypeOK
<1>5. /\ loading' \in [Loaders -> Bucket \cup {Nil}]
      /\ left' \in [Loaders -> Seq(Nodes)]
  BY <1>1, <1>3 DEF BeaplaneInv, BeaplaneTypeOK
<1>6. BeaplaneTypeOK'
  BY <1>1, <1>2, <1>4, <1>5
  DEF BeaplaneInv, BeaplaneTypeOK, XdsInv, mainVars, cbVars
<1>7. BucketsHeld'
  <2>1. /\ loading'[h] # Nil
        /\ \A l \in Loaders : l # h => loading'[l] = loading[l]
                                     /\ left'[l] = left[l]
    BY <1>1, <1>3 DEF BeaplaneInv, BeaplaneTypeOK
  <2>2. UNCHANGED main
    BY <1>1 DEF mainVars
  <2>3. \A l \in Loaders : left'[l] # <<>> => loading'[l] # Nil
    BY <2>1 DEF BeaplaneInv, BucketsHeld
  <2>4. main' # "start" => loading'["main"] = Nil
    BY <1>3, <2>1, <2>2 DEF BeaplaneInv, BucketsHeld
  <2>5. QED BY <2>3, <2>4 DEF BucketsHeld
<1>8. SignalOpen' /\ DownForCause'
  BY <1>1, <1>2 DEF BeaplaneInv, SignalOpen, DownForCause, mainVars, cbVars
<1>9. QED BY <1>2, <1>6, <1>7, <1>8 DEF BeaplaneInv

\* What one turn of the loop sets: the snapshot of the bucket being loaded.
LEMMA SetNodeSets ==
  ASSUME BeaplaneInv, NEW l \in Loaders, SetNode(l)
  PROVE  /\ left[l] # <<>> /\ left[l] \in Seq(Nodes)
         /\ loading[l] \in Bucket /\ ~Panics(loading[l])
         /\ Head(left[l]) \in Nodes
         /\ SnapshotVersion(loading[l]) \in Versions
         /\ [t \in Types |-> SnapshotNames(loading[l], t)]
               \in [Types -> SUBSET Names]
         /\ SetSnapshot(Head(left[l]), SnapshotVersion(loading[l]),
                        [t \in Types |-> SnapshotNames(loading[l], t)])
         /\ left' = [left EXCEPT ![l] = Tail(@)]
         /\ UNCHANGED <<xdsVars, loading, latest, posts, mainVars, cbVars>>
<1>1. /\ left[l] # <<>> /\ ~Panics(loading[l])
      /\ SetSnapshot(Head(left[l]), SnapshotVersion(loading[l]),
                     [t \in Types |-> SnapshotNames(loading[l], t)])
      /\ left' = [left EXCEPT ![l] = Tail(@)]
      /\ UNCHANGED <<xdsVars, loading, latest, posts, mainVars, cbVars>>
  BY DEF SetNode
<1>2. left[l] \in Seq(Nodes) /\ loading[l] \in Bucket
  BY <1>1 DEF BeaplaneInv, BeaplaneTypeOK, BucketsHeld
<1>3. Head(left[l]) \in Nodes
  BY <1>1, <1>2
<1>4. QED BY <1>1, <1>2, <1>3, BucketContents

LEMMA SetNodeInv ==
  ASSUME BeaplaneInv, NEW l \in Loaders, SetNode(l)
  PROVE  BeaplaneInv'
<1>1. /\ left[l] # <<>> /\ left[l] \in Seq(Nodes)
      /\ left' = [left EXCEPT ![l] = Tail(@)]
      /\ UNCHANGED <<xdsVars, loading, latest, posts, mainVars, cbVars>>
  BY SetNodeSets
<1>2. XdsInv'
  BY SetNodeSets, LoadInv DEF BeaplaneInv
<1>3. down' => reading' # {}
  BY SetNodeSets DEF SetSnapshot, WriteSnapshots
<1>4. left' \in [Loaders -> Seq(Nodes)]
  BY <1>1 DEF BeaplaneInv, BeaplaneTypeOK
<1>5. BeaplaneTypeOK'
  BY <1>1, <1>2, <1>4
  DEF BeaplaneInv, BeaplaneTypeOK, XdsInv, mainVars, cbVars
<1>6. BucketsHeld'
  BY <1>1 DEF BeaplaneInv, BeaplaneTypeOK, BucketsHeld, mainVars
<1>7. SignalOpen' /\ DownForCause'
  BY <1>1, <1>3 DEF BeaplaneInv, SignalOpen, DownForCause, cbVars
<1>8. QED BY <1>2, <1>5, <1>6, <1>7 DEF BeaplaneInv

LEMMA LoadEndsInv ==
  ASSUME BeaplaneInv, NEW l \in Loaders, LoadEnds(l)
  PROVE  BeaplaneInv'
<1>1. /\ ~down /\ loading[l] # Nil /\ left[l] = <<>>
      /\ latest' = loading[l]
      /\ loading' = [loading EXCEPT ![l] = Nil]
      /\ main' = IF l = "main" THEN "loop" ELSE main
      /\ UNCHANGED <<vars, left, posts, canceled, cbVars>>
  BY DEF LoadEnds
<1>2. XdsInv' /\ UNCHANGED <<snapshots, reading, down, pc>>
  BY <1>1, ServerIdle DEF BeaplaneInv
<1>3. BeaplaneTypeOK'
  BY <1>1, <1>2 DEF BeaplaneInv, BeaplaneTypeOK, XdsInv, cbVars
<1>4. BucketsHeld'
  BY <1>1 DEF BeaplaneInv, BeaplaneTypeOK, BucketsHeld, Loaders
<1>5. SignalOpen' /\ DownForCause'
  BY <1>1, <1>2 DEF BeaplaneInv, SignalOpen, DownForCause, cbVars
<1>6. QED BY <1>2, <1>3, <1>4, <1>5 DEF BeaplaneInv

\* GetSnapshot panics: main ends the process, a handler gives up its load.
LEMMA GetSnapshotPanicsInv ==
  ASSUME BeaplaneInv, NEW l \in Loaders, GetSnapshotPanics(l)
  PROVE  /\ BeaplaneInv' /\ UNCHANGED <<snapshots, client, main, latest>>
         /\ \/ UNCHANGED <<loading, left>>
            \/ /\ loading[l] # Nil /\ Panics(loading[l]) /\ l # "main"
               /\ loading' = [loading EXCEPT ![l] = Nil]
               /\ left' = [left EXCEPT ![l] = <<>>]
<1>1. /\ ~down /\ loading[l] # Nil /\ Panics(loading[l])
      /\ UNCHANGED <<main, canceled, latest, posts, mu, signal, closed, fetches>>
  BY DEF GetSnapshotPanics, mainVars, cbVars
<1>2. CASE l = "main"
  <2>1. Dies /\ UNCHANGED <<loading, left>>
    BY <1>2 DEF GetSnapshotPanics
  <2>2. XdsInv' /\ down' /\ UNCHANGED <<snapshots, client, reading, pc>>
    BY <2>1, DiesInv DEF BeaplaneInv
  <2>3. BeaplaneTypeOK'
    BY <1>1, <2>1, <2>2 DEF BeaplaneInv, BeaplaneTypeOK, XdsInv
  <2>4. SignalOpen' /\ BucketsHeld'
    BY <1>1, <2>1 DEF BeaplaneInv, SignalOpen, BucketsHeld
  <2>5. main' = "start" /\ Panics(loading'["main"])
    BY <1>1, <1>2, <2>1 DEF BeaplaneInv, BeaplaneTypeOK, BucketsHeld
  <2>6. QED
    BY <1>1, <2>1, <2>2, <2>3, <2>4, <2>5 DEF BeaplaneInv, DownForCause
<1>3. CASE l # "main"
  <2>1. /\ loading' = [loading EXCEPT ![l] = Nil]
        /\ left' = [left EXCEPT ![l] = <<>>]
        /\ UNCHANGED vars
    BY <1>3 DEF GetSnapshotPanics
  <2>2. /\ XdsInv' /\ UNCHANGED <<snapshots, reading, down, pc>>
        /\ UNCHANGED client
    BY <2>1, ServerIdle DEF BeaplaneInv, vars, xdsVars, clientVars
  <2>3. /\ loading' \in [Loaders -> Bucket \cup {Nil}]
        /\ left' \in [Loaders -> Seq(Nodes)]
    BY <2>1 DEF BeaplaneInv, BeaplaneTypeOK
  <2>4. BeaplaneTypeOK'
    BY <1>1, <2>2, <2>3 DEF BeaplaneInv, BeaplaneTypeOK, XdsInv
  <2>5. BucketsHeld'
    BY <1>1, <1>3, <2>1 DEF BeaplaneInv, BeaplaneTypeOK, BucketsHeld
  <2>6. SignalOpen' /\ DownForCause'
    BY <1>1, <2>2 DEF BeaplaneInv, SignalOpen, DownForCause
  <2>7. QED
    BY <1>1, <1>3, <2>1, <2>2, <2>4, <2>5, <2>6 DEF BeaplaneInv
<1>4. QED BY <1>2, <1>3

LEMMA ShutDownInv ==
  ASSUME BeaplaneInv, ShutDown
  PROVE  BeaplaneInv'
<1>1. XdsInv' /\ UNCHANGED <<snapshots, reading, down, pc>>
  BY ServerIdle DEF ShutDown, BeaplaneInv
<1>2. QED
  BY <1>1 DEF ShutDown, BeaplaneInv, BeaplaneTypeOK, XdsInv, SignalOpen,
     BucketsHeld, DownForCause, loadVars, cbVars

LEMMA MainDoneInv ==
  ASSUME BeaplaneInv, MainDone
  PROVE  BeaplaneInv' /\ UNCHANGED <<snapshots, client>>
<1>1. /\ main = "loop" /\ main' = "done"
      /\ UNCHANGED <<canceled, loading, left, latest, posts, mu, signal,
                     closed, fetches>>
      /\ Dies
  BY DEF MainDone, loadVars, cbVars
<1>2. XdsInv' /\ down' /\ UNCHANGED <<snapshots, client, reading, pc>>
  BY <1>1, DiesInv DEF BeaplaneInv
<1>3. QED
  BY <1>1, <1>2 DEF BeaplaneInv, BeaplaneTypeOK, XdsInv, SignalOpen,
     BucketsHeld, DownForCause

\* The server's own steps, which leave main, the loads and cb alone.
LEMMA ServerStepInv ==
  ASSUME BeaplaneInv, NEW s \in Streams, UNCHANGED bpVars,
         Open(s) \/ ProcessOwn(s) \/ Reader(s) \/ Envoy(s)
  PROVE  BeaplaneInv' /\ UNCHANGED snapshots
<1>1. XdsInv' /\ UNCHANGED <<snapshots, reading, down>>
  BY StreamInv, StreamReads DEF BeaplaneInv, Process
<1>2. UNCHANGED <<main, canceled, loading, left, latest, posts, mu, signal,
                  closed, fetches>>
  BY DEF bpVars, mainVars, loadVars, cbVars
<1>3. down => UNCHANGED pc
  BY StreamStops DEF Process
<1>4. QED
  BY <1>1, <1>2, <1>3 DEF BeaplaneInv, BeaplaneTypeOK, XdsInv, SignalOpen,
     BucketsHeld, DownForCause

LEMMA HandleReadInv ==
  ASSUME BeaplaneInv, NEW r \in Readers, HandleRead(r)
  PROVE  BeaplaneInv' /\ UNCHANGED snapshots
<1>1. /\ UNCHANGED <<snapshots, tracked, watches, watchCount, setCount, calls,
                     chan, value, cancel, down, xdsVars>>
      /\ UNCHANGED <<main, canceled, loading, left, latest, posts, mu, signal,
                     closed, fetches>>
      /\ reading' \in {reading \cup {r}, reading \ {r}} /\ ~down
  BY DEF HandleRead, BeginRead, EndRead, bpVars, mainVars, loadVars, cbVars
<1>2. reading' \subseteq Readers /\ down' \in BOOLEAN
  BY <1>1 DEF BeaplaneInv, XdsInv, CacheInv, TypeOK
<1>3. XdsInv'
  BY <1>1, <1>2, IdleInv DEF BeaplaneInv
<1>4. QED
  BY <1>1, <1>3 DEF BeaplaneInv, BeaplaneTypeOK, XdsInv, SignalOpen,
     BucketsHeld, DownForCause

\* Nothing happens.
LEMMA BeaplaneStutterInv ==
  ASSUME BeaplaneInv, UNCHANGED allVars
  PROVE  BeaplaneInv' /\ UNCHANGED snapshots
<1>1. UNCHANGED <<main, canceled, loading, left, latest, posts, mu, signal,
                  closed, fetches>>
  BY DEF allVars, bpVars, mainVars, loadVars, cbVars
<1>2. XdsInv' /\ UNCHANGED <<snapshots, reading, down, pc>>
  BY ServerIdle DEF BeaplaneInv, allVars
<1>3. QED
  BY <1>1, <1>2 DEF BeaplaneInv, BeaplaneTypeOK, XdsInv, SignalOpen,
     BucketsHeld, DownForCause

LEMMA BeaplaneNextInv == BeaplaneInv /\ [BeaplaneNext]_allVars => BeaplaneInv'
  BY OnStreamRequestPanicsInv, OnStreamRequestLocksInv,
     OnStreamRequestSignalsInv, OnFetchRequestInv, HandleBucketInv,
     GetSnapshotPanicsInv, SetNodeInv, LoadEndsInv, ShutDownInv, MainDoneInv,
     ServerStepInv, HandleReadInv, BeaplaneStutterInv
  DEF BeaplaneNext, Callback, LoadStep

(***************************************************************************)
(* The inductive invariant of beaplane: the server's, kept by callbacks,   *)
(* loads, fetches, reads and the end of main, with the signal channel open *)
(* for as long as a callback may send on it.                               *)
(***************************************************************************)
THEOREM BeaplaneInvariant == BeaplaneSpec => []BeaplaneInv
<1>1. LoadsInv => BeaplaneInv
  BY DEF LoadsInv
<1>2. QED BY <1>1, BeaplaneInitInv, BeaplaneNextInv, PTL DEF BeaplaneSpec

(***************************************************************************)
(* The variables of beaplane always have their types.                      *)
(***************************************************************************)
THEOREM BeaplaneTypeCorrect == BeaplaneSpec => []BeaplaneTypeOK
<1>1. BeaplaneInv => BeaplaneTypeOK
  BY DEF BeaplaneInv
<1>2. QED BY <1>1, BeaplaneInvariant, PTL

(***************************************************************************)
(* No callback ever sends on the channel that a Fetch has closed.  The     *)
(* process ends when main returns, at a request that names no node, at an  *)
(* initial bucket whose routes main cannot read, and it may end when a     *)
(* load writes the map a reader is inside.                                 *)
(***************************************************************************)
THEOREM DownForCauseHolds == BeaplaneSpec => []DownForCause
<1>1. BeaplaneInv => DownForCause
  BY DEF BeaplaneInv
<1>2. QED BY <1>1, BeaplaneInvariant, PTL

----------------------------------------------------------------------------
(***************************************************************************)
(* One operator at a time.                                                 *)
(***************************************************************************)
OneOperator == \A g, h \in Handlers : g = h

LEMMA OneLoads ==
  ASSUME OneOperator, Serial, BucketsHeld, BeaplaneTypeOK,
         NEW l \in Loaders, NEW m \in Loaders, loading[l] # Nil, m # l
  PROVE  loading[m] = Nil
  BY DEF OneOperator, Serial, BucketsHeld, Loaders

\* A step that leaves the snapshots and the loads alone.
LEMMA LoadsFrame ==
  ASSUME LoadsInv, UNCHANGED <<snapshots, main, loading, left, latest>>
  PROVE  /\ Serial' /\ Settled'
         /\ \A l \in Loaders : SetOrLeft(l)'
<1>1. Serial'
  BY DEF LoadsInv, Serial
<1>2. \A l \in Loaders : SetOrLeft(l)'
  BY DEF LoadsInv, SetOrLeft, Has
<1>3. Settled'
  BY DEF LoadsInv, Settled, Has
<1>4. QED BY <1>1, <1>2, <1>3

LEMMA HandleBucketLoads ==
  ASSUME LoadsInv, NEW h \in Handlers, NEW b \in Buckets, HandleBucket(h, b)
  PROVE  LoadsInv'
<1>1. /\ UNCHANGED <<vars, latest, main>> /\ main # "start"
      /\ loading[h] = Nil
      /\ loading' = [loading EXCEPT ![h] = b]
      /\ left' = [left EXCEPT ![h] = b.nodes]
  BY DEF HandleBucket, ServesHttp, mainVars
<1>2. /\ b \in Bucket /\ b # Nil /\ b.nodes \in Seq(Nodes)
      /\ h \in Loaders /\ h # "main" /\ "main" \in Loaders
  BY BeaplaneAssumption, BucketContents DEF Loaders
<1>3. /\ loading \in [Loaders -> Bucket \cup {Nil}]
      /\ left \in [Loaders -> Seq(Nodes)]
      /\ UNCHANGED snapshots
  BY <1>1, ServerIdle DEF LoadsInv, BeaplaneInv, BeaplaneTypeOK
<1>4. Serial'
  BY <1>1, <1>2, <1>3 DEF LoadsInv, Serial
<1>5. ASSUME NEW l \in Loaders PROVE SetOrLeft(l)'
  <2>1. CASE l = h
    <3>1. loading'[l].nodes = left'[l]
      BY <1>1, <1>2, <1>3, <2>1
    <3>2. QED BY <3>1 DEF SetOrLeft
  <2>2. CASE l # h
    <3>1. loading'[l] = loading[l] /\ left'[l] = left[l] /\ SetOrLeft(l)
      BY <1>1, <1>3, <2>2 DEF LoadsInv
    <3>2. QED BY <1>3, <3>1 DEF SetOrLeft, Has
  <2>3. QED BY <2>1, <2>2
<1>6. Settled'
  <2>1. \A l \in Loaders : l # h => loading'[l] = loading[l]
    BY <1>1, <1>3
  <2>2. QED BY <1>1, <1>3, <2>1 DEF LoadsInv, Settled, Has
<1>7. BeaplaneInv'
  BY HandleBucketInv DEF LoadsInv
<1>8. QED BY <1>4, <1>5, <1>6, <1>7 DEF LoadsInv

\* The node at the head of what is left gets the snapshot of the bucket, and
\* a node that has it keeps it.
LEMMA SetNodeHas ==
  ASSUME BeaplaneInv, NEW l \in Loaders, SetNode(l),
         NEW n, n = Head(left[l]), NEW bucket, bucket = loading[l],
         NEW m \in Nodes, m = n \/ Has(m, bucket)
  PROVE  Has(m, bucket)'
<1> DEFINE version == SnapshotVersion(bucket)
           names == [t \in Types |-> SnapshotNames(bucket, t)]
<1>1. PICK snapshot : snapshot = NewSnapshot(version, names, setCount + 1)
  OBVIOUS
<1>2. /\ n \in Nodes /\ version \in Versions
      /\ names \in [Types -> SUBSET Names]
      /\ SetSnapshot(n, version, names)
  BY SetNodeSets
<1>3. /\ snapshot \in Snapshot
      /\ snapshot.version = version /\ snapshot.names = names
  BY <1>1, <1>2, CacheAssumption
  DEF SetSnapshot, NewSnapshot, Snapshot, BeaplaneInv, XdsInv, CacheInv, TypeOK
<1>4. snapshot # Nil
  BY <1>3, CacheAssumption
<1>5. snapshots' = [snapshots EXCEPT ![n] = snapshot]
  BY <1>1, <1>2 DEF SetSnapshot
<1>6. snapshots \in [Nodes -> Snapshot \cup {Nil}]
  BY DEF BeaplaneInv, XdsInv, CacheInv, TypeOK
<1>7. CASE m = n
  <2>1. snapshots'[m] = snapshot
    BY <1>5, <1>6, <1>7
  <2>2. QED BY <1>3, <1>4, <2>1 DEF Has
<1>8. CASE m # n
  <2>1. snapshots'[m] = snapshots[m]
    BY <1>5, <1>6, <1>8
  <2>2. QED BY <1>8, <2>1 DEF Has
<1>9. QED BY <1>7, <1>8

\* One turn of the loop: what was left is set, or still left.
LEMMA SetNodeLoads ==
  ASSUME OneOperator, LoadsInv, NEW l \in Loaders, SetNode(l)
  PROVE  LoadsInv'
<1>1. /\ BeaplaneInv /\ BeaplaneInv'
      /\ loading \in [Loaders -> Bucket \cup {Nil}]
      /\ left \in [Loaders -> Seq(Nodes)]
  BY SetNodeInv DEF LoadsInv, BeaplaneInv, BeaplaneTypeOK
<1>2. /\ left[l] # <<>> /\ loading[l] \in Bucket /\ loading[l] # Nil
      /\ ~Panics(loading[l])
      /\ left' = [left EXCEPT ![l] = Tail(@)]
      /\ UNCHANGED <<loading, latest, main>>
  BY <1>1, SetNodeSets, BeaplaneAssumption DEF mainVars
<1>3. Serial'
  BY <1>2 DEF LoadsInv, Serial
<1>4. Settled'
  BY <1>2 DEF Settled
<1>5. ASSUME NEW k \in Loaders PROVE SetOrLeft(k)'
  <2>1. CASE k # l
    <3>1. loading[k] = Nil
      BY <1>1, <1>2, <2>1, OneLoads DEF LoadsInv, BeaplaneInv
    <3>2. QED BY <1>2, <3>1 DEF SetOrLeft
  <2>2. CASE k = l
    <3>1. PICK bucket \in Bucket : bucket = loading[l]
      BY <1>2
    <3>2. bucket.nodes \in Seq(Nodes)
      BY BucketContents
    <3>3. ASSUME NEW i \in DOMAIN bucket.nodes
          PROVE  \/ Has(bucket.nodes[i], bucket)'
                 \/ \E j \in DOMAIN left'[l] : left'[l][j] = bucket.nodes[i]
      <4>1. PICK m \in Nodes : m = bucket.nodes[i]
        BY <3>2
      <4>2. \/ Has(m, bucket)
            \/ \E j \in DOMAIN left[l] : left[l][j] = m
        BY <3>1, <1>2, <4>1 DEF LoadsInv, SetOrLeft
      <4>3. CASE Has(m, bucket) \/ m = Head(left[l])
        <5>1. Has(m, bucket)'
          BY <1>1, <3>1, <4>3, SetNodeHas
        <5>2. QED BY <4>1, <5>1 DEF Has
      <4>4. ASSUME NEW j \in DOMAIN left[l], left[l][j] = m,
                   m # Head(left[l])
            PROVE  \E x \in DOMAIN left'[l] : left'[l][x] = m
        <5>1. left[l] \in Seq(Nodes) /\ left'[l] = Tail(left[l])
          BY <1>1, <1>2
        <5>2. j \in 2 .. Len(left[l])
          BY <4>4, <5>1, <1>2
        <5>3. j - 1 \in DOMAIN left'[l] /\ left'[l][j - 1] = m
          BY <4>4, <5>1, <5>2, <1>2
        <5>4. QED BY <5>3
      <4>5. QED BY <4>1, <4>2, <4>3, <4>4
    <3>4. loading'[k] = bucket
      BY <1>2, <2>2, <3>1
    <3>5. QED BY <3>3, <3>4, <2>2 DEF SetOrLeft, Has
  <2>3. QED BY <2>1, <2>2
<1>6. QED BY <1>1, <1>3, <1>4, <1>5 DEF LoadsInv

\* A load ends with nothing left, so every node of the bucket is set.
LEMMA LoadEndsLoads ==
  ASSUME OneOperator, LoadsInv, NEW l \in Loaders, LoadEnds(l)
  PROVE  LoadsInv'
<1>1. /\ loading[l] # Nil /\ left[l] = <<>> /\ latest' = loading[l]
      /\ loading' = [loading EXCEPT ![l] = Nil]
      /\ main' = IF l = "main" THEN "loop" ELSE main
      /\ UNCHANGED <<vars, left>>
  BY DEF LoadEnds
<1>2. /\ BeaplaneInv' /\ UNCHANGED snapshots
      /\ BeaplaneTypeOK /\ loading \in [Loaders -> Bucket \cup {Nil}]
  BY <1>1, LoadEndsInv, ServerIdle DEF LoadsInv, BeaplaneInv, BeaplaneTypeOK
<1>3. \A k \in Loaders : loading'[k] = Nil
  BY <1>1, <1>2, OneLoads DEF LoadsInv, BeaplaneInv
<1>4. Serial' /\ \A k \in Loaders : SetOrLeft(k)'
  BY <1>3 DEF Serial, SetOrLeft, Loaders
<1>5. PICK bucket \in Bucket : bucket = loading[l]
  BY <1>1, <1>2
<1>6. \A i \in DOMAIN bucket.nodes : Has(bucket.nodes[i], bucket)
  BY <1>1, <1>5 DEF LoadsInv, SetOrLeft
<1>7. Settled'
  BY <1>1, <1>2, <1>5, <1>6 DEF Settled, Has
<1>8. QED BY <1>2, <1>4, <1>7 DEF LoadsInv

\* A load that panics is dropped, and no snapshot changes.
LEMMA GetSnapshotPanicsLoads ==
  ASSUME LoadsInv, NEW l \in Loaders, GetSnapshotPanics(l)
  PROVE  LoadsInv'
<1>1. /\ BeaplaneInv' /\ UNCHANGED <<snapshots, main, latest>>
      /\ \/ UNCHANGED <<loading, left>>
         \/ /\ loading[l] # Nil /\ Panics(loading[l])
            /\ loading' = [loading EXCEPT ![l] = Nil]
            /\ left' = [left EXCEPT ![l] = <<>>]
  BY GetSnapshotPanicsInv DEF LoadsInv
<1>2. CASE UNCHANGED <<loading, left>>
  BY <1>1, <1>2, LoadsFrame DEF LoadsInv
<1>3. CASE /\ loading[l] # Nil /\ Panics(loading[l])
           /\ loading' = [loading EXCEPT ![l] = Nil]
           /\ left' = [left EXCEPT ![l] = <<>>]
  <2>1. /\ loading'[l] = Nil
        /\ \A k \in Loaders : k # l => loading'[k] = loading[k]
                                     /\ left'[k] = left[k]
    BY <1>3 DEF LoadsInv, BeaplaneInv, BeaplaneTypeOK
  <2>2. Serial'
    BY <1>1, <2>1 DEF LoadsInv, Serial, Loaders
  <2>3. ASSUME NEW k \in Loaders PROVE SetOrLeft(k)'
    <3>1. CASE k = l
      BY <2>1, <3>1 DEF SetOrLeft
    <3>2. CASE k # l
      <4>1. SetOrLeft(k) /\ loading'[k] = loading[k] /\ left'[k] = left[k]
        BY <2>1, <3>2 DEF LoadsInv
      <4>2. QED BY <1>1, <4>1 DEF SetOrLeft, Has
    <3>3. QED BY <3>1, <3>2
  <2>4. Settled'
    BY <1>1, <1>3, <2>1 DEF LoadsInv, Settled, Has
  <2>5. QED BY <1>1, <2>2, <2>3, <2>4 DEF LoadsInv
<1>4. QED BY <1>1, <1>2, <1>3

LEMMA BeaplaneNextLoads ==
  ASSUME OneOperator, LoadsInv, [BeaplaneNext]_allVars
  PROVE  LoadsInv'
<1>1. CASE \/ \E s \in Streams : Callback(s)
           \/ \E f \in Fetchers : OnFetchRequest(f)
           \/ ShutDown \/ UNCHANGED allVars
           \/ \E r \in Readers : HandleRead(r)
           \/ /\ \E s \in Streams :
                    Open(s) \/ ProcessOwn(s) \/ Reader(s) \/ Envoy(s)
              /\ UNCHANGED bpVars
  <2>1. UNCHANGED <<main, loading, left, latest>>
    BY <1>1 DEF Callback, OnStreamRequestPanics, OnStreamRequestLocks,
       OnStreamRequestSignals, OnFetchRequest, ShutDown, HandleRead, allVars, bpVars, mainVars, loadVars
  <2>2. UNCHANGED snapshots
    BY <1>1, OnStreamRequestPanicsInv, OnStreamRequestSignalsInv,
       ServerStepInv, HandleReadInv, BeaplaneStutterInv, ServerIdle
    DEF LoadsInv, BeaplaneInv, Callback, OnStreamRequestLocks,
        OnFetchRequest, ShutDown
  <2>3. QED BY <2>1, <2>2, LoadsFrame, BeaplaneNextInv DEF LoadsInv
<1>2. CASE MainDone
  <2>1. /\ UNCHANGED <<snapshots, loading, left, latest>>
        /\ main = "loop" /\ main' = "done"
    BY <1>2, MainDoneInv DEF MainDone, loadVars, LoadsInv
  <2>2. BeaplaneInv' /\ Serial'
    BY <1>2, <2>1, MainDoneInv DEF LoadsInv, Serial
  <2>3. (\A l \in Loaders : SetOrLeft(l)') /\ Settled'
    BY <2>1 DEF LoadsInv, SetOrLeft, Has, Settled
  <2>4. QED BY <2>2, <2>3 DEF LoadsInv
<1>3. QED
  BY <1>1, <1>2, HandleBucketLoads, GetSnapshotPanicsLoads, SetNodeLoads,
     LoadEndsLoads
  DEF BeaplaneNext, LoadStep

(***************************************************************************)
(* As long as POST /bucket has one operator, the nodes of the last bucket  *)
(* loaded all have its snapshot, however the streams, the fetches and the  *)
(* readers interleave with the loop over the nodes.                        *)
(***************************************************************************)
THEOREM LastLoadWinsHolds ==
  ASSUME \A g, h \in Handlers : g = h
  PROVE  BeaplaneSpec => []LastLoadWins
<1>1. OneOperator
  BY DEF OneOperator
<1>2. LoadsInv /\ [BeaplaneNext]_allVars => LoadsInv'
  BY <1>1, BeaplaneNextLoads
<1>3. LoadsInv => LastLoadWins
  BY DEF LoadsInv, Settled, Has, LastLoadWins
<1>4. QED BY <1>2, <1>3, BeaplaneInitInv, PTL DEF BeaplaneSpec

----------------------------------------------------------------------------
(***************************************************************************)
(* What the server promises it keeps inside beaplane, where callbacks      *)
(* delay its streams and the loads are those of whole buckets.             *)
(***************************************************************************)
LEMMA XdsUnderBeaplane == BeaplaneSpec => []XdsInv
<1>1. BeaplaneInv => XdsInv
  BY DEF BeaplaneInv
<1>2. QED BY <1>1, BeaplaneInvariant, PTL

(***************************************************************************)
(* However long a callback waits for cb.mu or for main, its stream leaks   *)
(* no watch, answers no stale request with one, and the cache neither      *)
(* keeps an outdated watch nor blocks on a send.                           *)
(***************************************************************************)
THEOREM ServerUnderBeaplane ==
  BeaplaneSpec => [](/\ NoDanglingWatch /\ WatchAnswersLatest
                     /\ NoOutdatedWatch /\ RespondNeverBlocks /\ CancelIsOwn)
<1>1. XdsInv => NoOutdatedWatch /\ RespondNeverBlocks /\ CancelIsOwn
  BY DEF XdsInv, CacheInv, RespondNeverBlocks, OpenWatches, Filed, Distinct,
     Unused
<1>2. QED BY <1>1, XdsWatches, XdsUnderBeaplane, PTL

(***************************************************************************)
(* A stream that waits, also for a callback, is answered or still has its  *)
(* watch: no bucket load forgets it, without the ADS mode.                 *)
(***************************************************************************)
THEOREM WaiterUnderBeaplane ==
  ASSUME ~Ads
  PROVE  BeaplaneSpec => []WaiterNotForgotten
<1>1. XdsInv => WaiterNotForgotten
  BY XdsWaiters
<1>2. QED BY <1>1, XdsUnderBeaplane, PTL

\* A turn of a load publishes; a stream delivers, or nothing happens.
LEMMA BeaplaneNextMaps ==
  BeaplaneInv /\ [BeaplaneNext]_allVars => [Push!PushNext]_Push!pushVars
<1> SUFFICES ASSUME BeaplaneInv, [BeaplaneNext]_allVars
             PROVE  \/ \E n \in Nodes : Push!Publish(n)
                    \/ \E c \in Callers : Push!Deliver(c)
                    \/ UNCHANGED Push!pushVars
  BY DEF Push!PushNext
<1>1. XdsInv
  BY DEF BeaplaneInv
<1>2. ASSUME NEW l \in Loaders, SetNode(l)
      PROVE  \E n \in Nodes : Push!Publish(n)
  <2>1. PICK n \in Nodes, version \in Versions,
             names \in [Types -> SUBSET Names] :
           SetSnapshot(n, version, names)
    BY <1>2, SetNodeSets
  <2>2. UNCHANGED xdsVars
    BY <1>2 DEF SetNode
  <2>3. QED BY <1>1, <2>1, <2>2, LoadMaps
<1>3. ASSUME NEW s \in Streams,
             Open(s) \/ ProcessOwn(s) \/ Reader(s) \/ Envoy(s)
      PROVE  \/ \E c \in Callers : Push!Deliver(c)
             \/ UNCHANGED Push!pushVars
  BY <1>1, <1>3, StreamMaps DEF Process
<1>4. ASSUME NEW s \in Streams, Callback(s)
      PROVE  \/ \E c \in Callers : Push!Deliver(c)
             \/ UNCHANGED Push!pushVars
  <2>1. CASE OnStreamRequestLocks(s)
    BY <2>1, OthersMap DEF OnStreamRequestLocks, vars, cacheVars, xdsVars,
       clientVars
  <2>2. CASE OnStreamRequestSignals(s)
    <3>1. CallbackReturns(s)
      BY <2>2 DEF OnStreamRequestSignals, BeaplaneInv, SignalOpen
    <3>2. QED BY <1>1, <3>1, StreamMaps DEF Process
  <2>3. CASE OnStreamRequestPanics(s)
    BY <2>3, OnStreamRequestPanicsInv, OthersMap
  <2>4. QED BY <1>4, <2>1, <2>2, <2>3 DEF Callback
<1>5. CASE UNCHANGED <<snapshots, client>>
  BY <1>5, OthersMap
<1>6. CASE \/ \E f \in Fetchers : OnFetchRequest(f)
           \/ \E h \in Handlers, b \in Buckets : HandleBucket(h, b)
           \/ \E l \in Loaders : LoadEnds(l) \/ GetSnapshotPanics(l)
           \/ ShutDown \/ MainDone \/ \E r \in Readers : HandleRead(r)
           \/ UNCHANGED allVars
  <2>1. UNCHANGED <<snapshots, client>>
    BY <1>6, MainDoneInv, GetSnapshotPanicsInv
    DEF OnFetchRequest, HandleBucket, LoadEnds, ShutDown, HandleRead, BeginRead, EndRead, allVars, vars, cacheVars, xdsVars,
       clientVars
  <2>2. QED BY <1>5, <2>1
<1>7. QED BY <1>2, <1>3, <1>4, <1>6 DEF BeaplaneNext, LoadStep

(***************************************************************************)
(* beaplane implements ConfigPush: an Envoy's configuration is one that a  *)
(* load has set for its node, and is never replaced by an older one,       *)
(* whatever is posted, fetched or read meanwhile.                          *)
(***************************************************************************)
THEOREM BeaplaneImplementsPush == BeaplaneSpec => InOrder
<1>1. BeaplaneInit => Push!PushInit
  BY PushInitMaps DEF BeaplaneInit
<1>2. BeaplaneSpec => Push!PushInit /\ [][Push!PushNext]_Push!pushVars
  BY <1>1, BeaplaneNextMaps, BeaplaneInvariant, PTL DEF BeaplaneSpec
<1>3. QED BY <1>2 DEF InOrder, Push!PushSpec
=============================================================================
