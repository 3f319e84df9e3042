------------------------------ MODULE Beaplane ------------------------------
(***************************************************************************)
(* beaplane: the main goroutine, the HTTP API and the server callbacks,    *)
(* around the xDS server and its cache.                                    *)
(*                                                                         *)
(* OnStreamRequest locks cb.mu and, holding it, sends on the unbuffered    *)
(* cb.signal, which only the main loop receives from.  OnFetchRequest      *)
(* locks cb.mu, closes cb.signal and sets it to nil.  POST /bucket and the *)
(* start of main set the snapshot of a bucket node by node.                *)
(*                                                                         *)
(* A panic ends the process, except in a handler of the HTTP API, which    *)
(* net/http recovers.  Two are in the code of beaplane itself: the log     *)
(* line of OnStreamRequest reads request.Node.Id, which a request without  *)
(* a node does not have, and GetSnapshot indexes lists that may be empty.  *)
(***************************************************************************)
EXTENDS XdsServer, Bucket

CONSTANTS Fetchers,      \* goroutines that serve a unary Fetch
          Handlers,      \* goroutines that serve POST /bucket
          Buckets,       \* the buckets that may be loaded
          InitialBuckets, \* the buckets main may read at its start
          MaxPosts,      \* bound on POST /bucket calls
          MaxFetches,    \* bound on Fetch calls
          MayShutDown    \* whether PUT /shutdown or CTRL-C may arrive

ASSUME BeaplaneAssumption ==
  /\ Buckets \subseteq Bucket /\ InitialBuckets \subseteq Bucket
  /\ EndpointType # RouteType
  /\ BucketNodes = Nodes /\ ItemNames = Names /\ BucketVersions = Versions
  /\ MaxPosts \in Nat /\ MaxFetches \in Nat
  /\ "main" \notin Handlers
  /\ Nil \notin Streams \cup Bucket

VARIABLES mu,        \* the stream that holds cb.mu across steps, or Nil
          signal,    \* cb.signal: "channel", or "nil" after a Fetch
          closed,    \* the channel main receives from has been closed
          main,      \* where the main goroutine is
          loading,   \* the bucket a handler, or main, is loading, or Nil
          left,      \* the nodes it still has to set
          latest,    \* the bucket whose load was the last to end
          posts,     \* POST /bucket calls so far
          fetches,   \* cb.fetches
          canceled   \* ctx is done

mainVars == <<main, canceled>>
loadVars == <<loading, left, latest, posts>>
cbVars   == <<mu, signal, closed, fetches>>
bpVars   == <<mainVars, loadVars, cbVars>>
allVars  == <<vars, bpVars>>

Loaders == Handlers \cup {"main"}

BeaplaneTypeOK ==
  /\ XdsTypeOK
  /\ mu \in Streams \cup {Nil}
  /\ signal \in {"channel", "nil"}
  /\ closed \in BOOLEAN
  /\ main \in {"start", "loop", "done"}
  /\ loading \in [Loaders -> Bucket \cup {Nil}]
  /\ left \in [Loaders -> Seq(Nodes)]
  /\ latest \in Bucket \cup {Nil}
  /\ posts \in 0 .. MaxPosts
  /\ fetches \in 0 .. MaxFetches
  /\ canceled \in BOOLEAN

\* main has read the initial bucket; the gRPC server is started before the
\* snapshots are set.
BeaplaneInit ==
  /\ XdsInit
  /\ mu = Nil
  /\ signal = "channel"
  /\ closed = FALSE
  /\ main = "start"
  /\ \E bucket \in InitialBuckets :
        /\ loading = [l \in Loaders |-> IF l = "main" THEN bucket ELSE Nil]
        /\ left = [l \in Loaders |-> IF l = "main" THEN bucket.nodes ELSE <<>>]
  /\ latest = Nil
  /\ posts = 0
  /\ fetches = 0
  /\ canceled = FALSE

\* The process ends, and every goroutine where it is.
Dies ==
  /\ ~down /\ down' = TRUE
  /\ UNCHANGED <<snapshots, tracked, watches, watchCount, setCount, calls,
                 chan, value, cancel, reading, xdsVars>>

----------------------------------------------------------------------------
(***************************************************************************)
(* Callbacks.                                                              *)
(***************************************************************************)

\* The first log line reads request.Node.Id, before cb.mu is locked.
OnStreamRequestPanics(s) ==
  /\ pc[s] = "callback" /\ NodeOf[s] = Nil
  /\ Dies
  /\ UNCHANGED bpVars

OnStreamRequestLocks(s) ==
  /\ ~down
  /\ pc[s] = "callback" /\ NodeOf[s] # Nil
  /\ mu = Nil
  /\ mu' = s
  /\ UNCHANGED <<vars, signal, closed, fetches, mainVars, loadVars>>

\* Variant with a fault: without cb.mu.Unlock() nobody can lock it again.
UnlockMissing == mu' = "locked"

Unlock == mu' = Nil

\* cb.signal <- struct{}{}: the main loop takes it and cb.mu is released.
\* A send on the nil channel blocks for ever; one on a closed channel panics.
OnStreamRequestSignals(s) ==
  /\ mu = s /\ signal = "channel"
  /\ IF closed THEN Dies
     ELSE main = "loop" /\ CallbackReturns(s)
  /\ Unlock
  /\ UNCHANGED <<signal, closed, fetches, mainVars, loadVars>>

\* Variant with a fault: it returns without cb.mu.Unlock().
OnFetchRequestLocked(f) ==
  /\ ~down
  /\ fetches < MaxFetches
  /\ mu = Nil /\ mu' = f
  /\ fetches' = fetches + 1
  /\ UNCHANGED <<vars, signal, closed, mainVars, loadVars>>

\* Variant with a fault: cb.signal is closed but not set to nil.
CloseSignalOnly == closed' = TRUE /\ UNCHANGED signal

CloseSignal ==
  IF signal = "nil" THEN UNCHANGED <<signal, closed>>
  ELSE closed' = TRUE /\ signal' = "nil"

\* A Fetch reads the cache under its lock after this and changes nothing.
OnFetchRequest(f) ==
  /\ ~down
  /\ fetches < MaxFetches
  /\ mu = Nil
  /\ fetches' = fetches + 1
  /\ CloseSignal
  /\ UNCHANGED <<vars, mu, mainVars, loadVars>>

----------------------------------------------------------------------------
(***************************************************************************)
(* Loads.                                                                  *)
(***************************************************************************)

\* Variant with a fault: the HTTP API is started before the initial load.
ServesHttpEarly == TRUE

\* The HTTP API is started after the initial load.
ServesHttp == main # "start"

\* POST /bucket with YAML that can be read; other YAML changes nothing.
HandleBucket(h, bucket) ==
  /\ ~down
  /\ ServesHttp
  /\ loading[h] = Nil /\ posts < MaxPosts
  /\ posts' = posts + 1
  /\ loading' = [loading EXCEPT ![h] = bucket]
  /\ left' = [left EXCEPT ![h] = bucket.nodes]
  /\ UNCHANGED <<vars, latest, mainVars, cbVars>>

\* GetSnapshot panics, before the first node is set: main takes the process
\* along, a handler only its own request.
GetSnapshotPanics(l) ==
  /\ ~down
  /\ loading[l] # Nil /\ Panics(loading[l])
  /\ IF l = "main"
     THEN Dies /\ UNCHANGED <<loading, left>>
     ELSE /\ loading' = [loading EXCEPT ![l] = Nil]
          /\ left' = [left EXCEPT ![l] = <<>>]
          /\ UNCHANGED vars
  /\ UNCHANGED <<latest, posts, mainVars, cbVars>>

\* One turn of the loop over bkt.Nodes.
SetNode(l) ==
  /\ left[l] # <<>> /\ ~Panics(loading[l])
  /\ SetSnapshot(Head(left[l]), SnapshotVersion(loading[l]),
                 [t \in Types |-> SnapshotNames(loading[l], t)])
  /\ left' = [left EXCEPT ![l] = Tail(@)]
  /\ UNCHANGED <<xdsVars, loading, latest, posts, mainVars, cbVars>>

LoadEnds(l) ==
  /\ ~down
  /\ loading[l] # Nil /\ left[l] = <<>> /\ ~Panics(loading[l])
  /\ latest' = loading[l]
  /\ loading' = [loading EXCEPT ![l] = Nil]
  /\ main' = IF l = "main" THEN "loop" ELSE main
  /\ UNCHANGED <<vars, left, posts, canceled, cbVars>>

\* GET /nodes and GET /snapshot: the read of the cache's map, without its
\* lock and at any time, is all they do to the state.
HandleRead(r) ==
  /\ ServesHttp
  /\ BeginRead(r) \/ EndRead(r)
  /\ UNCHANGED <<xdsVars, bpVars>>

----------------------------------------------------------------------------
(***************************************************************************)
(* The end of the process.                                                 *)
(***************************************************************************)
ShutDown ==
  /\ ~down
  /\ MayShutDown /\ ~canceled
  /\ canceled' = TRUE
  /\ UNCHANGED <<vars, main, loadVars, cbVars>>

\* Variant with a fault: main takes cb.mu before it returns.
MayReturnUnlocked == canceled /\ mu = Nil

MayReturn == canceled

\* case <-ctx.Done(): main returns and takes every goroutine with it.
MainDone ==
  /\ main = "loop" /\ MayReturn
  /\ main' = "done"
  /\ Dies
  /\ UNCHANGED <<canceled, loadVars, cbVars>>

----------------------------------------------------------------------------
Callback(s) ==
  OnStreamRequestPanics(s) \/ OnStreamRequestLocks(s) \/ OnStreamRequestSignals(s)

LoadStep(l) == GetSnapshotPanics(l) \/ SetNode(l) \/ LoadEnds(l)

BeaplaneNext ==
  \/ \E s \in Streams : Callback(s)
  \/ \E f \in Fetchers : OnFetchRequest(f)
  \/ \E h \in Handlers, b \in Buckets : HandleBucket(h, b)
  \/ \E l \in Loaders : LoadStep(l)
  \/ ShutDown \/ MainDone
  \/ /\ \E s \in Streams : Open(s) \/ ProcessOwn(s) \/ Reader(s) \/ Envoy(s)
     /\ UNCHANGED bpVars
  \/ \E r \in Readers : HandleRead(r)

BeaplaneSpec == BeaplaneInit /\ [][BeaplaneNext]_allVars

\* Go schedules every goroutine; nobody has to connect, post or fetch.
BeaplaneFairness ==
  /\ \A s \in Streams :
        /\ WF_allVars(ProcessOwn(s) /\ UNCHANGED bpVars)
        /\ WF_allVars(Reader(s) /\ UNCHANGED bpVars)
        /\ WF_allVars(Callback(s))
  /\ \A l \in Loaders : WF_allVars(LoadStep(l))
  /\ WF_allVars(MainDone)

BeaplaneFairSpec == BeaplaneSpec /\ BeaplaneFairness

----------------------------------------------------------------------------
(***************************************************************************)
(* What SetSnapshot puts into the channel of a watch reaches the Envoy: a  *)
(* process() with a response to send sends it, unless its Envoy has gone   *)
(* away or the process stops.  It may have to wait for cb.mu and for the   *)
(* main loop, which starts only after the initial bucket is loaded.        *)
(***************************************************************************)
WatchesAreAnswered ==
  \A c \in Callers :
     (value[c] # 0 /\ chan[value[c]].buf # Nil)
        ~> (value[c] = 0 \/ chan[value[c]].buf = Nil \/ ~up[c[1]] \/ down)

(***************************************************************************)
(* With one operator at a time, the nodes of the last bucket loaded all    *)
(* have its snapshot: no node is left out, and the initial bucket never    *)
(* comes after a posted one.                                               *)
(***************************************************************************)
LastLoadWins ==
  (latest # Nil /\ \A l \in Loaders : loading[l] = Nil) =>
     \A i \in DOMAIN latest.nodes :
        LET snapshot == snapshots[latest.nodes[i]]
        IN  /\ snapshot # Nil
            /\ snapshot.version = SnapshotVersion(latest)
            /\ \A t \in Types : snapshot.names[t] = SnapshotNames(latest, t)

(***************************************************************************)
(* However streams and fetches interleave, no callback sends on the        *)
(* channel that OnFetchRequest closes.  The process is down only when main *)
(* has returned, when a load wrote the map a reader was inside, when a     *)
(* request named no node, or when main could not read its bucket's routes. *)
(***************************************************************************)
DownForCause ==
  down => \/ main = "done"
          \/ reading # {}
          \/ \E s \in Streams : pc[s] = "callback" /\ NodeOf[s] = Nil
          \/ main = "start" /\ Panics(loading["main"])

(***************************************************************************)
(* A shutdown asked for at any time ends the process, even when every      *)
(* stream is stuck in a callback.                                          *)
(***************************************************************************)
ShutDownEnds == canceled ~> down
=============================================================================
