--------------------------- MODULE SnapshotCache ---------------------------
(***************************************************************************)
(* The snapshot cache of pkg/cache: one versioned snapshot per Envoy node, *)
(* and the watches that wait for a newer one.  SetSnapshot, CreateWatch,   *)
(* ClearSnapshot and the cancel function each run under cache.mu and are   *)
(* one atomic action; GetNodes and GetSnapshot take no lock, so they have  *)
(* a begin and an end and a map write may fall between the two.            *)
(*                                                                         *)
(* A caller is a variable pair (chan, cancel) in which a goroutine keeps   *)
(* the results of CreateWatch; channels are numbered in the order of the   *)
(* calls that make them.                                                   *)
(***************************************************************************)
EXTENDS Integers, Sequences, FiniteSets

CONSTANTS Nodes,      \* node identifiers, the results of NodeHash.ID
          Types,      \* the supported resource types
          Names,      \* resource names
          Versions,   \* version strings
          Nonces,     \* response nonces a request may carry (not read here)
          Callers,    \* holders of a (value, cancel) pair
          Readers,    \* goroutines inside GetNodes or GetSnapshot
          Ads,        \* the ads flag of NewSnapshotCache
          Contents,   \* the resource names of the snapshots that are loaded
          MaxSets,    \* bound on calls of SetSnapshot
          MaxCalls,   \* bound on calls of CreateWatch
          Nil         \* Go's nil, and a missing map entry

Request  == [node : Nodes, type : Types, version : Versions,
             names : SUBSET Names, nonce : Nonces]
Snapshot == [version : Versions, names : [Types -> SUBSET Names],
             seq : 1 .. MaxSets]
Response == [request : Request, version : Versions, names : SUBSET Names,
             seq : 1 .. MaxSets]
ChanId   == 1 .. MaxCalls
Channel  == [buf : Response \cup {Nil}, sent : Nat]
Watch    == [id : ChanId, request : Request, chan : ChanId, owner : Callers]
Cancel   == [node : Nodes, id : ChanId]

ASSUME CacheAssumption ==
  /\ Ads \in BOOLEAN
  /\ MaxSets \in Nat
  /\ MaxCalls \in Nat
  /\ Contents \subseteq [Types -> SUBSET Names]
  /\ Nil \notin Snapshot \cup Response \cup Cancel

VARIABLES snapshots,   \* cache.snapshots: the snapshot of a node, or Nil
          tracked,     \* the keys of cache.status
          watches,     \* the open watches of a node, info.watches
          watchCount,  \* cache.watchCount, the last watch identifier
          setCount,    \* how many snapshots have been set: numbers them
          calls,       \* how many channels CreateWatch has made
          chan,        \* the channels: what is buffered, how often sent to
          value,       \* the channel a caller holds, 0 for none
          cancel,      \* the cancel function a caller holds, or Nil
          reading,     \* the readers inside an unlocked map read
          down         \* the process has stopped, by a fatal error or by exit

cacheVars == <<snapshots, tracked, watches, watchCount, setCount, calls,
               chan, value, cancel, reading, down>>

TypeOK ==
  /\ snapshots \in [Nodes -> Snapshot \cup {Nil}]
  /\ tracked \subseteq Nodes
  /\ watches \in [Nodes -> SUBSET Watch]
  /\ watchCount \in Nat
  /\ setCount \in 0 .. MaxSets
  /\ calls \in 0 .. MaxCalls
  /\ chan \in [ChanId -> Channel]
  /\ value \in [Callers -> 0 .. MaxCalls]
  /\ cancel \in [Callers -> Cancel \cup {Nil}]
  /\ reading \subseteq Readers
  /\ down \in BOOLEAN

Init ==
  /\ snapshots = [n \in Nodes |-> Nil]
  /\ tracked = {}
  /\ watches = [n \in Nodes |-> {}]
  /\ watchCount = 0
  /\ setCount = 0
  /\ calls = 0
  /\ chan = [i \in ChanId |-> [buf |-> Nil, sent |-> 0]]
  /\ value = [c \in Callers |-> 0]
  /\ cancel = [c \in Callers |-> Nil]
  /\ reading = {}
  /\ down = FALSE

----------------------------------------------------------------------------
(***************************************************************************)
(* Snapshots and responses.  NewSnapshot gives its one version to every    *)
(* type.                                                                   *)
(***************************************************************************)
NewSnapshot(version, names, seq) ==
  [version |-> version, names |-> names, seq |-> seq]

GetVersion(snapshot, type) == snapshot.version

GetResources(snapshot, type) == snapshot.names[type]

\* Variant with a fault: the two arguments of superset are swapped.
RespondsSwapped(request, snapshot) ==
  Ads /\ request.names # {} =>
     request.names \subseteq GetResources(snapshot, request.type)

\* In ADS mode a request that names resources must name all of them.
Responds(request, snapshot) ==
  Ads /\ request.names # {} =>
     GetResources(snapshot, request.type) \subseteq request.names

\* The names are filtered by the request unless it names none.
CreateResponse(request, snapshot) ==
  [request |-> request,
   version |-> GetVersion(snapshot, request.type),
   names   |-> IF request.names = {}
               THEN GetResources(snapshot, request.type)
               ELSE GetResources(snapshot, request.type) \cap request.names,
   seq     |-> snapshot.seq]

Send(channel, response) == [buf |-> response, sent |-> channel.sent + 1]

\* The channel has capacity 1: a second send blocks, under cache.mu.
HasRoom(i) == chan[i].buf = Nil

\* A write of a Go map while another goroutine reads it may be fatal.
WriteSnapshots ==
  down' \in IF reading = {} THEN {FALSE} ELSE BOOLEAN

----------------------------------------------------------------------------
UpToDate(request, snapshot) ==
  request.version = GetVersion(snapshot, request.type)

\* Variants with a fault: the loop over the watches stops after the first
\* one that is outdated; the versions are not compared.
OutdatedFirst(n, snapshot) ==
  LET S == {w \in watches[n] : ~UpToDate(w.request, snapshot)}
  IN  IF S = {} THEN {} ELSE {CHOOSE w \in S : TRUE}

OutdatedAll(n, snapshot) == watches[n]

Outdated(n, snapshot) ==
  {w \in watches[n] : ~UpToDate(w.request, snapshot)}

\* The watches of n that receive the new snapshot on channel i.
AnsweredOn(i, n, snapshot) ==
  {w \in Outdated(n, snapshot) : w.chan = i /\ Responds(w.request, snapshot)}

\* Variants with a fault: the answered watches are not deleted; all the
\* watches are deleted, answered or not.
RemainingAll(n, snapshot) == watches[n]

RemainingNone(n, snapshot) == {}

\* The watches of n that stay open.
Remaining(n, snapshot) == watches[n] \ Outdated(n, snapshot)

SetSnapshot(n, version, names) ==
  LET snapshot == NewSnapshot(version, names, setCount + 1)
      answered(i) == AnsweredOn(i, n, snapshot)
  IN  /\ ~down
      /\ setCount < MaxSets
      /\ \A i \in ChanId : answered(i) # {} => HasRoom(i)
      /\ setCount' = setCount + 1
      /\ snapshots' = [snapshots EXCEPT ![n] = snapshot]
      /\ chan' = [i \in ChanId |->
                    IF answered(i) = {}
                    THEN chan[i]
                    ELSE LET w == CHOOSE w \in answered(i) : TRUE
                         IN  Send(chan[i], CreateResponse(w.request, snapshot))]
      /\ watches' = [watches EXCEPT ![n] = Remaining(n, snapshot)]
      /\ WriteSnapshots
      /\ UNCHANGED <<tracked, watchCount, calls, value, cancel, reading>>

ClearSnapshot(n) ==
  /\ ~down
  /\ snapshots' = [snapshots EXCEPT ![n] = Nil]
  /\ watches' = [watches EXCEPT ![n] = {}]
  /\ tracked' = tracked \ {n}
  /\ WriteSnapshots
  /\ UNCHANGED <<watchCount, setCount, calls, chan, value, cancel, reading>>

\* What every call of CreateWatch does: a status entry and a new channel.
NewChannel(c, request) ==
  /\ ~down
  /\ calls < MaxCalls
  /\ calls' = calls + 1
  /\ value' = [value EXCEPT ![c] = calls + 1]
  /\ tracked' = tracked \cup {request.node}
  /\ UNCHANGED <<snapshots, setCount, reading, down>>

OpenWatches == UNION {watches[n] : n \in Nodes}

\* Variant with a fault: the number of open watches, which comes back after a
\* cancel.
NextWatchIDReused == Cardinality(OpenWatches) + 1

NextWatchID == watchCount + 1

\* CreateWatch with nothing newer to give: the watch stays open.
OpenWatch(c, request) ==
  LET id == NextWatchID
      n  == request.node
  IN  /\ snapshots[n] # Nil => UpToDate(request, snapshots[n])
      /\ NewChannel(c, request)
      /\ watchCount' = id
      /\ watches' = [watches EXCEPT ![n] = @ \cup
                       {[id |-> id, request |-> request,
                         chan |-> calls + 1, owner |-> c]}]
      /\ cancel' = [cancel EXCEPT ![c] = [node |-> n, id |-> id]]
      /\ UNCHANGED chan

\* CreateWatch with a newer snapshot: answered at once, no cancel function.
RespondNow(c, request) ==
  LET snapshot == snapshots[request.node]
  IN  /\ snapshot # Nil /\ ~UpToDate(request, snapshot)
      /\ NewChannel(c, request)
      /\ chan' = IF Responds(request, snapshot)
                 THEN [chan EXCEPT ![calls + 1] =
                         Send(@, CreateResponse(request, snapshot))]
                 ELSE chan
      /\ cancel' = [cancel EXCEPT ![c] = Nil]
      /\ UNCHANGED <<watches, watchCount>>

CreateWatch(c, request) == OpenWatch(c, request) \/ RespondNow(c, request)

\* Variant with a fault: all the watches of the node are deleted.
CancelWatchAll(c) ==
  LET f == cancel[c]
  IN  /\ ~down
      /\ f # Nil
      /\ watches' = [watches EXCEPT ![f.node] = {}]
      /\ UNCHANGED <<snapshots, tracked, watchCount, setCount, calls, chan,
                     value, cancel, reading, down>>

\* The cancel function may be called again, and after the watch is gone.
CancelWatch(c) ==
  LET f == cancel[c]
  IN  /\ ~down
      /\ f # Nil
      /\ watches' = [watches EXCEPT ![f.node] = {w \in @ : w.id # f.id}]
      /\ UNCHANGED <<snapshots, tracked, watchCount, setCount, calls, chan,
                     value, cancel, reading, down>>

\* The consumer takes the response out of the channel it holds.
Receive(c) ==
  /\ ~down
  /\ value[c] # 0
  /\ chan[value[c]].buf # Nil
  /\ chan' = [chan EXCEPT ![value[c]].buf = Nil]
  /\ UNCHANGED <<snapshots, tracked, watches, watchCount, setCount, calls,
                 value, cancel, reading, down>>

\* GetNodes and GetSnapshot walk cache.snapshots without cache.mu.
BeginRead(r) ==
  /\ ~down
  /\ r \notin reading
  /\ reading' = reading \cup {r}
  /\ UNCHANGED <<snapshots, tracked, watches, watchCount, setCount, calls,
                 chan, value, cancel, down>>

EndRead(r) ==
  /\ ~down
  /\ r \in reading
  /\ reading' = reading \ {r}
  /\ UNCHANGED <<snapshots, tracked, watches, watchCount, setCount, calls,
                 chan, value, cancel, down>>

Next ==
  \/ \E n \in Nodes, v \in Versions, names \in Contents :
        SetSnapshot(n, v, names)
  \/ \E n \in Nodes : ClearSnapshot(n)
  \/ \E c \in Callers, request \in Request : CreateWatch(c, request)
  \/ \E c \in Callers : CancelWatch(c)
  \/ \E c \in Callers : Receive(c)
  \/ \E r \in Readers : BeginRead(r) \/ EndRead(r)

Spec == Init /\ [][Next]_cacheVars

----------------------------------------------------------------------------
(***************************************************************************)
(* A node that has a snapshot has no open watch for another version:       *)
(* SetSnapshot answers every watch "for which the version differs" and     *)
(* CreateWatch opens none, so that no waiter sits on an old version.       *)
(***************************************************************************)
NoOutdatedWatch ==
  \A n \in Nodes : snapshots[n] # Nil =>
     \A w \in watches[n] : UpToDate(w.request, snapshots[n])

(***************************************************************************)
(* The send in respond, made while cache.mu is held, never blocks: the     *)
(* channel of an open watch was never sent to, and no two watches, of one  *)
(* node or of two, share a channel ("capacity 1 to allow one-time          *)
(* non-blocking use").                                                     *)
(***************************************************************************)
RespondNeverBlocks ==
  /\ \A w \in OpenWatches : chan[w.chan] = [buf |-> Nil, sent |-> 0]
  /\ \A w1, w2 \in OpenWatches : w1.chan = w2.chan => w1 = w2

(***************************************************************************)
(* A cancel function reaches at most the watch it was returned with: the   *)
(* watch with its identifier, on whatever node, belongs to the caller that *)
(* holds the function and feeds the channel returned by the same call.     *)
(***************************************************************************)
CancelIsOwn ==
  \A c \in Callers : cancel[c] # Nil =>
     \A n \in Nodes : \A w \in watches[n] : w.id = cancel[c].id =>
        n = cancel[c].node /\ w.owner = c /\ w.chan = value[c]

\* This step closes w, an open watch of n, for a reason.
ClosedForCause(n, w) ==
  \/ chan'[w.chan].sent = chan[w.chan].sent + 1
  \/ n \notin tracked'
  \/ /\ cancel[w.owner] # Nil /\ cancel[w.owner].id = w.id
     /\ watches' = [watches EXCEPT ![n] = @ \ {w}]
     /\ UNCHANGED <<snapshots, chan>>
  \/ /\ Ads /\ snapshots'[n] # snapshots[n]
     /\ ~(snapshots'[n].names[w.request.type] \subseteq w.request.names)

(***************************************************************************)
(* A watch leaves the table only when it is answered, when its own holder  *)
(* cancels it, when its node is cleared, or when an ADS request does not   *)
(* name all the resources: no other caller's cancel, and no snapshot of    *)
(* another node, makes a waiter wait for ever.                             *)
(***************************************************************************)
WatchClosedForCause ==
  [][\A n \in Nodes : \A w \in watches[n] \ watches'[n] :
        ClosedForCause(n, w)]_cacheVars

(***************************************************************************)
(* What is put into a channel is the node's snapshot at that moment, of a  *)
(* version the requester does not have, only of names it asked for, and,   *)
(* in ADS mode, with no resource of the snapshot left out.                 *)
(***************************************************************************)
ResponseIsCurrent ==
  [][\A i \in ChanId : chan'[i].sent # chan[i].sent =>
        LET response == chan'[i].buf
            request  == response.request
            snapshot == snapshots'[request.node]
        IN  /\ response.seq = snapshot.seq
            /\ response.version = snapshot.version
            /\ response.version # request.version
            /\ request.names # {} => response.names \subseteq request.names
            /\ Ads \/ request.names = {} =>
                  response.names = snapshot.names[request.type]]_cacheVars

----------------------------------------------------------------------------
(***************************************************************************)
(* No map write overlaps a map read of another goroutine: the cache "must  *)
(* be thread-safe".                                                        *)
(***************************************************************************)
ThreadSafe == ~down
=============================================================================
