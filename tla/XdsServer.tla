----------------------------- MODULE XdsServer -----------------------------
(***************************************************************************)
(* The xDS server of pkg/xds over the snapshot cache.  Every gRPC stream   *)
(* has two goroutines: the reader of handler(), which blocks in Recv and   *)
(* hands requests over an unbuffered channel, and process(), which selects *)
(* over that channel and one watch channel per type.  process() calls the  *)
(* cache once to cancel the old watch and once to create the new one, and  *)
(* anything may happen between the two.                                    *)
(*                                                                         *)
(* The caller <<s, t>> of the cache is the (chan, cancel) pair that the    *)
(* watches struct of stream s keeps for type t.  The Envoy at the other    *)
(* end of a stream is outside this repository: it acknowledges or rejects  *)
(* each response, asks again, and goes away when it likes.                 *)
(***************************************************************************)
EXTENDS SnapshotCache

CONSTANTS Streams,       \* gRPC streams
          AnyType,       \* the default type URL of an ADS stream, ""
          StreamType,    \* the default type URL of each stream
          NodeOf,        \* the node each stream's Envoy names in all of its
                         \* requests, or Nil when it names none
          Wanted,        \* sets of names an Envoy may subscribe to
          Loadable,      \* versions of the snapshots that are loaded
          NoVersion,     \* the version "", before anything is accepted
          MayNack,       \* whether Envoys may reject a response
          MayLeave,      \* whether Envoys may go away
          MaxNonce,      \* bound on responses per stream
          MaxAsks,       \* bound on an Envoy's unsolicited requests
          MaxOpens       \* bound on how often a stream is opened again

\* What requests without a node are taken to be from.
Unknown == "unknown"

\* Hasher.ID.
NodeID(s) == IF NodeOf[s] = Nil THEN Unknown ELSE NodeOf[s]

ASSUME XdsAssumption ==
  /\ Callers = Streams \X Types
  /\ AnyType \notin Types
  /\ StreamType \in [Streams -> Types \cup {AnyType}]
  /\ \A s \in Streams : NodeID(s) \in Nodes
  /\ Wanted \subseteq SUBSET Names
  /\ NoVersion \in Versions /\ Loadable \subseteq Versions
  /\ MayNack \in BOOLEAN /\ MayLeave \in BOOLEAN
  /\ MaxNonce \in Nat /\ MaxAsks \in Nat /\ MaxOpens \in Nat
  /\ Nonces = 0 .. MaxNonce

VARIABLES pc,            \* where process() of a stream is
          req,           \* the request it is handling
          streamNonce,   \* its nonce generator
          nonce,         \* values.*Nonce of each type, 0 for ""
          toCancel,      \* the types the deferred Cancel still has to visit
          reader,        \* where the reader goroutine is
          held,          \* the request the reader is handing over
          up,            \* the Envoy has not gone away
          toServer,      \* requests in flight on a stream, in order
          toClient,      \* responses in flight on a stream, in order
          client,        \* what the Envoy has accepted, per stream and type
          asks,          \* unsolicited requests of an Envoy so far
          opens          \* how often a stream was opened

processVars == <<pc, req, streamNonce, nonce, toCancel>>
readerVars  == <<reader, held>>
clientVars  == <<up, client, asks, opens>>
netVars     == <<toServer, toClient>>
xdsVars     == <<processVars, readerVars, clientVars, netVars>>
vars        == <<cacheVars, xdsVars>>

\* A request on the wire: the type URL may be left out.
WireRequest == [type : Types \cup {AnyType}, version : Versions,
                names : SUBSET Names, nonce : Nonces]

\* A response on the wire.  seq is 0 in the empty first response.
WireResponse == [type : Types \cup {AnyType}, version : Versions,
                 names : SUBSET Names, nonce : Nonces, seq : 0 .. MaxSets]

\* version and nonce of the last response, resources and their snapshot.
ClientState == [subscribed : BOOLEAN, version : Versions, nonce : Nonces,
                wants : SUBSET Names, has : SUBSET Names, seq : 0 .. MaxSets]

XdsTypeOK ==
  /\ TypeOK
  /\ pc \in [Streams -> {"idle", "select", "callback", "cancel", "create",
                         "closing", "closed"}]
  /\ req \in [Streams -> {r \in WireRequest : r.type \in Types} \cup {Nil}]
  /\ streamNonce \in [Streams -> Nonces]
  /\ nonce \in [Callers -> Nonces]
  /\ toCancel \in [Streams -> SUBSET Types]
  /\ reader \in [Streams -> {"recv", "send", "closed", "stopped"}]
  /\ held \in [Streams -> WireRequest \cup {Nil}]
  /\ up \in [Streams -> BOOLEAN]
  /\ toServer \in [Streams -> Seq(WireRequest)]
  /\ toClient \in [Streams -> Seq(WireResponse)]
  /\ client \in [Callers -> ClientState]
  /\ asks \in [Streams -> 0 .. MaxAsks]
  /\ opens \in [Streams -> 0 .. MaxOpens]

XdsInit ==
  /\ Init
  /\ pc = [s \in Streams |-> "idle"]
  /\ req = [s \in Streams |-> Nil]
  /\ streamNonce = [s \in Streams |-> 0]
  /\ nonce = [c \in Callers |-> 0]
  /\ toCancel = [s \in Streams |-> {}]
  /\ reader = [s \in Streams |-> "stopped"]
  /\ held = [s \in Streams |-> Nil]
  /\ up = [s \in Streams |-> FALSE]
  /\ toServer = [s \in Streams |-> <<>>]
  /\ toClient = [s \in Streams |-> <<>>]
  /\ client = [c \in Callers |->
                 [subscribed |-> FALSE, version |-> NoVersion, nonce |-> 0,
                  wants |-> {}, has |-> {}, seq |-> 0]]
  /\ asks = [s \in Streams |-> 0]
  /\ opens = [s \in Streams |-> 0]

\* The types a stream carries: its own, or all of them for ADS.
TypesOf(s) == IF StreamType[s] = AnyType THEN Types ELSE {StreamType[s]}

----------------------------------------------------------------------------
(***************************************************************************)
(* process() and the reader.                                               *)
(***************************************************************************)

\* A stream is opened, perhaps by an Envoy that comes back: a reader of its
\* old stream that is stuck in reqCh <- req stays behind.  handler() starts
\* the reader and process(), which sends an empty response at once and drops
\* the nonce that send returns.
Open(s) ==
  /\ ~down
  /\ pc[s] \in {"idle", "closed"} /\ reader[s] \in {"stopped", "send"}
  /\ opens[s] < MaxOpens /\ MaxNonce > 0
  /\ opens' = [opens EXCEPT ![s] = @ + 1]
  /\ pc' = [pc EXCEPT ![s] = "select"]
  /\ req' = [req EXCEPT ![s] = Nil]
  /\ streamNonce' = [streamNonce EXCEPT ![s] = 1]
  /\ nonce' = [c \in Callers |-> IF c[1] = s THEN 0 ELSE nonce[c]]
  /\ toCancel' = [toCancel EXCEPT ![s] = {}]
  /\ reader' = [reader EXCEPT ![s] = "recv"]
  /\ held' = [held EXCEPT ![s] = Nil]
  /\ up' = [up EXCEPT ![s] = TRUE]
  /\ toServer' = [toServer EXCEPT ![s] = <<>>]
  /\ toClient' = [toClient EXCEPT ![s] =
       <<[type |-> StreamType[s], version |-> NoVersion, names |-> {},
          nonce |-> 1, seq |-> 0]>>]
  /\ value' = [c \in Callers |-> IF c[1] = s THEN 0 ELSE value[c]]
  /\ cancel' = [c \in Callers |-> IF c[1] = s THEN Nil ELSE cancel[c]]
  /\ client' = [c \in Callers |->
       IF c[1] = s THEN [client[c] EXCEPT !.subscribed = FALSE, !.nonce = 0]
                   ELSE client[c]]
  /\ UNCHANGED <<snapshots, tracked, watches, watchCount, setCount, calls,
                 chan, reading, down, asks>>

\* process() returns: the deferred Cancel visits the types that hold one.
Return(s) ==
  /\ pc' = [pc EXCEPT ![s] = "closing"]
  /\ toCancel' = [toCancel EXCEPT ![s] =
                    {t \in Types : cancel[<<s, t>>] # Nil}]

\* case resp := <-values.<type>: send it under the next nonce.
SelectResponse(s, t) ==
  LET response == chan[value[<<s, t>>]].buf
      n        == streamNonce[s] + 1
  IN  /\ pc[s] = "select"
      /\ Receive(<<s, t>>)
      /\ n <= MaxNonce
      /\ streamNonce' = [streamNonce EXCEPT ![s] = n]
      /\ \/ /\ toClient' = [toClient EXCEPT ![s] = Append(@,
                  [type |-> t, version |-> response.version,
                   names |-> response.names, nonce |-> n,
                   seq |-> response.seq])]
            /\ nonce' = [nonce EXCEPT ![<<s, t>>] = n]
            /\ UNCHANGED <<pc, toCancel>>
         \/ /\ ~up[s]               \* stream.Send fails
            /\ Return(s)
            /\ UNCHANGED <<toClient, nonce>>
      /\ UNCHANGED <<req, readerVars, clientVars, toServer>>

\* Variant with a fault: the type URL is taken as it comes.
TypeURLAsIs(s, url) == url

\* A request without a type URL is for the type of its stream.
TypeURL(s, url) == IF url = AnyType THEN StreamType[s] ELSE url

\* case req := <-reqCh: the reader hands over a request.
SelectRequest(s) ==
  LET r == held[s]
  IN  /\ ~down
      /\ pc[s] = "select" /\ reader[s] = "send"
      /\ reader' = [reader EXCEPT ![s] = "recv"]
      /\ held' = [held EXCEPT ![s] = Nil]
      /\ IF StreamType[s] = AnyType /\ r.type = AnyType
         THEN Return(s) /\ UNCHANGED req
         ELSE /\ pc' = [pc EXCEPT ![s] = "callback"]
              /\ req' = [req EXCEPT ![s] = [r EXCEPT !.type = TypeURL(s, @)]]
              /\ UNCHANGED toCancel
      /\ UNCHANGED <<cacheVars, streamNonce, nonce, clientVars, netVars>>

\* case req, more := <-reqCh with the channel closed by the reader.
SelectClosed(s) ==
  /\ ~down
  /\ pc[s] = "select" /\ reader[s] = "closed"
  /\ Return(s)
  /\ UNCHANGED <<cacheVars, req, streamNonce, nonce, readerVars, clientVars,
                 netVars>>

\* Variants with a fault: the nonce is not looked at; a type that was not
\* answered yet is not let pass.
FreshNonceAlways(s, r) == TRUE

FreshNonceEqual(s, r) == nonce[<<s, r.type>>] = r.nonce

\* A request is stale when it answers another response than the last one.
FreshNonce(s, r) == nonce[<<s, r.type>>] \in {0, r.nonce}

\* Variant with a fault: the old watch is not cancelled.
AfterCallbackNoCancel(s) ==
  IF FreshNonce(s, req[s]) THEN "create" ELSE "select"

\* A stale request is dropped; the old watch is cancelled if there is one.
AfterCallback(s) ==
  IF ~FreshNonce(s, req[s]) THEN "select"
  ELSE IF cancel[<<s, req[s].type>>] = Nil THEN "create"
  ELSE "cancel"

\* OnStreamRequest returns, and the nonce is looked at.
CallbackReturns(s) ==
  /\ ~down
  /\ pc[s] = "callback"
  /\ pc' = [pc EXCEPT ![s] = AfterCallback(s)]
  /\ UNCHANGED <<cacheVars, req, streamNonce, nonce, toCancel, readerVars,
                 clientVars, netVars>>

CancelOld(s) ==
  /\ pc[s] = "cancel"
  /\ CancelWatch(<<s, req[s].type>>)
  /\ pc' = [pc EXCEPT ![s] = "create"]
  /\ UNCHANGED <<req, streamNonce, nonce, toCancel, readerVars, clientVars,
                 netVars>>

\* Variant with a fault: the request is taken for one of some other node.
RequestOfOther(s, r) ==
  [node |-> CHOOSE n \in Nodes : n # NodeID(s), type |-> r.type,
   version |-> r.version, names |-> r.names, nonce |-> r.nonce]

\* The request as the cache sees it: for the node that sent it.
RequestOf(s, r) ==
  [node |-> NodeID(s), type |-> r.type, version |-> r.version,
   names |-> r.names, nonce |-> r.nonce]

CreateNew(s) ==
  LET r == req[s]
  IN  /\ pc[s] = "create"
      /\ CreateWatch(<<s, r.type>>, RequestOf(s, r))
      /\ pc' = [pc EXCEPT ![s] = "select"]
      /\ req' = [req EXCEPT ![s] = Nil]
      /\ UNCHANGED <<streamNonce, nonce, toCancel, readerVars, clientVars,
                     netVars>>

\* The deferred Cancel, one cancel function after the other.
CloseCancel(s, t) ==
  /\ pc[s] = "closing" /\ t \in toCancel[s]
  /\ CancelWatch(<<s, t>>)
  /\ toCancel' = [toCancel EXCEPT ![s] = @ \ {t}]
  /\ UNCHANGED <<pc, req, streamNonce, nonce, readerVars, clientVars, netVars>>

\* OnStreamClosed, then handler() sets reqStop and returns.
Close(s) ==
  /\ ~down
  /\ pc[s] = "closing" /\ toCancel[s] = {}
  /\ pc' = [pc EXCEPT ![s] = "closed"]
  /\ UNCHANGED <<cacheVars, req, streamNonce, nonce, toCancel, readerVars,
                 clientVars, netVars>>

\* Recv returns a request: dropped when reqStop is set.
ReaderRecv(s) ==
  /\ ~down
  /\ reader[s] = "recv" /\ toServer[s] # <<>>
  /\ toServer' = [toServer EXCEPT ![s] = Tail(@)]
  /\ IF pc[s] = "closed"
     THEN reader' = [reader EXCEPT ![s] = "stopped"] /\ UNCHANGED held
     ELSE /\ reader' = [reader EXCEPT ![s] = "send"]
          /\ held' = [held EXCEPT ![s] = Head(toServer[s])]
  /\ UNCHANGED <<cacheVars, processVars, clientVars, toClient>>

\* Recv fails: the Envoy went away, or the handler has returned.
ReaderError(s) ==
  /\ ~down
  /\ reader[s] = "recv" /\ (~up[s] \/ pc[s] = "closed")
  /\ reader' = [reader EXCEPT ![s] =
                  IF pc[s] = "closed" THEN "stopped" ELSE "closed"]
  /\ UNCHANGED <<cacheVars, processVars, held, clientVars, netVars>>

\* A reader that closed reqCh has returned; its stream can be reopened.
ReaderReturns(s) ==
  /\ reader[s] = "closed" /\ pc[s] = "closed"
  /\ reader' = [reader EXCEPT ![s] = "stopped"]
  /\ UNCHANGED <<cacheVars, processVars, held, clientVars, netVars>>

----------------------------------------------------------------------------
(***************************************************************************)
(* The Envoys.                                                             *)
(***************************************************************************)
Ask(s, url, version, names, n) ==
  toServer' = [toServer EXCEPT ![s] = Append(@,
                 [type |-> url, version |-> version, names |-> names,
                  nonce |-> n])]

\* The first request for a type, or one for other names.  The type URL may
\* be left out, which an ADS stream does not accept.
Subscribe(s, t, url, names) ==
  LET c == client[<<s, t>>]
  IN  /\ up[s] /\ asks[s] < MaxAsks
      /\ url \in {t, AnyType}
      /\ names # c.wants \/ ~c.subscribed
      /\ asks' = [asks EXCEPT ![s] = @ + 1]
      /\ Ask(s, url, c.version, names, c.nonce)
      /\ client' = [client EXCEPT ![<<s, t>>].wants = names,
                                  ![<<s, t>>].subscribed = TRUE]
      /\ UNCHANGED <<cacheVars, processVars, readerVars, up, opens, toClient>>

\* The next response is accepted: its version and nonce are sent back.  A
\* response without resources is accepted and changes nothing.
Ack(s, t) ==
  LET r == Head(toClient[s])
      c == client[<<s, t>>]
  IN  /\ up[s] /\ toClient[s] # <<>>
      /\ r.type = t /\ c.subscribed
      /\ toClient' = [toClient EXCEPT ![s] = Tail(@)]
      /\ client' = [client EXCEPT ![<<s, t>>] =
           [c EXCEPT !.version = r.version, !.nonce = r.nonce,
                     !.seq = IF r.seq = 0 THEN @ ELSE r.seq,
                     !.has = IF r.seq = 0 THEN @ ELSE r.names]]
      /\ Ask(s, t, r.version, c.wants, r.nonce)
      /\ UNCHANGED <<cacheVars, processVars, readerVars, up, asks, opens>>

\* The next response is rejected: the nonce goes back with the old version.
Nack(s, t) ==
  LET r == Head(toClient[s])
      c == client[<<s, t>>]
  IN  /\ MayNack
      /\ up[s] /\ toClient[s] # <<>>
      /\ r.type = t /\ c.subscribed
      /\ toClient' = [toClient EXCEPT ![s] = Tail(@)]
      /\ client' = [client EXCEPT ![<<s, t>>].nonce = r.nonce]
      /\ Ask(s, t, c.version, c.wants, r.nonce)
      /\ UNCHANGED <<cacheVars, processVars, readerVars, up, asks, opens>>

\* A response of a type nobody subscribed to, or of none, is dropped.
Ignore(s) ==
  /\ up[s] /\ toClient[s] # <<>>
  /\ LET type == Head(toClient[s]).type
     IN  type \in Types => ~client[<<s, type>>].subscribed
  /\ toClient' = [toClient EXCEPT ![s] = Tail(@)]
  /\ UNCHANGED <<cacheVars, processVars, readerVars, clientVars, toServer>>

Disconnect(s) ==
  /\ MayLeave /\ up[s]
  /\ up' = [up EXCEPT ![s] = FALSE]
  /\ UNCHANGED <<cacheVars, processVars, readerVars, client, asks, opens,
                 netVars>>

----------------------------------------------------------------------------
\* The control plane loads a snapshot.
Load == \E n \in Nodes, v \in Loadable, names \in Contents :
          SetSnapshot(n, v, names) /\ UNCHANGED xdsVars

\* The steps of process() but for the return from the callback.
ProcessOwn(s) ==
  \/ \E t \in Types : SelectResponse(s, t) \/ CloseCancel(s, t)
  \/ SelectRequest(s) \/ SelectClosed(s)
  \/ CancelOld(s) \/ CreateNew(s)
  \/ Close(s)

Process(s) == ProcessOwn(s) \/ CallbackReturns(s)

Reader(s) == ReaderRecv(s) \/ ReaderError(s) \/ ReaderReturns(s)

Envoy(s) ==
  \/ \E t \in TypesOf(s), url \in Types \cup {AnyType}, names \in Wanted :
        Subscribe(s, t, url, names)
  \/ \E t \in TypesOf(s) : Ack(s, t) \/ Nack(s, t)
  \/ Ignore(s)
  \/ Disconnect(s)

XdsNext ==
  \/ Load
  \/ \E s \in Streams : Open(s) \/ Process(s) \/ Reader(s) \/ Envoy(s)

XdsSpec == XdsInit /\ [][XdsNext]_vars

\* Goroutines are scheduled and a connected Envoy answers what it receives;
\* nobody has to connect, subscribe, load or leave.
Fairness ==
  \A s \in Streams :
     /\ WF_vars(Process(s))
     /\ WF_vars(Reader(s))
     /\ WF_vars(Ignore(s) \/ \E t \in TypesOf(s) : Ack(s, t))

FairSpec == XdsSpec /\ Fairness

----------------------------------------------------------------------------
(***************************************************************************)
(* Every open watch feeds the channel that the process() of its stream     *)
(* selects on now: a watch whose channel was replaced is gone, so no watch *)
(* is leaked and no response is put where nobody looks.  When process()     *)
(* has returned, by whatever path, its stream has none left in the cache.  *)
(***************************************************************************)
NoDanglingWatch ==
  \A w \in OpenWatches : w.chan = value[w.owner] /\ pc[w.owner[1]] # "closed"

(***************************************************************************)
(* A request that answers an old response never replaces the watch of the  *)
(* newer one: an open watch was asked for in answer to the last response   *)
(* of its type on the stream ("the server ignores stale nonces").          *)
(***************************************************************************)
WatchAnswersLatest ==
  \A w \in OpenWatches : nonce[w.owner] \in {0, w.request.nonce}

(***************************************************************************)
(* process() never waits on a channel that nobody will send to: while it   *)
(* selects on a channel that was not answered, the cache holds the watch.  *)
(* (Not in ADS mode, where an incomplete request is dropped by design.)    *)
(***************************************************************************)
WaiterNotForgotten ==
  \A s \in Streams, t \in Types :
     LET i == value[<<s, t>>]
     IN  /\ pc[s] \in {"select", "callback", "cancel"}
         /\ pc[s] = "cancel" => req[s].type # t
         /\ i # 0
         => chan[i].sent = 1 \/ \E w \in watches[NodeID(s)] : w.chan = i

(***************************************************************************)
(* The server implements ConfigPush: whatever the interleaving of loads,   *)
(* cancels, acknowledgements and reconnections, an Envoy's configuration   *)
(* was published for its node and is never replaced by an older one.       *)
(***************************************************************************)
Push == INSTANCE ConfigPush WITH
          Subscribers <- Callers,
          NodeOf      <- [c \in Callers |-> NodeID(c[1])],
          published   <- [n \in Nodes |-> IF snapshots[n] = Nil THEN 0
                                          ELSE snapshots[n].seq],
          seen        <- [c \in Callers |-> client[c].seq]

InOrder == Push!PushSpec

\* The Envoy of c has the version its node's snapshot has.
Current(c) ==
  LET n == NodeID(c[1])
  IN  snapshots[n] # Nil => client[c].version = snapshots[n].version

Connected(c) == up[c[1]] /\ client[c].subscribed

(***************************************************************************)
(* An Envoy that stays connected and accepts what it is sent ends with the *)
(* version of the last snapshot of its node: no snapshot is lost between a *)
(* cancel and the next watch, in a replaced channel, or to a stale nonce.  *)
(***************************************************************************)
Convergence ==
  \A c \in Callers : <>[]Connected(c) => <>[]Current(c)

(***************************************************************************)
(* "Value channel produces requested resources, once they are available":  *)
(* an Envoy that stays connected ends with all the resources it asks for   *)
(* that its node's snapshot has.                                           *)
(***************************************************************************)
Served(c) ==
  LET n == NodeID(c[1])
  IN  snapshots[n] # Nil =>
        (client[c].wants \cap snapshots[n].names[c[2]]) \subseteq client[c].has

RequestedAreProduced ==
  \A c \in Callers : <>[]Connected(c) => <>[]Served(c)
=============================================================================
