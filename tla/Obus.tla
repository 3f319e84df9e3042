------------------------------- MODULE Obus -------------------------------
(***************************************************************************)
(* obus: a gRPC client (obus.js) that pings obus-server, locpick or        *)
(* beacon, and obus-server.js, whose four methods stream in none, either   *)
(* or both directions.                                                     *)
(*                                                                         *)
(* A call is a pair of ordered streams of messages.  The client starts a   *)
(* call and all it writes in one turn, does not wait for the answer, and   *)
(* does the same again two seconds later.  gRPC ends the calls of a server *)
(* that dies, and those for one that is not there, with an error.          *)
(***************************************************************************)
EXTENDS Integers, Sequences

CONSTANTS Calls,       \* the calls that may be open at a time
          Invocations, \* the options the client may be started with
          Uncommented, \* the sets of calls a developer has put back
          ServerEnds,  \* bound on deaths of the servers
          MaxTurns     \* bound on the turns of the client's loop

Options == {"server", "locpick", "beacon", "ping", "info", "tls"}

ASSUME ObusAssumption ==
  /\ Invocations \subseteq SUBSET Options
  /\ Uncommented \subseteq SUBSET {"server", "client", "both"}
  /\ ServerEnds \in Nat /\ MaxTurns \in Nat \ {0}

\* labels: what a client writes to a stream, and the server's stream.
ClientLabels == [client |-> 3, both |-> 2]
ServerLabels == 3

VARIABLES opts,    \* gl.opt.options
          lines,   \* the methods talkServer's loop calls besides ping
          client,  \* "init", "loop", "once" (no loop), "thrown" or "over"
          turns,   \* turns of the loop
          serving, \* do the services that the client may call run?
          ends,    \* deaths of the servers
          call     \* each call

obusVars == <<opts, lines, client, turns, serving, ends, call>>

\* up and down: the messages on their way to the server and to the client;
\* count: requestCount; got: what the client was given; told: how often its
\* callback or the last event of its stream was run.
NoCall == [kind |-> "none", up |-> <<>>, down |-> <<>>, count |-> 0,
           got |-> <<>>, told |-> 0]

StreamKinds == {"server", "client", "both"}
Kinds       == {"none", "ping", "info"} \cup StreamKinds
End         == 0  \* half-close: no more messages
Error       == -1

ObusTypeOK ==
  /\ opts \in Invocations /\ lines \subseteq StreamKinds
  /\ client \in {"init", "loop", "once", "thrown", "over"}
  /\ turns \in 0 .. MaxTurns /\ serving \in BOOLEAN
  /\ \A c \in Calls : call[c].kind \in Kinds /\ call[c].told \in {0, 1}

\* The lines of talkServer's loop that call the streams are commented out,
\* but for those a developer has put back.
ObusInit ==
  /\ opts \in Invocations /\ lines \in Uncommented
  /\ client = "init" /\ turns = 0
  /\ serving \in BOOLEAN /\ ends = 0
  /\ call = [c \in Calls |-> NoCall]

----------------------------------------------------------------------------
\* main(): which service is talked to, and whether in a loop.
Service ==
  IF "server" \in opts THEN "server"
  ELSE IF "locpick" \in opts THEN "locpick"
  ELSE IF "beacon" \in opts THEN "beacon" ELSE "server"

Meth ==
  IF Service # "server" /\ "info" \in opts /\ "ping" \notin opts THEN "info" ELSE "ping"

Written(kind) ==
  IF kind \in {"client", "both"}
  THEN [i \in 1 .. ClientLabels[kind] |-> i] \o <<End>>
  ELSE <<1>>

\* A call, and what is written to it at once.
NewCall(kind) ==
  IF serving THEN [NoCall EXCEPT !.kind = kind, !.up = Written(kind)]
             ELSE [NoCall EXCEPT !.kind = kind, !.down = <<Error>>]

Free == {c \in Calls : call[c].kind = "none" \/ call[c].told = 1}

\* One turn of the client makes a call by each of these methods, in records
\* of calls that are over.
MakeCalls(methods) ==
  LET slots == {by \in [methods -> Free] : \A j, k \in methods : by[j] = by[k] => j = k}
      by    == CHOOSE by \in slots : TRUE
  IN  /\ slots # {}
      /\ call' = [c \in Calls |->
           IF \E k \in methods : by[k] = c
           THEN NewCall(CHOOSE k \in methods : by[k] = c) ELSE call[c]]

Methods == {Meth} \cup (IF Service = "server" THEN lines ELSE {})

\* talkServer, talkLocpick, talkBeacon up to the first calls; with --tls the
\* key files may be missing, and the exception is nowhere caught.
Talk ==
  /\ client = "init"
  /\ turns' = turns + 1
  /\ \/ /\ MakeCalls(Methods)
        /\ client' = IF Meth = "info" THEN "once" ELSE "loop"
     \/ /\ Service = "locpick" /\ "tls" \in opts
        /\ client' = "thrown" /\ UNCHANGED call
  /\ UNCHANGED <<opts, lines, serving, ends>>

\* slp() is over: the next turn, whatever became of the last calls.
Turn ==
  /\ client = "loop" /\ turns < MaxTurns
  /\ turns' = turns + 1
  /\ MakeCalls(Methods)
  /\ UNCHANGED <<opts, lines, client, serving, ends>>

\* Variant with a fault: requestCount is one variable for all calls.
CountedByAll(c) ==
  1 + CHOOSE n \in {call[d].count : d \in Calls} : \A d \in Calls : call[d].count <= n

Counted(c) == call[c].count + 1

\* Variant with a fault: nothing ends the stream when the client's has ended.
AfterEndOpen(k) == IF k.kind = "client" THEN <<k.count, End>> ELSE <<>>

\* What the server's "end" handlers write.
AfterEnd(k) == IF k.kind = "client" THEN <<k.count, End>> ELSE <<End>>

\* The handlers of the server: one message of a call, or all of a unary one.
Handle(c) ==
  LET k   == call[c]
      msg == Head(k.up)
  IN  /\ serving /\ k.up # <<>>
      /\ call' = [call EXCEPT ![c] =
           IF k.kind \in {"ping", "info"}
           THEN [k EXCEPT !.up = <<>>, !.down = <<1, End>>]
           ELSE IF k.kind = "server"
           THEN [k EXCEPT !.up = <<>>, !.down = [i \in 1 .. ServerLabels |-> i] \o <<End>>]
           ELSE IF msg = End
           THEN [k EXCEPT !.up = <<>>, !.down = @ \o AfterEnd(k)]
           ELSE [k EXCEPT !.up = Tail(@), !.count = Counted(c),
                          !.down = IF k.kind = "both" THEN Append(@, Counted(c)) ELSE @]]
      /\ UNCHANGED <<opts, lines, client, turns, serving, ends>>

\* The client's callbacks and stream events.
Told(c) ==
  LET k == call[c]
  IN  /\ k.down # <<>>
      /\ call' = [call EXCEPT ![c] =
           [k EXCEPT !.down = Tail(@),
                     !.got = IF Head(k.down) = End THEN @ ELSE Append(@, Head(k.down)),
                     !.told = IF Head(k.down) \in {End, Error} THEN @ + 1 ELSE @]]
      /\ UNCHANGED <<opts, lines, client, turns, serving, ends>>

\* A process with nothing left to wait for ends.
ClientOver ==
  /\ client = "once" /\ \A c \in Calls : call[c].kind # "none" => call[c].told = 1
  /\ client' = "over"
  /\ UNCHANGED <<opts, lines, turns, serving, ends, call>>

\* Variant with a fault: an error for calls that have ended, too.
HasEndedNever(k) == k.kind = "none"

\* No event is left to come for the call, or its last one is on its way.
HasEnded(k) ==
  k.kind = "none" \/ k.told = 1 \/ (k.down # <<>> /\ k.down[Len(k.down)] \in {End, Error})

\* The server dies: what it had sent is lost or still arrives.
ServerDies ==
  /\ serving /\ ends < ServerEnds
  /\ ends' = ends + 1 /\ serving' = FALSE
  /\ \E lost \in SUBSET {c \in Calls : call[c].down # <<>>} :
        call' = [c \in Calls |->
          IF c \in lost THEN [call[c] EXCEPT !.up = <<>>, !.down = <<Error>>]
          ELSE IF HasEnded(call[c]) THEN call[c]
          ELSE [call[c] EXCEPT !.up = <<>>, !.down = Append(@, Error)]]
  /\ UNCHANGED <<opts, lines, client, turns>>

\* main() of the server.  When the port is taken it starts all the same, and
\* says that it listens: nothing is served.
ServerStarts ==
  /\ ~serving
  /\ \/ serving' = TRUE /\ UNCHANGED ends
     \/ serving' = FALSE /\ ends < ServerEnds /\ ends' = ends + 1
  /\ UNCHANGED <<opts, lines, client, turns, call>>

ObusNext ==
  \/ Talk \/ Turn \/ ClientOver \/ ServerDies \/ ServerStarts
  \/ \E c \in Calls : Handle(c) \/ Told(c)

ObusFairness ==
  /\ WF_obusVars(ClientOver)
  /\ \A c \in Calls : WF_obusVars(Handle(c)) /\ WF_obusVars(Told(c))

ObusSpec == ObusInit /\ [][ObusNext]_obusVars /\ ObusFairness

----------------------------------------------------------------------------
UpTo(n) == [i \in 1 .. n |-> i]

\* What the client is given of a call that has not failed.
Whole(kind) ==
  CASE kind \in {"ping", "info"} -> <<1>>
    [] kind = "server"            -> UpTo(ServerLabels)
    [] kind = "client"            -> <<ClientLabels.client>>
    [] kind = "both"              -> UpTo(ClientLabels.both)

Failed(c) == \E i \in DOMAIN call[c].got : call[c].got[i] = Error

(***************************************************************************)
(* Streams of several calls are not mixed up: what a client is given comes *)
(* in order, and a call that ends without an error has given all of it; a  *)
(* count is of all the messages of its own call, also when the server died *)
(* and came back in between.                                               *)
(***************************************************************************)
AnsweredWhole ==
  \A c \in Calls : call[c].kind # "none" =>
     /\ \A i \in DOMAIN call[c].got :
           call[c].got[i] # Error => i <= Len(Whole(call[c].kind))
                                      /\ call[c].got[i] = Whole(call[c].kind)[i]
     /\ call[c].told = 1 /\ ~Failed(c) => call[c].got = Whole(call[c].kind)

(***************************************************************************)
(* Every call ends with an answer or an error, and a client started with   *)
(* --info ends with it; whenever the server dies.                          *)
(***************************************************************************)
CallsEnd ==
  /\ \A c \in Calls : (call[c].kind # "none") ~> (call[c].told = 1)
  /\ client = "once" ~> client = "over"
=============================================================================
