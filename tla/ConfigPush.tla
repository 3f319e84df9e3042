----------------------------- MODULE ConfigPush ----------------------------
(***************************************************************************)
(* What the control plane promises an Envoy, without watches, nonces or    *)
(* streams: configurations of a node are published one after the other,    *)
(* and what a subscriber holds was published for its node and is never     *)
(* replaced by an older one.                                               *)
(***************************************************************************)
EXTENDS Naturals

CONSTANTS Nodes,        \* the nodes that configurations are published for
          Subscribers,  \* those that receive them
          NodeOf        \* the node of each subscriber, a function

VARIABLES published,    \* the number of a node's last configuration, or 0
          seen          \* the number of the one a subscriber holds, or 0

pushVars == <<published, seen>>

PushInit ==
  /\ published = [n \in Nodes |-> 0]
  /\ seen = [c \in Subscribers |-> 0]

Publish(n) ==
  /\ published'[n] > published[n]
  /\ published' = [published EXCEPT ![n] = published'[n]]
  /\ UNCHANGED seen

Deliver(c) ==
  /\ seen'[c] \in seen[c] .. published[NodeOf[c]]
  /\ seen' = [seen EXCEPT ![c] = seen'[c]]
  /\ UNCHANGED published

PushNext ==
  \/ \E n \in Nodes : Publish(n)
  \/ \E c \in Subscribers : Deliver(c)

PushSpec == PushInit /\ [][PushNext]_pushVars
=============================================================================
