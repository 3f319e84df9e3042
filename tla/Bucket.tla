------------------------------- MODULE Bucket -------------------------------
(***************************************************************************)
(* The bucket of pkg/bucket: what an operator posts, and the snapshot that *)
(* bucket.GetSnapshot makes of it.                                         *)
(***************************************************************************)
EXTENDS Naturals, Sequences

CONSTANTS EndpointType,  \* the resource type of cluster load assignments
          RouteType,     \* the resource type of route configurations
          BucketNodes,   \* the nodes a bucket may list
          ItemNames,     \* cluster and route names
          BucketVersions \* version strings

\* An endpoint item names a cluster and lists hosts; a route item is looked
\* at only in the first route of its first virtual host, if it has any.
EndpointItem == [name : ItemNames, hosts : Nat]
RouteItem ==
  [name : ItemNames, first : {"direct", "weighted", "neither", "empty"}]

Bucket ==
  [nodes     : Seq(BucketNodes),
   endpoints : [version : BucketVersions, items : SUBSET EndpointItem],
   routes    : [version : BucketVersions, items : SUBSET RouteItem]]

\* The endpoints' version is the version of every type: that of the routes
\* is not read.
SnapshotVersion(bucket) == bucket.endpoints.version

\* GetSnapshot indexes VirtualHosts[0].Routes[0] of every route item.
Panics(bucket) == \E i \in bucket.routes.items : i.first = "empty"

\* One assignment per host, so none for a cluster without hosts; a route
\* that is neither direct nor weighted is skipped; no clusters, listeners.
SnapshotNames(bucket, type) ==
  CASE type = EndpointType ->
         {i.name : i \in {j \in bucket.endpoints.items : j.hosts > 0}}
    [] type = RouteType ->
         {i.name : i \in {j \in bucket.routes.items :
                               j.first \in {"direct", "weighted"}}}
    [] OTHER -> {}
=============================================================================
