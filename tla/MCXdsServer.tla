---------------------------- MODULE MCXdsServer ----------------------------
(***************************************************************************)
(* Constant values for model-checking XdsServer.                           *)
(***************************************************************************)
EXTENDS XdsServer

MCCallers == Streams \X Types
MCNonces  == 0 .. MaxNonce

\* Every stream is opened by an Envoy of the node "n".
MCNodeOf == [s \in Streams |-> "n"]

\* Or by Envoys that do not say which node they are.
MCNoNode == [s \in Streams |-> Nil]

\* Streams named "eds" and "rds" have that type, a stream "ads" has none.
MCStreamType == [s \in Streams |-> IF s \in Types THEN s ELSE AnyType]

MCContents == {[t \in Types |-> Names]}

\* Every snapshot holds x; a snapshot may or may not hold y.
MCContentsXY == {[t \in Types |-> {"x"}], [t \in Types |-> {"x", "y"}]}

MCWantAll == {{}}
MCWantXY  == {{"x"}, {"x", "y"}}
MCWantAny == SUBSET Names \ {{}}
=============================================================================
