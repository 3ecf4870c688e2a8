-------------------------- MODULE MCRemoteEntities --------------------------
(* Instances of RemoteEntities for TLC: two bridges, two entities of the    *)
(* first and one of the second, each with a discovery topic of its own.     *)
EXTENDS RemoteEntities, TLC

CONSTANTS u1, u2, u3, b1, b2, t1, t2, t3

MCUid == {u1, u2, u3}
MCBridge == {b1, b2}
MCTopic == {t1, t2, t3}
MCBridgeOf == (u1 :> b1) @@ (u2 :> b1) @@ (u3 :> b2)
MCTopicOf == (u1 :> t1) @@ (u2 :> t2) @@ (u3 :> t3)

\* Both entities of one bridge.
PairUid == {u1, u2}
PairTopic == {t1, t2}
PairBridgeOf == (u1 :> b1) @@ (u2 :> b1)
PairTopicOf == (u1 :> t1) @@ (u2 :> t2)

\* A single entity and its bridge.
OneUid == {u1}
OneBridgeOf == (u1 :> b1)
OneTopicOf == (u1 :> t1)

\* Entities of two bridges with one object id, hence one discovery topic.
SharedUid == {u1, u3}
SharedBridgeOf == (u1 :> b1) @@ (u3 :> b2)
SharedTopicOf == (u1 :> t1) @@ (u3 :> t1)

CONSTANTS h1, h2
Symmetry == Permutations({h1, h2})
=============================================================================
