---------------------------- MODULE MCPublisher ----------------------------
(* Instances of Publisher for TLC: two entities with different object ids.  *)
EXTENDS Publisher, TLC

CONSTANTS e1, e2, t1, t2

MCEntity == {e1, e2}
MCTopic == {t1, t2}
MCTopicOf == (e1 :> t1) @@ (e2 :> t2)

OneEntity == {e1}
OneTopicOf == (e1 :> t1)
=============================================================================
