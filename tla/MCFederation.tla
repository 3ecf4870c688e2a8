---------------------------- MODULE MCFederation ----------------------------
(* Instances of Federation for TLC: a bridges entities, b receives, and the *)
(* broker retains what an earlier version of a left there, under the older  *)
(* unique ids and without a bridge id, for an entity that is gone.          *)
EXTENDS Federation, TLC

CONSTANTS a, b

power == <<"sensor", "power">>
light == <<"binary_sensor", "hall_light">>
quiet == <<"sensor", "quiet">>
attic == <<"sensor", "attic">>

MCEntity == (a :> {power, light}) @@ (b :> {quiet})
MCEntityId == {power, light, attic, quiet}
MCClassOf == (power :> "power") @@ (light :> "light") @@ (quiet :> None)
MCValuesOf == (power :> {"unavailable"}) @@ (light :> {"on"}) @@ (quiet :> {}) @@ (attic :> {})
MCNames == (a :> {"A"}) @@ (b :> {"B"})
MCSlugOf == ("A" :> "a") @@ ("B" :> "b")
MCWordsOf == ("power" :> {"power"}) @@ ("hall_light" :> {"hall", "light"})
             @@ ("quiet" :> {"quiet"}) @@ ("attic" :> {"attic"})
MCPrefixes == {<<"share">>}
MCValuePrefix == <<"value", "">>
MCPrefix == normalize_prefix(<<"share">>)
MCConfigured == (a :> Entry("A", <<"share">>, {power})) @@ (b :> Entry("B", <<"share">>, {quiet}))

Older(slug, e, bridge) ==
  Message(DiscoveryTopic(MCPrefix, e),
          [build_discovery_payload(e, None, slug, MCValuePrefix) EXCEPT
             !.unique_id = <<slug, ".", e>>, !.bridge_id = bridge])
MCHeritage == {Older("a", attic, None)}

\* The instances meet what the theorems presuppose.
ASSUME Presupposed ==
  KeepsName /\ DistinctNames /\ DistinctObjects /\ Apart /\ OneUidPerTopic /\ TrueClasses
=============================================================================
