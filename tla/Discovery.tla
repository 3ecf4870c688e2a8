----------------------------- MODULE Discovery -----------------------------
(***************************************************************************)
(* The wire protocol of Saulach: discovery.py, const.py and the parts of   *)
(* the legacy adapter that only compute.                                   *)
(*                                                                         *)
(* Strings are kept as the parts the functions take them apart into: a     *)
(* topic or prefix is the sequence of its segments (a trailing slash is an *)
(* empty last segment), an entity id is <<domain, object_id>>, a unique id *)
(* is <<slug, separator, rest>> where rest is an entity id or, for a       *)
(* diagnostic entity, <<name>>.  An object id is a name; WordsOf gives the *)
(* words between its underscores, which is what the patterns look at.      *)
(*                                                                         *)
(* Abstracted: display names, units, versions and timestamps in payloads.  *)
(***************************************************************************)
EXTENDS Sequences, Integers

CONSTANTS
  None,     \* absence of a value
  SlugOf,   \* bridge name to slug; "" when no character survives
  WordsOf,  \* object id to the words between its underscores
  SensorDeviceClass \* the device classes Home Assistant knows for sensors

slugify_bridge_name(name) == SlugOf[name]

object_id_from_entity_id(e) == e[Len(e)]
domain_from_entity_id(e) == e[1]

normalize_prefix(p) == IF Len(p) > 1 /\ p[Len(p)] = "" THEN p ELSE Append(p, "")

(***************************************************************************)
(* Topics                                                                  *)
(***************************************************************************)
\* A normalised prefix followed by segments, and what follows it in a topic.
Under(prefix, segments) == SubSeq(prefix, 1, Len(prefix) - 1) \o segments

StartsWith(topic, prefix) ==
  /\ Len(topic) >= Len(prefix)
  /\ SubSeq(topic, 1, Len(prefix) - 1) = SubSeq(prefix, 1, Len(prefix) - 1)

Remainder(topic, prefix) == SubSeq(topic, Len(prefix), Len(topic))

DiscoveryTopic(prefix, e) ==
  Under(prefix, <<"sensor", object_id_from_entity_id(e), "config">>)
StateTopic(prefix, e) == Under(prefix, <<"sensor", object_id_from_entity_id(e)>>)
MetadataTopic(prefix, slug) == Under(prefix, <<"bridge", slug, "metadata">>)

\* The two subscriptions {prefix}+/+/config and {prefix}bridge/+/metadata.
topics_to_subscribe(topic, prefix) ==
  /\ StartsWith(topic, prefix) /\ Len(Remainder(topic, prefix)) = 3
  /\ LET parts == Remainder(topic, prefix)
     IN parts[3] = "config" \/ (parts[1] = "bridge" /\ parts[3] = "metadata")

parse_metadata_topic(topic, prefix) ==
  LET parts == Remainder(topic, prefix) IN
  IF /\ StartsWith(topic, prefix) /\ Len(parts) = 3
     /\ parts[1] = "bridge" /\ parts[3] = "metadata"
    THEN parts[2] ELSE None

parse_federation_topic(topic, prefix) ==
  LET parts == Remainder(topic, prefix) IN
  IF StartsWith(topic, prefix) /\ Len(parts) >= 3 THEN <<parts[1], parts[2]>> ELSE None

(***************************************************************************)
(* Unique ids                                                              *)
(***************************************************************************)
DomainUnchecked(uid) == "sensor"                       \* mutant: trust the payload
domain_from_unique_id(uid) ==
  IF uid[2] = "::" THEN domain_from_entity_id(uid[3]) ELSE None

\* Only the current convention, as before the bugfix PROTOCOL.md 5c tells of.
EntityIdCurrentOnly(uid, slug) ==                      \* mutant
  IF uid[1] = slug /\ uid[2] = "::" THEN uid[3] ELSE None

entity_id_from_unique_id(uid, slug) ==
  IF uid[1] = slug /\ uid[2] \in {"::", "."} THEN uid[3] ELSE None

\* Mutant: the older convention is forgotten.
OwnCurrentOnly(payload, slug) ==
  \/ payload.bridge_id = slug
  \/ payload.unique_id[1] = slug /\ payload.unique_id[2] = "::"

\* Mutant: the older convention is matched without the slug.
OwnAnySlug(payload, slug) ==
  \/ payload.bridge_id = slug
  \/ payload.unique_id[1] = slug /\ payload.unique_id[2] = "::"
  \/ payload.unique_id[2] = "."

is_own_message(payload, slug) ==
  \/ payload.bridge_id = slug
  \/ payload.unique_id[1] = slug /\ payload.unique_id[2] \in {"::", "."}

(***************************************************************************)
(* Payloads                                                                *)
(***************************************************************************)
DEVICE_CLASS_PATTERNS == <<
  <<"temperature", "temperature">>, <<"humidity", "humidity">>,
  <<"pressure", "pressure">>, <<"power", "power">>, <<"energy", "energy">>,
  <<"current", "current">>, <<"voltage", "voltage">>, <<"light", "illuminance">> >>

\* The entity's own class, else that of the first pattern found in its id.
resolve_device_class(object_id, device_class) ==
  LET hits == {i \in DOMAIN DEVICE_CLASS_PATTERNS :
                 DEVICE_CLASS_PATTERNS[i][1] \in WordsOf[object_id]}
  IN IF device_class # None \/ hits = {} THEN device_class
     ELSE DEVICE_CLASS_PATTERNS[CHOOSE i \in hits : \A j \in hits : i <= j][2]

\* publish_own_entity: a class is forwarded from the sensor domain only.
ForwardedClass(e, device_class) ==
  IF domain_from_entity_id(e) = "sensor" /\ device_class \in SensorDeviceClass
    THEN device_class ELSE None

build_discovery_payload(e, device_class, slug, valuePrefix) ==
  [unique_id    |-> <<slug, "::", e>>,
   state_topic  |-> StateTopic(valuePrefix, e),
   device_class |-> resolve_device_class(object_id_from_entity_id(e),
                                         ForwardedClass(e, device_class)),
   bridge_id    |-> slug,
   device       |-> slug]

build_metadata_payload(slug, entity_count) ==
  [bridge_id |-> slug, entity_count |-> entity_count]

\* BridgedSensorEntity.set_native_value: the sentinels are not readings.
set_native_value(v) ==
  [native |-> IF v \in {"unavailable", "unknown"} THEN None ELSE v,
   available |-> v # "unavailable"]
=============================================================================
