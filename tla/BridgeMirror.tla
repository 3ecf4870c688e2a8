---------------------------- MODULE BridgeMirror ----------------------------
(***************************************************************************)
(* What the receiving side promises to whoever looks at Home Assistant:    *)
(* the remote entities that are announced and not withdrawn are shown, and *)
(* the registry remembers what was shown until it is withdrawn or its      *)
(* bridge depublished.  Topics, subscriptions, counts and coroutines do    *)
(* not occur; an announcement and the moment it shows are two steps.       *)
(***************************************************************************)
CONSTANT Uid  \* unique ids of federated entities

VARIABLES
  up,         \* the integration is running
  announced,  \* entities announced and not withdrawn since it runs
  shown,      \* entities with a state in Home Assistant
  remembered  \* entities in the entity registry; survives a restart

view == <<up, announced, shown, remembered>>

Init == ~up /\ announced = {} /\ shown = {} /\ remembered = {}

Start == ~up /\ up' = TRUE /\ UNCHANGED <<announced, shown, remembered>>

\* An unload or a crash: everything disappears, nothing is forgotten.
Stop ==
  /\ up /\ up' = FALSE
  /\ announced' = {} /\ shown' = {}
  /\ UNCHANGED remembered

Announce(u) ==
  /\ up /\ u \notin announced \cup shown
  /\ announced' = announced \cup {u}
  /\ UNCHANGED <<up, shown, remembered>>

Show(u) ==
  /\ up /\ u \in announced \ shown
  /\ shown' = shown \cup {u} /\ remembered' = remembered \cup {u}
  /\ UNCHANGED <<up, announced>>

Withdraw(u) ==
  /\ up /\ u \in announced \cap shown
  /\ announced' = announced \ {u}
  /\ UNCHANGED <<up, shown, remembered>>

Hide(u) ==
  /\ up /\ u \in shown \ announced
  /\ shown' = shown \ {u} /\ remembered' = remembered \ {u}
  /\ UNCHANGED <<up, announced>>

\* Registry entries go only when nothing is shown for them.
Forget(S) ==
  /\ S \cap (announced \cup shown) = {}
  /\ remembered' = remembered \ S
  /\ UNCHANGED <<up, announced, shown>>

Next ==
  \/ Start \/ Stop
  \/ \E u \in Uid : Announce(u) \/ Show(u) \/ Withdraw(u) \/ Hide(u)
  \/ \E S \in SUBSET Uid : Forget(S)

Spec == Init /\ [][Next]_view

FairSpec == Spec /\ \A u \in Uid : WF_view(Show(u)) /\ WF_view(Hide(u))
=============================================================================
