SPECIFICATION FairSpec
CONSTANTS
  a = a  b = b
  None = None
  Instance = {a, b}
  Entity <- MCEntity
  EntityId <- MCEntityId
  ClassOf <- MCClassOf
  ValuesOf <- MCValuesOf
  Names <- MCNames
  SlugOf <- MCSlugOf
  WordsOf <- MCWordsOf
  SensorDeviceClass = {"power", "illuminance"}
  Prefixes <- MCPrefixes
  ValuePrefix <- MCValuePrefix
  Configured <- MCConfigured
  Heritage <- MCHeritage
  Caretaker = {b}
  Reconfigurable = {a}
  Heartbeat = {a}
  Unsteady = {b}
  Numbers = {"21"}
  MaxInbox = 1
INVARIANTS
  TypeOK
  NoSelf
  Mirrors
  DeadStaysDead
  NumericSafe
PROPERTY
  PeersFollow
CHECK_DEADLOCK FALSE
