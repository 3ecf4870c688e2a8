SPECIFICATION Spec
CONSTANTS
  a = a  b = b
  None = None
  Instance = {a, b}
  Entity <- MCEntity
  EntityId <- MCEntityId
  ClassOf <- MCClassOf
  ValuesOf <- MCValuesOf
  Names <- MCNames
  SlugOf <- MCSlugOf
  WordsOf <- MCWordsOf
  SensorDeviceClass = {"power", "illuminance"}
  Prefixes <- MCPrefixes
  ValuePrefix <- MCValuePrefix
  Configured <- MCConfigured
  Heritage <- MCHeritage
  Caretaker = {b}
  Reconfigurable = {a}
  Heartbeat = {a}
  Unsteady = {a, b}
  Numbers = {"21"}
  MaxInbox = 1
INVARIANT
  ReadsSourceStates
CHECK_DEADLOCK FALSE
