\* Agents of every shape, a connection that is lost anywhere: what is copied,
\* and that the registration of a sound agent ends.
CONSTANTS
    NoNode = NoNode
    Overflow = Overflow
    NullString = NullString
    Garbage = Garbage
    Agents <- AllAgents
    Mappings <- EntryMappings
    LocalUris <- RegistryUris
    LocalObjectTypes <- RegistryObjectTypes
    LocalDataTypes <- RegistryDataTypes
    LocalStructures <- RegistryStructures
    StackDepth = 8
SPECIFICATION Spec
INVARIANTS TypeOK MirrorWithinImage CalledOnItsObject EntryOnPath HandedOverOnce KeptInItsMode NamesMeanTheSame
PROPERTIES RegistrationEnds
