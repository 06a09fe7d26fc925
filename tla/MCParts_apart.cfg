\* The parts that share no state, one at a time: each may end where it is done.
CONSTANTS
    a = a
    b = b
    c = c
    Types = {a, b, c}
    Schemas <- MCSchemas
    NoSchema = NoSchema
    NoType = NoType
    bob = bob
    Requests = {r1, r2}
    Others = {app}
    Deliveries <- MCDeliveries
    Self = me
    NoUser = nobody
    Users = {me, bob, nobody}
    NoCaller = NoCaller
    MaxDrift = 1
    yml = yml
    json = json
    own = own
    Paths = {yml, json, own}
    DefaultPaths <- MCDefaultPaths
    Hint <- MCHint
    port = port
    Settings = {port}
    v1 = v1
    v2 = v2
    Values = {v1, v2}
    Zero = Zero
    Default <- MCDefault
    openai = openai
    azure = azure
    Names = {openai, azure, own}
    fast = fast
    Models = {fast}
    Unset = Unset
    Supported = {openai, azure}
    Worlds <- MCWorlds
    Nothing <- MCNothing
    Strings <- MCStrings
    Lower <- MCLower
    Trim <- MCTrim
    Contains <- MCContains
    HasPrefix <- MCHasPrefix
    FirstWord <- MCFirstWord
    Updates <- MCUpdates
    Registrations <- MCRegistrations
    Handlers <- MCHandlers
    Engines = {e1, e2}
    NoHandler = NoHandler
    MaxCalls = 3
    B = 8
CHECK_DEADLOCK FALSE
SPECIFICATION Spec
INVARIANTS
    TypeOK
    SensitiveMasked
    IndexSound
    FilteredExactly
    OneFetch
    LayersInOrder
    EveryModelResolves
    RoutedByPriority
    IdsFaithful
PROPERTIES
    RegistrationsLocal
    ScanEnds
    RequestsAnswered
