\* Redeliveries, clicks and a slow handler around the ends of TTL and window.
CONSTANTS
    agent = agent
    alice = alice
    m1 = m1
    m2 = m2
    m3 = m3
    text = text
    chatter = chatter
    click1 = click1
    click2 = click2
    reminder = reminder
    g1 = g1
    g2 = g2
    NoMessage = NoMessage
    Events = {text, chatter, click1, reminder}
    Info <- MCInfo
    SelfId = agent
    Users = {agent, alice}
    Messages = {m1, m2, m3}
    Slots = {g1, g2}
    Deadline = 1
    Ttl = 2
    MaxSize = 1
    Rate = 2
    Window = 1
    MaxTime = 4
SYMMETRY SlotSymmetry
SPECIFICATION Spec
INVARIANTS
    TypeOK
    OneHandlerPerMessage
    BurstBounded
    BucketExact
    DenialJustified
PROPERTIES
    PassesApart
    GrowsOnlyWithLive
