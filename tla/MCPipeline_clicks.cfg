\* Two clicks on one card.
CONSTANTS
    agent = agent
    alice = alice
    m1 = m1
    m2 = m2
    m3 = m3
    text = text
    chatter = chatter
    click1 = click1
    click2 = click2
    reminder = reminder
    g1 = g1
    g2 = g2
    NoMessage = NoMessage
    Events = {click1, click2}
    Info <- MCInfo
    SelfId = agent
    Users = {agent, alice}
    Messages = {m1, m2, m3}
    Slots = {g1, g2}
    Deadline = 1
    Ttl = 2
    MaxSize = 1
    Rate = 2
    Window = 1
    MaxTime = 4
SPECIFICATION Spec
PROPERTIES
    OnlyDuplicatesDropped
