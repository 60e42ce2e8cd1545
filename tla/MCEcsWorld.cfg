\* One thread or two, two entities, two systems and two component types.
SPECIFICATION FairSpec
CONSTANTS
    Threads = {main, other}
    Main = main
    Entities = {e1, e2}
    Types = {body, life}
    physics = physics
    health = health
    body = body
    life = life
    SystemOrder <- TheSystems
    Required <- TheRequired
    CommandsBound <- TheCommandsBound
INVARIANTS
    ComponentsOwned
    EntitiesStay
    ListsExact
    DeadlocksKnown
PROPERTIES
    UpdatesEnd
\* Threads can deadlock, and at the bounds no call begins.
CHECK_DEADLOCK FALSE
