\* Two buckets of two entries, where the code has sixteen of sixteen.
SPECIFICATION Spec
CONSTANTS
    HashedKeys <- SomeKeys
    Items = {a, b}
    Handles = {h1, h2, h3, h4, h5, h6, h7}
    NullHandle = NullHandle
    BucketCount = 2
    BucketCapacity = 2
    BucketBound = 8
SYMMETRY ItemSymmetry
INVARIANTS
    NothingLost
    CrashesKnown
    AnswersMap
\* cache_map_uninit ends the life of the map, and so does a crash.
CHECK_DEADLOCK FALSE
