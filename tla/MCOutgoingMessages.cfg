CONSTANTS
    alice = alice
    bob = bob
    m1 = m1
    m2 = m2
    Contacts <- MCContacts
    Messages <- MCMessages
    Omits <- MCOmits
    MaxBlobs = 5
    MaxFailures = 1
    MaxChanges = 2
SPECIFICATION FairSpec
INVARIANTS TypeOK SentMeansStored InOrder NoncesMatch ToldAsCached
PROPERTY TasksEnd
CHECK_DEADLOCK FALSE
