CONSTANTS
    t1 = t1  t2 = t2  t3 = t3
    alice = alice  bob = bob
    Tx = {t1, t2, t3}
    Address = {alice, bob}
    Calls <- Watchers
    Silent = {t2}
    Limit = 2
    Expiry = 3
    PostedAges <- AheadOrFresh
    Reposts = TRUE
    Code = {0, 2}
    MaxReports = 2
    MaxFaults = 1
SPECIFICATION FairSpec
CONSTRAINT OneStory
INVARIANTS TypeOK OutcomeWasReported SubscriptionsBounded
PROPERTIES OutcomeIsFinal 
