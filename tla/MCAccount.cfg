SPECIFICATION FairSpec
CONSTANTS
    Users = {u1}
    Applicants <- MCApplicants
    NoUser = NoUser
    Requests = {s1}
    RefreshIds = {t1, t2}
    Links = {l1, l2}
    ArcoIds = {r1}
    AgeUpLimit = 1
    BatchSize = 1
    MaxVersion = 2
INVARIANTS TypeOK ActingMeansActive EvidenceKept ConsentFirst ArcoHonoured
PROPERTIES CancelledStays Settled
CHECK_DEADLOCK FALSE
