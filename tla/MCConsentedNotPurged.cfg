SPECIFICATION Spec
CONSTANTS
    Users = {u1}
    Applicants <- MCApplicants
    NoUser = NoUser
    Requests = {s1}
    RefreshIds = {t1, t2}
    Links = {l1, l2}
    ArcoIds = {r1}
    AgeUpLimit = 1
    BatchSize = 1
    MaxVersion = 2
PROPERTY ConsentedNotPurged
CHECK_DEADLOCK FALSE
