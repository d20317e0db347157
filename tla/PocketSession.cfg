SPECIFICATION FairSpec
CONSTANTS
    Calls = {1, 2}
    NoFile = NoFile
    Torn = Torn
    MaxRevision = 2
    MaxKeys = 2
    MaxSpare = 1
INVARIANTS PhoneInv BannerIsTrue
 
CHECK_DEADLOCK FALSE
