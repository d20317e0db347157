SPECIFICATION FairSpec
CONSTANTS
    Requests = {1, 2}
    Proc <- OneProcess
    MaxVersion = 3
    MaxKeys = 2
    MaxSpare = 1
INVARIANTS PocketInv CleanIsPublished RevokedSeesNothingNew
PROPERTIES CodeOpensFile FollowsForward 
CHECK_DEADLOCK FALSE
