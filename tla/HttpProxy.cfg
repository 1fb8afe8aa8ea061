SPECIFICATION Spec
CONSTANTS
    h1 = h1
    h2 = h2
    page = page
    ads = ads
    site = site
    A = A
    B = B
    alice = alice
    mallory = mallory
    Handlers <- MCHandlers
    Requests <- MCRequests
    Configs <- MCConfigs
    BlockedClients = {mallory}
    BlockedUrls = {ads}
    UrlHost <- MCUrlHost
    Urls <- MCUrls
    Hosts <- MCHosts
    BufferSize = 2
    AnswerLen = 3
    MaxVersion = 2
    MaxRequests = 3
    Buckets <- MCBuckets
    UrlHash <- MCUrlHash
    MaxSize = 6
    Ttl = 1
    Times <- MCTimes
    NULL = NULL
SYMMETRY MCSymmetry
INVARIANTS CopyIsForwarded RightOrigin
PROPERTIES ContentIsGuarded OlderOnlyIfOvertaken
