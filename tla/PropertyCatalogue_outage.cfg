SPECIFICATION CatalogueSpec
CONSTANTS
    l = l
    d = d
    ListRequest <- listRequests
    DetailRequest <- detailRequests
    Stale = 1
    Expire = 2
    Volume = 2
    MaxFires = 2
INVARIANTS CatalogueTypeOK ServedWithinTwiceExpire OutageIsNotCached
PROPERTY BreakerRecovers
