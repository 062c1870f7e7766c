SPECIFICATION FairSpec
CONSTANTS
    Key = {k1, k2}
    Size = {0, 1}
    MaxPending = 2
    MaxUpdates = 3
    MaxCopies = 2
    MaxLagging = 1
INVARIANTS TypeOK BookIsVenueBook NothingSkipped ResyncsPairWithGaps
PROPERTIES ReplayGapIsReal RefinesReplica NewestUpdateShows
