SPECIFICATION FairSpec
CONSTANTS
    guarded = guarded  seeker = seeker  path = path
    Calls = {guarded, seeker}
    Breakpoints = {guarded}
    Gated = {guarded}
    Seeking = {seeker}
    Path <- MCPath
    Rules <- MCRules
    Admins = {a1, a2}
INVARIANTS TypeOK  OnlyCutOffLinger 
PROPERTIES  LockedGivesNothing CallsEnd
