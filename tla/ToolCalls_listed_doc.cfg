SPECIFICATION Spec
CONSTANTS
    guarded = guarded  seeker = seeker  path = path
    Calls = {guarded, seeker}
    Breakpoints = {guarded}
    Gated = {guarded}
    Seeking = {seeker}
    Path <- MCPath
    Rules <- MCRules
    Admins = {a1, a2}
INVARIANT ListedRequestsWait
