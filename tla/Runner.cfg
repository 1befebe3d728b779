SPECIFICATION Spec
CONSTANTS
    v1 = v1
    v2 = v2
    a1 = a1
    a2 = a2
    Watched = v1
    Accounts = {a1, a2}
    Offered = {a1}
    Unset = unset
    DefaultOn = {v1}
    Venues = {v1, v2}
    Deployments <- MCDeployments
    Flows = {f1}
    Hour = 2
    Loop = 1
    Lookback = 4
INVARIANTS LiveAccountsExpected NoVenueLeftBehind FlowsIngested NotSilent
PROPERTIES BootKeepsVenues
