SPECIFICATION FairSpec
CONSTANTS
    s1 = s1
    s2 = s2
    pack = pack
    subscription = subscription
    Sessions = {s1, s2}
    NoSession = NoSession
    Webhooks = {s1, s2}
    Payments = {pack, subscription}
    Packs = {pack}
    NoPayment = NoPayment
    Plans = {"free", "pro"}
    FreePlan = "free"
    PaidPlan = "pro"
    Allowance <- SmallAllowance
    PackCredits = 2
    Amounts <- SmallAmounts
    Kinds = {"check", "charge", "voice", "notification"}
    Statuses = {"confirmed", "canceled", "init"}
    MaxMonth = 1
    MaxStarted = 3
INVARIANTS
    CreditsConserved
    PaidIsDelivered
PROPERTIES
    SessionsEnd
CHECK_DEADLOCK FALSE
