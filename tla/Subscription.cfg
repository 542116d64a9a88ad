\* Two requests at a time, one charge, one licence key.
CONSTANTS
    r1 = r1
    r2 = r2
    starter = starter
    professional = professional
    Ref = {r1}
    Plan = {starter, professional}
    PlanOf <- MCPlanOf
    Key = {k1}
    Request = {1, 2}
    Priced = {r1}
    Free = free
    None = none

SPECIFICATION FairSpec
INVARIANTS TypeOK PlanIsPaidFor ConfirmedOnce PaymentEndsTrial RevokedGrantsNothing
PROPERTY PaidIsApplied
\* With its one charge used up by a checkout whose link was lost, nothing is left to do.
CHECK_DEADLOCK FALSE
