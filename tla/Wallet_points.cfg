SPECIFICATION Spec
CONSTANTS
    u1 = u1
    u2 = u2
    o1 = o1
    o2 = o2
    Users = {u1, u2}
    Orders = {o1, o2}
    Buyer <- BuyerU1
    Price <- Prices
    PayMethod <- BalanceAndPoints
    RewardRate <- Rates
    Inviter <- U2Invites
    Admins = {a1, a2}
    Amounts <- SmallAmounts
    MaxAdjusts = 2
    ManualTiers = {"NONE"}
    Yuan = 100
    Deliveries = {d1, d2}
    FallsShort <- HalfOf201
    None = None
    Threshold <- Thresholds
    DefaultDiscount <- Defaults
    ProductDiscount <- OneProduct
    CustomDiscount <- CustomDiscounts
INVARIANTS PointsHappenOnce
CHECK_DEADLOCK FALSE
