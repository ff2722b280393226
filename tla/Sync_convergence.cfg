SPECIFICATION Spec
CONSTANTS
    orders = orders
    stock = stock
    posting = posting
    profile = profile
    purchase = purchase
    deployment = deployment
    approval = approval
    Tabs = {t1}
    Slices = {orders, stock}
    Writers = {posting, profile, purchase, deployment, approval}
    Touches <- MCTouches
    InTx = {posting}
    Deferred = {orders}
    Unlisted = {posting}
    Aside = {deployment}
    Silent = {approval}
    Bumping = {profile}
    MaxStreams = 1
    MaxWrites = 2
    MaxUpsets = 1
CHECK_DEADLOCK FALSE
INVARIANTS
    TypeOK
    MirrorLagsOnlyIfOwed
    StaleOnlyIfOwed
    NoSlotLeaked
PROPERTIES
    ScreenCatchesUp
    StreamReopens
