SPECIFICATION Spec
CONSTANTS
    orders = orders
    stock = stock
    posting = posting
    profile = profile
    purchase = purchase
    deployment = deployment
    approval = approval
    Tabs = {t1}
    Slices = {orders, stock}
    Writers = {purchase}
    Touches <- MCOneTouches
    InTx = {}
    Deferred = {orders}
    Unlisted = {}
    Aside = {}
    Silent = {}
    Bumping = {}
    MaxStreams = 1
    MaxWrites = 1
    MaxUpsets = 1
CHECK_DEADLOCK FALSE
PROPERTY
    GapsAreFilled
