CONSTANTS
    Tabs = {t1}
    Users = {u1, u2}
    Registered = {u1}
    Nobody = Nobody
    t1 = t1
    u1 = u1
    u2 = u2
    MaxStock = 2
    MaxAdds = 3
    MaxOrders = 2
SPECIFICATION Spec
INVARIANTS TypeOK BoughtOnce ActsAsShown
