SPECIFICATION Spec
CONSTANTS
    Calls = {o1, o2, c1, c2, p1, p2, q1, r1, b1, b2, b3}
    Handlers = {h1, m1}
    Methods = {m1}
    Copies = 2
    EventTypes = {"OrderSubmitted", "OrderCancelled", "PositionOpened", "PositionClosed", "PositionUpdated"}
    DomainEvent = "DomainEvent"
    Publishers = {b1, b2, b3}
    Observed = {"OrderSubmitted", "DomainEvent"}
    MaxChanges = 3
    ServiceOrders = {o1}
    ExecutorOrders = {o2}
    Cancels = {c1, c2}
    Opens = {p1, p2}
    Closes = {q1}
    Reprices = {r1}
    Symbols = {s1, s2}
    Portfolios = {f1}
    Stranger = Stranger
INVARIANTS
    AcceptedIsRecorded
    AnnouncedIsRecorded
    SubscriberHearsOnce
    PortfolioAgrees
CHECK_DEADLOCK FALSE
