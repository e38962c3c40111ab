SPECIFICATION FairPrunerSpec
CONSTANTS
    m1 = m1
    m2 = m2
    m3 = m3
    agent = agent
    worker = worker
    dashboard = dashboard
    Ids = {m1, m2}
    Agents = {agent}
    Tickers = {worker, dashboard}
    Threads = {agent, worker, dashboard}
    Scheduled = worker
    AgentOps = {"insert", "demote"}
    MaxPerTick = 1
    MaxSize = 1
    NoId = NoId
    Size <- MCSize
    Cap <- MCCap
    CallsFail = FALSE
    TopK = 0
INVARIANTS
    PrunerTypeOK
    SingleResidence
    StopWaits
PROPERTIES
    ColdLeavesL2
    StopReturns
