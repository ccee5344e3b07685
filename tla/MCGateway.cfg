SPECIFICATION FairSpec
CONSTANTS
    SignBit = 4
    e1 = e1
    e2 = e2
    NoExchange = NoExchange
    Exchanges = {e1, e2}
    Clients = {1}
    FirstCounters <- MCFirstCounters
    FirstGatewayId <- MCFirstGatewayId
    Params <- MCParams
    RawBodies <- MCRawBodies
    Returns <- MCReturns
    Failures <- MCFailures
    Fronts = {"adapter", "gateway"}
    Credentials = {TRUE, FALSE}
INVARIANTS TypeOK RepliesMatchRequests OutcomeExplained
PROPERTIES ImplementsContract EveryExchangeReturns
