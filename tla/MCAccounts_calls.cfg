CONSTANTS
    ann = ann
    bob = bob
    mail = mail
    Clerks = {ann, bob}
    nick = nick
    Names = {mail, nick}
    NoUser = NoUser
    Handlers = {h1, h2, h3}
    NoHandler = NoHandler
    Calls <- MCSharedName
    Founders = {bob}
    Competitors = {bob}
    Grant = 2
SPECIFICATION FairSpec
INVARIANTS PortfolioUnlessUpdated PortfolioCheckStaysValid
PROPERTIES BalanceNeverReset EventsProcessed
CHECK_DEADLOCK FALSE
