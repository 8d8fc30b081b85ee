CONSTANTS
    ann = ann
    bob = bob
    mail = mail
    Clerks = {ann}
    nick = nick
    Names = {mail, nick}
    NoUser = NoUser
    Handlers = {h1, h2}
    NoHandler = NoHandler
    Calls <- MCOfAnn
    Founders = {}
    Competitors = {}
    Grant = 2
SPECIFICATION Spec
INVARIANT UserHasPortfolio
CHECK_DEADLOCK FALSE
