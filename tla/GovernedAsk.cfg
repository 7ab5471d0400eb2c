SPECIFICATION AskSpec
CONSTANTS
    e1 = e1
    e2 = e2
    e3 = e3
    a = a
    b = b
    c = c
    q = q
    Letters = {a, b, c, q}
    Quotes = {q}
    Base = 3
    Entities = {e1, e2, e3}
    Domain <- DomainOf
    TrustRank <- Trust
    Plans <- Work
    MaxEvidence = 2
    MaxPieces = 3
    MaxChanges = 1
CHECK_DEADLOCK FALSE
INVARIANTS AnswersKeepToEvidence NothingFoundIsSentAsIs EchoIsFaithful VaultHoldsWhatIsSent
