SPECIFICATION SearchesSpec
CONSTANTS
    p1 = p1
    p2 = p2
    p3 = p3
    x = x
    y = y
    Url <- Urls
    Canonical <- CanonicalUrl
    Near <- NearTitles
    MaxRank = 3
    Scale = 238266
    Provider = {p1, p2, p3}
    Query = {x, y}
    Rejected <- RejectedSet
    Answers <- AnswerSet
    MaxRetries = 1
    MaxGrid = 4
    Supplier = {p1, p2, p3}
    ArmOrder <- Suppliers
    ScienceRetries = 1
    MaxArms = 4
    MaxPairArms = 5
    None = None
INVARIANTS RepeatsAreRepeats TheServerIsNamed ListAccountsForTheGrid EndsHonestly WhatWasShownIsJournaled
CHECK_DEADLOCK FALSE
