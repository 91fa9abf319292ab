SPECIFICATION Spec
CONSTANTS
    up = up
    us = us
    ut = ut
    nimasa = nimasa
    bank = bank
    owner = owner
    officer = officer
    Principals <- MCPrincipals
    Officers <- MCOfficers
    Assignments <- MCAssignments
    NoRoles = NoRoles
    monday = monday
    tuesday = tuesday
    Rates = {monday, tuesday}
    NgnPerUsd <- MCNgnPerUsd
    Scale = 100
    Amount = 600
    FeeBasisPoints = 100
    NoRate = NoRate
    NoRequest = NoRequest
    MaxSignals = 2
    MaxParks = 1
CHECK_DEADLOCK FALSE
INVARIANTS
    NoPartySkipped
    MoneyAfterApprovals
    LegsMatchLedger
    DisbursedIsBacked
    AnnouncedOnce
    AwaitedPartyIsHeard
