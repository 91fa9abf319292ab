SPECIFICATION FairSpec
CONSTANTS
    drafted = drafted
    submitted = submitted
    approved = approved
    voided = voided
    Events <- MCEvents
    Table <- MCTable
    Type <- MCType
    Created <- MCCreated
    BatchSize = 2
    Publishers = {p1}
PROPERTIES
    EventsDrain
