SPECIFICATION FairSpec
CONSTANTS
    Clients = {"a", "b"}
    Postings <- MCPostings
    Deletable <- MCDeletable
    MaxFaults = 1

INVARIANT ContractKept
INVARIANT NothingDangles
INVARIANT CountsAreNew
INVARIANT RejectionsExplained
INVARIANT VectorsSourced

PROPERTY EdgesComeLast
PROPERTY Resumes
