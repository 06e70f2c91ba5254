\* Spec 4.1 says required, optional and immutable partition the merged key
\* set.  The required set comes from the runner's and the action's
\* required_parameters lists, which nothing ties to the schemas.
CONSTANTS
    Names = {"a", "b"}
    NameRank <- MCNameRank
    Positions = {0}
SPECIFICATION Spec
INVARIANT PartitionExact
CHECK_DEADLOCK FALSE
