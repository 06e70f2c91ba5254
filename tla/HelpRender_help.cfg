\* The help path for every runner and action schema over the names a and b
\* (absent, empty, or with any immutable flag, position 0, 1 or none, and a
\* description and enum print_param can or cannot format),
\* every required list, with and without a description.  Two positions
\* give both ties and a position that contradicts the name order.
CONSTANTS
    Names = {"a", "b"}
    NameRank <- MCNameRank
    Positions = {0, 1}
SPECIFICATION Spec
INVARIANTS
    ImmutableNeverListed
    HelpOrdered
    HelpListsAll
\* print_help prints and returns: its final states are not deadlocks.
CHECK_DEADLOCK FALSE
