\* Four nodes move between two lists in every way the functions allow.
SPECIFICATION LinkedListSpec
CONSTANTS
    a = a
    b = b
    c = c
    d = d
    List = {"block_list", "sleep_list"}
    Node = {a, b, c, d}
    NULL = null
    Key <- TwoEqualKeys
INVARIANTS TwoWays
PROPERTIES ImplementsLists
