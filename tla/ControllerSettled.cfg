\* Two priced routes, failing calls and restarts: a handled policy is enforced.
SPECIFICATION Spec
CONSTANTS
    a = a  b = b  x = x  y = y  n1 = n1  n2 = n2  f1 = f1
    NoTable = NoTable  NoPolicy = NoPolicy
    Policies = {a, b}
    Routes = {x, y}
    Namespaces = {n1, n2}
    Filters = {}
    Target <- mcTarget
    NamespaceOf <- mcNamespaceOf
    Prices = {"low", "high"}
    MaxEdits = 3
    ApiFaults = {"call", "restart"}
    MaxApiFaults = 1
INVARIANTS TypeOK SettledIsEnforced
CHECK_DEADLOCK FALSE
