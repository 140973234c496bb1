\* Two policies on one route, failing calls: the data plane comes in step.
SPECIFICATION FairSpec
CONSTANTS
    a = a  b = b  x = x  y = y  n1 = n1  n2 = n2  f1 = f1
    NoTable = NoTable  NoPolicy = NoPolicy
    Policies = {a, b}
    Routes = {x}
    Namespaces = {n1}
    Filters = {f1}
    Target <- mcSameRoute
    NamespaceOf <- mcOneNamespace
    Prices = {"low", "high"}
    MaxEdits = 2
    ApiFaults = {"call"}
    MaxApiFaults = 1
PROPERTIES Converges
CHECK_DEADLOCK FALSE
