\* A valid policy is edited to one the schema takes and validate refuses.
SPECIFICATION Spec
CONSTANTS
    a = a  b = b  x = x  y = y  n1 = n1  n2 = n2  f1 = f1
    NoTable = NoTable  NoPolicy = NoPolicy
    Policies = {a}
    Routes = {x, y}
    Namespaces = {n1, n2}
    Filters = {f1}
    Target <- mcOne
    NamespaceOf <- mcNamespaceOf
    Prices = {"low"}
    MaxEdits = 2
    ApiFaults = {}
    MaxApiFaults = 0
PROPERTIES TypoNeverFree
CHECK_DEADLOCK FALSE
