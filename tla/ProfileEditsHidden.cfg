SPECIFICATION Spec
CONSTANTS
    broken = broken
    removal = removal
    longer = longer
    k1 = k1
    k2 = k2
    refused = refused
    text = text
    Requests = {r1, r2}
    Items = {i1, i2, k1, k2}
    Texts = {text}
    Changes = {broken, removal, longer, refused}
    Operations <- MCOperations
    None = None
    Malformed = Malformed
    MaxItems = 2
    MaxRevision = 5
    MaxEvents = 4
SYMMETRY Symmetry
PROPERTIES
    DeletionTakesOnlyItsItem
CHECK_DEADLOCK FALSE
