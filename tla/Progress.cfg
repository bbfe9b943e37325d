SPECIFICATION Spec
CONSTANTS
    None = None
    a1 = a1
    e1 = e1
    e2 = e2
    c1 = c1
    c2 = c2
    l1 = l1
    l2 = l2
    q1 = q1
    h1 = h1
    h2 = h2
    p1 = p1
    p2 = p2
PROPERTIES
    RowsSettle
    IntentsSettle
    RequestsEnd
