CONSTANTS
    get1 = get1
    query1 = query1
    json1 = json1
    exec1 = exec1
    Queries <- MCQueries
    Op <- MCOp
    MaxRows = 2
SPECIFICATION Spec
INVARIANT
    ErrorsThrown
