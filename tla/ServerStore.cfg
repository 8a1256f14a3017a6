\* Two requests at a time on two ids, with every kind of body.
SPECIFICATION Spec
CONSTANTS
    r1 = r1
    r2 = r2
    NoRow = NoRow
    Requests = {r1, r2}
    MaxId = 2
    Secrets = {"s1"}
    Forms <- MCForms
INVARIANTS RowsAreSound JumpsAreSound DialIsSound
PROPERTIES DeletedStaysDeleted
CHECK_DEADLOCK FALSE
