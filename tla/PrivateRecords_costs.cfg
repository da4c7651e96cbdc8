CONSTANTS
    Products = {p}
    Theirs = {}
    Own = {}
    MaxWrites = 1
    MaxGrants = 1
    MaxEdits = 1
    MaxIncidents = 0
SPECIFICATION RecordsSpec
INVARIANTS CostSurvives
