CONSTANTS
    Products = {p}
    Theirs = {e}
    Own = {f}
    MaxWrites = 1
    MaxGrants = 1
    MaxEdits = 1
    MaxIncidents = 1
SPECIFICATION RecordsSpec
INVARIANTS UnsentStaysVisible
 
