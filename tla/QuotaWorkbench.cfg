CONSTANTS
    ManagementGroups = {"m"}
    Groups = {"g"}
    Runs = {"run1"}
    Rows <- MCRows
    Amounts = {1, 2}
    None = None
SPECIFICATION WorkSpec
INVARIANT AppliesWhatWasSimulated
CHECK_DEADLOCK FALSE
