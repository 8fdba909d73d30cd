SPECIFICATION Spec
CONSTANTS
    Calls = {c1, c2}
    Topics = {t1}
    MaxPartitions = 2
    MaxChanges = 2
    Faults = {"metadata", "committed", "refused"}
SYMMETRY CallSymmetry
INVARIANTS TypeOK FreshOnDemand ListedIsKnown DescribeShowsAll
