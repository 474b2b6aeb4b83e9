\* Three calls, one after another or overlapping.
SPECIFICATION Spec
CONSTANTS
    Calls = {c1, c2, c3}
    Builds = {v1, v2}
    FirstBuild = v1
    Absent = Absent
INVARIANTS
    WholeImageKept
    RunnableImageKept
PROPERTIES
    ReportsTruthful
CHECK_DEADLOCK FALSE
