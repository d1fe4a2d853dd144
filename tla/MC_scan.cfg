\* Two scans, two failing calls each.
SPECIFICATION Spec
CHECK_DEADLOCK FALSE
CONSTANTS
    Scans = {s1, s2}
    Packages <- MCPackages
    Advisories <- MCAdvisories
    Versions <- MCVersions
    Reports <- MCReports
    MaxFaults = 2
INVARIANTS
    TypeOK
    RowsAreWhatTheirScanSaw
    SucceededScanIsRecorded
    FixesAreListed
