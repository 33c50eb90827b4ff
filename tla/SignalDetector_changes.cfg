SPECIFICATION Spec
CONSTANTS
    LocalTimes <- MCLocalTimes
    Offsets    <- MCOffsets
PROPERTIES EvidenceNeverDemotes ZoneIrrelevant HindsightLimited
