CONSTANTS
    p1 = p1
    a1 = a1
    a2 = a2
    v1 = v1
    u1 = u1
    u2 = u2
    Project <- MCProject
    Artifact <- MCArtifact
    ProjectOf <- MCProjectOf
    Provider <- MCProvider
    Publisher <- MCPublisher
    MaxVersion = 2
    MaxConnections = 2
    MaxPublishes = 2
SPECIFICATION Spec
CHECK_DEADLOCK FALSE
INVARIANTS
    OnePublishPerProject
    ReferencesFollowTheFiles
    LandedIsRecorded
PROPERTIES
    LockIsReleased
