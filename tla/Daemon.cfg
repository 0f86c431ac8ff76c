SPECIFICATION Spec
CONSTANTS
    c1 = c1
    v1 = v1
    Containers = {c1}
    Volumes = {v1}
    VolumesOf <- Mounts
    Requests = {r1}
    NoOne = NoOne
    MaxSnapshots = 4
    MaxIncarnations = 3
    MaxChanges = 2
    MaxStream = 1
INVARIANTS
    TypeOK
    DescriptorCaptured
    AttachedProvidersAlive
PROPERTIES
    NamespaceNeverOlder
    Quiesces
