SPECIFICATION Spec
CONSTANT Configurations <- InterleavedMachines
INVARIANTS EveryObjectStartedOnce NodesPartitionObjects PinnedToItsNode
