CONSTANTS
    creator = creator
    alice = alice
    bob = bob
    Creator = creator
    Members <- MCMembers
    MaxUpdates = 2
    MaxLeaves = 1
    MaxPosts = 1
    MaxFailures = 1
SPECIFICATION Spec
INVARIANTS TypeOK Settled MirrorDiffers
SYMMETRY MCSymmetry
CHECK_DEADLOCK FALSE
