CONSTANTS
    Client = {c1, c2}
    MaxSession = 2
    MaxPending = 2
    MaxRestarts = 1
SPECIFICATION Spec
SYMMETRY Symmetry
INVARIANTS OwnerInv OneOwner
