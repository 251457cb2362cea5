\* Three connections over two descriptor numbers, one frame of two parts.
CONSTANTS
    Session = {1, 2, 3}
    Number = {0, 1}
    Parts = 2
    MaxSends = 1
SPECIFICATION Spec
INVARIANTS
    DeliveredToTarget
