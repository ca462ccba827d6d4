SPECIFICATION FairSpec
CONSTANTS
    Request = {read}
INVARIANTS OwnershipSafe
PROPERTIES MediumSafe OwnershipSettles
