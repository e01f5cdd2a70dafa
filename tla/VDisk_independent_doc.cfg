SPECIFICATION Spec
CONSTANTS
    store = store  blob = blob
    Volumes = {store, blob}
    Stores = {store}
    Handles = {h1, h2}
    Capacity <- SmallBlob
    Layout <- FilledDisk
    DiskBlocks = 5
    BlobSizes = {1}
    Usages = {"warm"}
INVARIANT LengthsKept
SYMMETRY Symmetry
