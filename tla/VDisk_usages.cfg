SPECIFICATION Spec
CONSTANTS
    store = store  blob = blob
    Volumes = {store, blob}
    Stores = {store}
    Handles = {h1, h2}
    Capacity <- SmallBlob
    Layout <- FilledDisk
    DiskBlocks = 5
    BlobSizes = {1}
    Usages = {"exclusive", "warm"}
INVARIANTS TypeOK ManifestsDisjoint  
     
SYMMETRY Symmetry
