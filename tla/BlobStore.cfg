SPECIFICATION Spec
CONSTANTS
    Blobs <- FewBlobs
    Cuts <- Anywhere
    Uploader = {u1, u2}
    Reader = {r1}
    CONCURRENT_CHUNK_UPLOADS = 2
SYMMETRY Symmetry
INVARIANTS
    IndexedChunksExist
    UploadReadable
    NeverStranded
CHECK_DEADLOCK FALSE
