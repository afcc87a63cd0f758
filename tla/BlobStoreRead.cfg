SPECIFICATION Spec
CONSTANTS
    Blobs <- FewBlobs
    Cuts <- Anywhere
    Uploader = {u1, u2}
    Reader = {r1}
    CONCURRENT_CHUNK_UPLOADS = 2
SYMMETRY Symmetry
INVARIANT ChunksProvided
CHECK_DEADLOCK FALSE
