CONSTANTS
    r1 = r1
    r2 = r2
    RemoteIds = {r1}
    NoRemote = NoRemote
    MaxBoots = 2
    MaxPoints = 2
    Batch = 2
    Misreads <- MisreadFiles
    Retries = 2
SPECIFICATION Spec
PROPERTIES CompletedUploading
