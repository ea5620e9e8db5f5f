\* Two reads at once of two versions; two documents, two files, one export, batches of one.
SPECIFICATION Spec
CONSTANTS
    Readers = {r1, r2}
    MaxVersion = 2
    MaxDocs = 2
    MaxFiles = 2
    Exports = {e1}
    Batch = 1
INVARIANTS BodyOfVersion FilesAreAccounted
PROPERTIES ExportIsCurrent DeletionEnds
CHECK_DEADLOCK FALSE
