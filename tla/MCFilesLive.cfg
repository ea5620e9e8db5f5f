\* Nothing is stored for ever: one file, one completion request, one worker.
SPECIFICATION FairSpec
CONSTANTS
    Files = {f1}
    Candidates = {c1}
    Slots = {1, 2}
    Workers = {w1}
    Rescan = Rescan
    None = None
    Uploads = {"good", "bad"}
    BatchLimit = 2
ACTION_CONSTRAINT NoneOnIt
PROPERTIES NoOrphans
