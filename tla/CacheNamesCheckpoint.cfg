SPECIFICATION Spec
CONSTANTS
    Paths <- TwoPaths
    Inodes = {i1, i2}
    NoInode = none
    Threads = {t1, t2}
    Tags = {0, 1}
    Zero = 0
    NoTag = notag
    MaxSize = 1
    Disturbances <- Undisturbed
PROPERTY
    CheckpointWritesAll
