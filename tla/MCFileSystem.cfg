CONSTANTS
  DISK_BLOCKS = 4
  data_offset = 1
  BLOCK_SIZE = 2
  MAX_NUM_OF_FILES = 3
  LOADED_ENTRIES = 2
  MAX_FILE_DESCRIPTOR = 2
  MAX_FILESIZE = 5
  Names = {fileA, fileB}
  fileA = fileA
  fileB = fileB
  Bytes = {0, 1}
  MaxWrite = 3
  MaxMounts = 2
SYMMETRY NamesAlike
SPECIFICATION MCSpec
INVARIANTS TypeOK FilesSeparate Accounting OpenCounted
PROPERTIES StoresFiles SavedSurvive
CHECK_DEADLOCK FALSE
