CONSTANTS
  DISK_BLOCKS = 3
  data_offset = 1
  BLOCK_SIZE = 2
  MAX_NUM_OF_FILES = 2
  LOADED_ENTRIES = 1
  MAX_FILE_DESCRIPTOR = 2
  MAX_FILESIZE = 3
  Names = {fileA, fileB}
  fileA = fileA
  fileB = fileB
  Bytes = {1}
  MaxWrite = 2
  MaxMounts = 2
SYMMETRY NamesAlike
SPECIFICATION Spec
PROPERTIES Persistent
CHECK_DEADLOCK FALSE
