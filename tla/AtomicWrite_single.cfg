SPECIFICATION WriteSpec
CONSTANTS
  Writers = {ui}
  Docs <- MCDocs
  Size <- MCSize
  Inodes = {i1, i2, i3}
  NoInode = NoInode
PROPERTIES
  ImplementsAtomicFile
