SPECIFICATION Spec
CONSTANTS
  Byte = {b0, b1}
  BufLen = 6
  DataOff = 1
  Word = 8
  Long = 64
  Size = 16
  MaxArg = 6
VIEW View
PROPERTY OutOfBufferIsTrue
