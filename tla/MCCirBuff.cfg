CONSTANTS
  Keys = {q, w, e}
  NUL = NUL
  MAX_BUFF = 3
SPECIFICATION Spec
INVARIANT Window
PROPERTY FifoSpec
