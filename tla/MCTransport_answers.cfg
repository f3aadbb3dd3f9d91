\* One call with the answer of no gRPC server, and what native would make of it.
CONSTANTS
  Responses <- PlainAnswers
  Deaf = {FALSE}
  Inputs = {}
  Texts = {}
SPECIFICATION TransportSpec
INVARIANT SameAnswers
\* A call is over.
CHECK_DEADLOCK FALSE
