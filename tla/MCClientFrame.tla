--------------------------- MODULE MCClientFrame ---------------------------
EXTENDS ClientFrame

\* A message that takes several sends, a short one and an empty one.
MCMsg == {"long", "short", "empty"}
MCMsgLen(m) == CASE m = "long" -> 2 [] m = "short" -> 1 [] OTHER -> 0
=============================================================================
