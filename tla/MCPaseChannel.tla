--------------------------- MODULE MCPaseChannel ---------------------------
(* PaseChannel with three handshakes, two of which know the passcode.      *)
EXTENDS PaseChannel, TLC

CONSTANTS h1, h2, h3

MCHandshakes == {h1, h2, h3}
MCKnows == {h1, h2}
=============================================================================
