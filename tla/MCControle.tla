----------------------------- MODULE MCControle -----------------------------
EXTENDS Controle

\* Every digit and letter with the neighbours of their ranges; some words have
\* more than their low byte.
MCPanelData ==
  {32, 45, 95} \cup (47..58) \cup (64..91) \cup (96..123) \cup {256 + 97, 512 + 48}
=============================================================================
