--------------------------- MODULE MCPaperTrading ---------------------------
EXTENDS PaperAudit, TLC

Symmetry == Permutations(Requests)
=============================================================================
