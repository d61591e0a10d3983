------------------------------ MODULE MCReceipts ------------------------------
EXTENDS Receipts, TLC

CONSTANTS c1, c2

\* Work on the receipt with deletions by persons or a transaction that moves on, and
\* all work on attachments of persons.
ReceiptMixes ==
  {{"receipt", "delete"}, {"receipt", "move"},
   {"upload", "delete", "retry", "reconcile", "refresh", "outside"}}
ReceiptAlone == {{"receipt"}}
Symmetry == Permutations(Calls)
=============================================================================
