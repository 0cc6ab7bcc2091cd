------------------------ MODULE MCTransactionQueue ------------------------
EXTENDS TransactionQueue

Tx(a, n, p) == [from |-> a, nonce |-> n, price |-> p]
\* Two transactions with one nonce, and two whose accounts cannot reach them.
MCTxs == {Tx("a", 0, 10), Tx("a", 1, 10), Tx("a", 1, 20), Tx("b", 1, 10), Tx("c", 1, 9)}
=============================================================================
