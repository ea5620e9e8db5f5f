------------------------------ MODULE MCAccounts ------------------------------
(* Instances of Accounts for TLC.                                          *)
EXTENDS Accounts, TLC

Interchangeable ==
    Permutations(Users) \cup Permutations(Sessions) \cup Permutations(Links)
        \cup Permutations(Keys) \cup Permutations(Txs)

\* A bound: one password or one membership is changed as often as the maximum allows, the
\* others less often.
OneAtItsMaximum ==
    Cardinality({u \in Users : hash'[u] = MaxHash}) +
        Cardinality({u \in Users : version'[u] = MaxVersion}) <= 1
=============================================================================
