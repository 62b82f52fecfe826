---------------------------- MODULE MCSessions ----------------------------
EXTENDS Sessions, TLC
CONSTANTS b1, t1, t2, client, freelancer
HomeOf == [t \in {t1, t2} |-> b1]
TabsAlike == Permutations({t1, t2})
=============================================================================
