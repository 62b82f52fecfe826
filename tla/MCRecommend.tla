---------------------------- MODULE MCRecommend ----------------------------
EXTENDS Recommend
CONSTANTS c1, o1, o2, foreign, f1
MCLimits == {-1, 0, 2}
=============================================================================
