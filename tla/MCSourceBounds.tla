--------------------------- MODULE MCSourceBounds ---------------------------
EXTENDS SourceBounds

SomeTools == {<<1, 0>>, <<2, 6>>, <<7, 0>>, <<3, 2>>}
SomeToolLists == UNION {[1..n -> SomeTools] : n \in 0..3}
=============================================================================
