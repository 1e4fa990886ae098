--------------------------- MODULE MCFeedWatcher ----------------------------
EXTENDS FeedWatcher, TLC

Symmetry == Permutations(Handlers)
=============================================================================
