---- MODULE MCMediaPlayer ----
EXTENDS MediaPlayer, TLC
Symmetry == Permutations(Items)
====
