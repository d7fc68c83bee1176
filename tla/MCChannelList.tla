--------------------------- MODULE MCChannelList ---------------------------
(* The instance of ChannelList that TLC checks. *)
EXTENDS ChannelList, TLC

\* Channels are alike, and so are goroutines.
Symmetry == Permutations(Channels) \cup Permutations(Adders)
=============================================================================
