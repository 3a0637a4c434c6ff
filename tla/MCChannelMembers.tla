------------------------ MODULE MCChannelMembers ------------------------
(* Small instances of ChannelMembers for TLC. *)
EXTENDS ChannelMembers, TLC
========================================================================
