------------------------- MODULE MCChannelLifecycle -------------------------
(* An instance of ChannelLifecycle. *)
EXTENDS ChannelLifecycle
=============================================================================
