-------------------------------- MODULE MCPeer --------------------------------
(***************************************************************************)
(* Messages for Peer.tla, with lengths of 6 bits, a size_t of 7 and a      *)
(* max_message_size of 16: one that fits, one byte too many, and one whose *)
(* length is cut to 1.                                                     *)
(***************************************************************************)
EXTENDS Peer

MCMessages == {<<"request", 16>>, <<"user_data", 17>>, <<"user_data", 64>>}

=============================================================================
