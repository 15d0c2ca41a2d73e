------------------------------ MODULE MCPubSub ------------------------------
(* Instances of PubSub: s1 and s2 are two tabs of one account. *)
EXTENDS PubSub

CONSTANTS s1, s2, s3, mine, other, broadcast

MCChannelsOf ==
    [s \in Streams |-> <<IF s = s3 THEN other ELSE mine, broadcast>>]
=============================================================================
