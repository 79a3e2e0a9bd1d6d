-------------------------- MODULE MCChunkTransport --------------------------
(* An instance of ChunkTransport with two inboxes and two payloads, one of *)
(* which has two equal chunks.                                             *)
EXTENDS ChunkTransport

CONSTANTS x, y, i, j

TwoPayloads == {<<x, y>>, <<x, x>>}
TwoInboxes == {i, j}
=============================================================================
