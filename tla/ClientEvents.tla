---------------------------- MODULE ClientEvents ----------------------------
(***************************************************************************)
(* What a serializer of bamboo/codec sees of a client event: the event of   *)
(* StreamConverter, and of the provider event it was made from, `p', what   *)
(* the client event has in fields that StreamConverter leaves out: whether  *)
(* a delta is a signature, the piece of content or arguments it carries,    *)
(* and what a metadata delta names.                                         *)
(***************************************************************************)
EXTENDS ProviderEvents, FiniteSets, TLC, Functions

IsSignature(e, p) == e.type = "block_delta" /\ p.type = "signature"
IsContent(e, p, kind) == e.type = "block_delta" /\ e.info = kind /\ p.type # "signature"
IsFinalDelta(e) == e.type = "message_delta" /\ e.info # "none"

\* A map with a key set or deleted.
With(map, key, value) == (key :> value) @@ map
Without(map, key) == Restrict(map, DOMAIN map \ {key})
=============================================================================
