------------------------- MODULE AnthropicSerializer -------------------------
(***************************************************************************)
(* The stream serializer of bamboo/codec/anthropic/stream.go.  It writes    *)
(* the events of the Messages API in the form in which AnthropicAdapter     *)
(* reads them, so that the reply can be read by a second gateway; the final *)
(* usage is written beside the delta.                                       *)
(***************************************************************************)
EXTENDS ClientEvents

Frame(t, fields) == fields @@ [type |-> t]

\* What a message_delta without a reason and without a usage says is dropped.
AnthropicSerialize(e, p) ==
    CASE e.type = "message_start" -> <<Frame("message_start", [usage |-> FALSE])>>
      [] e.type = "block_start" ->
            <<Frame("block_start", [kind |-> e.info, id |-> e.tool, index |-> e.index,
                                    piece |-> IF e.info = "redacted_thinking" THEN <<"data">>
                                              ELSE Nothing])>>
      [] e.type = "block_delta" ->
            <<Frame("block_delta", [kind |-> IF IsSignature(e, p) THEN "signature" ELSE e.info,
                                    id |-> p.id, index |-> e.index, piece |-> p.piece])>>
      [] e.type = "block_stop" -> <<Frame("block_stop", [index |-> e.index])>>
      [] IsFinalDelta(e) ->
            <<Frame("message_delta", [reason |-> e.info, usage |-> "beside"])>>
      [] e.type = "message_delta" -> <<>>
      [] OTHER -> <<Frame(e.type, <<>>)>>

=============================================================================
