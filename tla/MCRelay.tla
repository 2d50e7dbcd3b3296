------------------------------- MODULE MCRelay -------------------------------
(* TLC instance of RelayStream: two tool calls, every kind of upstream. *)
EXTENDS RelayStream

CONSTANTS t1, t2, t3

MCNoIndex == -1
MCToolIndexes == 0..1
MCCallIDs == <<t1, t2>>
MCAskedIDs == <<t1, t2, t3>>
MCMaxTurns ==
    [completions |-> 3, unnumbered |-> 0, inline |-> 0, glued |-> 0, responses |-> 0,
     websocket |-> 0, gemini |-> 3, anthropic |-> 3, bamboo |-> 0]
MCMaxFrames ==
    [completions |-> 4, unnumbered |-> 3, inline |-> 4, glued |-> 3, responses |-> 4,
     websocket |-> 3, gemini |-> 2, anthropic |-> 7, bamboo |-> 5]
==============================================================================
