--------------------------- MODULE MCWebSocketFrames ---------------------------
EXTENDS WebSocketFrames, Bitwise

MCXor(a, b) == a ^^ b

Key == <<136, 1, 255, 0>>

\* Data that is empty, that looks like the frame of a close, and "ze".
Payloads == {<<>>, <<136, 128>>, <<122, 101>>}

\* Texts and fragments, a ping and a close; the same unmasked; the longer forms.
MCFrames ==
  [fin : BOOLEAN, op : {0, 1}, data : Payloads, key : {Key}, form : {2}]
    \cup [fin : {TRUE}, op : {9}, data : {<<136>>}, key : {Key}, form : {2}]
    \cup [fin : {TRUE}, op : {8}, data : {<<3, 232>>}, key : {Key, <<>>}, form : {2}]
    \cup [fin : BOOLEAN, op : {0, 1}, data : {<<136, 128>>}, key : {<<>>}, form : {2}]
    \cup [fin : {TRUE}, op : {0, 1}, data : {<<122, 101>>}, key : {Key}, form : {4, 10}]
=============================================================================
