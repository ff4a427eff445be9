---------------------------- MODULE MCMessagePump ---------------------------
(* The model-checked instances of MessagePump. *)
EXTENDS MessagePump

\* How much each peer sends.
OneAndTwo == <<1, 2>>

\* The second client's first message is an instant message.
IMFromTwo == {<<2, 1>>}
=============================================================================
