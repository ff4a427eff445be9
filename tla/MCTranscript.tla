---------------------------- MODULE MCTranscript ----------------------------
(* The model-checked instances of Transcript. *)
EXTENDS Transcript

\* An empty line, one and three lines of plain text.
PlainTexts == {<<0, 0>>, <<1, 0>>, <<81, 0>>}
\* ... a short line of eight gaudy words, and one of nothing but markers.
GaudyTexts == PlainTexts \cup {<<30, 16>>, <<125, 125>>}
=============================================================================
