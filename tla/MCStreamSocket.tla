--------------------------- MODULE MCStreamSocket ---------------------------
(* Instances of StreamSocket for TLC, and its refinement of OrderedStream. *)
EXTENDS StreamSocket

AllModes == BOOLEAN \X BOOLEAN
ServerMode == {<<TRUE, TRUE>>}
=============================================================================
