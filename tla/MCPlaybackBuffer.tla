--------------------------- MODULE MCPlaybackBuffer ---------------------------
(* Nine bytes hold no whole number of frames of either format; the user can  *)
(* give parts of samples and of frames, too little and too much.             *)
EXTENDS PlaybackBuffer

MCCapacity    == 9
MCMaxSource   == 13
MCMaxChannels == 2
MCMaxI32      == 6

=============================================================================
