--------------------------- MODULE MCSpeechOutput ---------------------------
(***************************************************************************)
(* SpeechOutput for TLC: replies and a chime compete for the speaker.      *)
(***************************************************************************)
EXTENDS SpeechOutput

\* Every reply so far was a normal one: not cancelled, and nothing failed.
AllNormal == \A t \in Thread : ~cancelled[t] /\ result[t] # "raised"

\* src/README.md: "Audio is muted during normal reply playback".  When no reply
\* is ever cancelled or fails, no frame that the listener hears was captured
\* while one sounded.
NormalReplyIsMuted == []AllNormal => []HearsOnlyTheRoom

=============================================================================
