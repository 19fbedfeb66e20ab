------------------------- MODULE SubtitleWorkspaceMC -------------------------
(***************************************************************************)
(* Two published cues that touch, and a candidate for the first of them.   *)
(***************************************************************************)
EXTENDS SubtitleWorkspace

TwoCues == <<NewCue(1, 0, 2, <<1>>), NewCue(2, 2, 4, <<2>>)>>
OneCandidate == [start |-> 0, end |-> 2, cues |-> <<NewCue(5, 0, 2, <<5>>)>>]
Typing == <<9>>
AnyTask == {Fresh, Translated}
TranslatedTask == {Translated}
=============================================================================
