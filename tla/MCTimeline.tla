----------------------------- MODULE MCTimeline -----------------------------
(* One video asset and a text; the default tracks, a second video track and  *)
(* an overlay track.                                                         *)
EXTENDS Timeline, TLC

CONSTANTS shot, title, V1, V2, OV1, A1
MCKindOf == shot :> "video" @@ title :> "text"
MCLength == shot :> 2 @@ title :> 0
MCAsked == {<<0, 1>>, <<0, 2>>, <<1, 2>>}
MCTrackKind == V1 :> "video" @@ V2 :> "video" @@ OV1 :> "overlay" @@ A1 :> "audio"

=============================================================================
