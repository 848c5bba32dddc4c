------------------------------ MODULE Timeline ------------------------------
(***************************************************************************)
(* The editing operations of lumerai/patches.py on the tracks and clips of  *)
(* a project.                                                               *)
(*                                                                         *)
(* apply_timeline_patches normalises the stored project, applies the ops of *)
(* a batch one after the other to that copy, and in the end validates the   *)
(* whole, unless all its ops were of the two legacy kinds.  An op that is   *)
(* refused, or a failed validation, discards the copy.  Here doc is the     *)
(* copy while a batch is under way and the stored project, as the next load *)
(* normalises it, otherwise; a refusal is the absence of a step: the store  *)
(* goes on from the project it had (ProjectStore).                          *)
(*                                                                         *)
(* Times are whole numbers of a unit longer than EPSILON.  Ids of clips are *)
(* numbers, given out in ascending order: where two clips of a track start  *)
(* together, which only legacy ops bring about, the lower id goes first.    *)
(***************************************************************************)
EXTENDS Integers, FiniteSets

CONSTANTS
  Media,          \* what clips can show: assets, and one text
  KindOf,         \* [Media -> {"video", "audio", "text"}]
  Length,         \* [Media -> Nat]: duration of an asset, 0 if not known
  MainTrack,      \* "V1"
  TrackKind,      \* the tracks there can be, and the kind each is added with
  Seed,           \* the tracks of a new project
  MinDuration,    \* what normalisation lengthens a shorter media clip to
  TextDurations,  \* bound: durations asked for texts
  LegacyMedia,    \* bound: what legacy ops insert and put in place
  LegacyStarts,   \* bound: where legacy ops insert
  MaxClips,       \* bound: clips in the project
  MaxSize,        \* bound: clips and tracks beyond Seed, together
  Horizon,        \* bound: the end of the timeline
  Asked           \* bound: source ranges asked for

Tracks == DOMAIN TrackKind
ClipIds == 1 .. MaxClips
Times == 0 .. Horizon

ASSUME TimelineAssumption ==
  /\ MaxClips \in Nat /\ Horizon \in Nat /\ MinDuration \in Nat
  /\ Length \in [Media -> Nat]
  /\ MainTrack \in Seed /\ Seed \subseteq Tracks
  /\ TextDurations \subseteq Nat \ {0}
  /\ Asked \subseteq Nat \X Nat

VARIABLES
  doc,      \* [tracks |-> the tracks there are, clips |-> the clips by id]
  batch,    \* "none", "legacy" (nothing to validate yet) or "validated"
  odd       \* "legacy": a legacy op was used; "short": a media clip was shorter than
            \* MinDuration

timelineVars == <<doc, batch, odd>>

-----------------------------------------------------------------------------
(* Reading the document.                                                   *)

EndOf(c) == c.start + c.dur
Present(d) == DOMAIN d.clips
TrackClips(d, t) == {i \in Present(d) : d.clips[i].track = t}

\* _track_clips sorts by start.
Before(d, i, j) ==
  \/ d.clips[i].start < d.clips[j].start
  \/ d.clips[i].start = d.clips[j].start /\ i < j

Successors(d, i) == {j \in TrackClips(d, d.clips[i].track) : Before(d, i, j)}
IsNext(d, i, j) == j \in Successors(d, i) /\ \A k \in Successors(d, i) : k = j \/ Before(d, j, k)

\* Clip i ends where the next clip of its track starts.
ButtJoined(d, i) == \E j \in Present(d) : IsNext(d, i, j) /\ EndOf(d.clips[i]) = d.clips[j].start

IsFree(d, t, start, dur, except) ==      \* _ensure_no_overlap
  \A j \in TrackClips(d, t) \ {except} :
    EndOf(d.clips[j]) <= start \/ start + dur <= d.clips[j].start

TrackEnd(d, t, e) ==      \* e is the greatest end of a clip of t, or 0
  /\ \A j \in TrackClips(d, t) : EndOf(d.clips[j]) <= e
  /\ e = 0 \/ \E j \in TrackClips(d, t) : EndOf(d.clips[j]) = e

Fits(media, t) ==      \* _ensure_media_matches_track
  KindOf[media] = IF TrackKind[t] = "overlay" THEN "text" ELSE TrackKind[t]

-----------------------------------------------------------------------------
(* Changing it.                                                            *)

Max0(n) == IF n < 0 THEN 0 ELSE n
WithClips(d, clips) == [d EXCEPT !.clips = clips]
SetClip(d, i, c) == WithClips(d, [d.clips EXCEPT ![i] = c])
AddClip(d, i, c) == WithClips(d, [j \in Present(d) \union {i} |-> IF j = i THEN c ELSE d.clips[j]])
DropClip(d, i) == WithClips(d, [j \in Present(d) \ {i} |-> d.clips[j]])

\* A shift of what starts after the threshold only (faulty variant).
RippledAfter(d, t, threshold, delta, except) ==
  WithClips(d, [j \in Present(d) |->
    IF j # except /\ d.clips[j].track = t /\ d.clips[j].start > threshold
    THEN [d.clips[j] EXCEPT !.start = Max0(@ + delta)]
    ELSE d.clips[j]])

Rippled(d, t, threshold, delta, except) ==      \* _ripple_shift
  WithClips(d, [j \in Present(d) |->
    IF j # except /\ d.clips[j].track = t /\ d.clips[j].start >= threshold
    THEN [d.clips[j] EXCEPT !.start = Max0(@ + delta)]
    ELSE d.clips[j]])

\* _clear_stale_transitions, on the given tracks.
Cleared(d, ts) ==
  WithClips(d, [j \in Present(d) |->
    IF d.clips[j].trans > 0 /\ d.clips[j].track \in ts /\ ~ButtJoined(d, j)
    THEN [d.clips[j] EXCEPT !.trans = 0]
    ELSE d.clips[j]])

\* _normalize_timeline_clip.
NormalClip(c) ==
  LET dur == IF c.dur < MinDuration THEN MinDuration ELSE c.dur
  IN  IF KindOf[c.media] = "text"
      THEN [c EXCEPT !.in = 0, !.out = c.dur]
      ELSE [c EXCEPT !.dur = dur,
                     !.out = IF c.in = 0 /\ c.out < dur THEN dur ELSE c.out]

Normal(d) == WithClips(d, [i \in Present(d) |-> NormalClip(d.clips[i])])

\* validate_project.
RangesMatch(d) ==
  \A i \in Present(d) : KindOf[d.clips[i].media] # "text" =>
    d.clips[i].out - d.clips[i].in = d.clips[i].dur
Disjoint(d) ==
  \A i, j \in Present(d) : i # j /\ d.clips[i].track = d.clips[j].track =>
    EndOf(d.clips[i]) <= d.clips[j].start \/ EndOf(d.clips[j]) <= d.clips[i].start
OnTracks(d) == \A i \in Present(d) : d.clips[i].track \in d.tracks
Valid(d) == OnTracks(d) /\ RangesMatch(d) /\ Disjoint(d)

-----------------------------------------------------------------------------
(* A batch: every op ends in Edited.                                       *)

SizeOf(d) == Cardinality(Present(d)) + Cardinality(d.tracks \ Seed)
WithinBounds(d) ==
  /\ SizeOf(d) <= MaxSize
  /\ \A i \in Present(d) : EndOf(d.clips[i]) <= Horizon
ShortPiece(d) == \E i \in Present(d) :
  KindOf[d.clips[i].media] # "text" /\ d.clips[i].dur < MinDuration

Edited(d) ==
  /\ odd = {} /\ WithinBounds(d)   \* bound: what follows a legacy op or short piece is not explored
  /\ doc' = d
  /\ batch' = "validated"
  /\ odd' = IF ShortPiece(d) THEN odd \union {"short"} ELSE odd

EditedByLegacyOp(d) ==
  /\ odd = {} /\ WithinBounds(d)   \* bound: what follows a legacy op or short piece is not explored
  /\ doc' = d
  /\ batch' = IF batch = "validated" THEN "validated" ELSE "legacy"
  /\ odd' = odd \union {"legacy"}

\* The project is stored, and normalised whenever it is loaded again.
EndBatch ==
  /\ batch # "none"
  /\ batch = "validated" => Valid(doc)
  /\ doc' = Normal(doc)
  /\ batch' = "none"
  /\ UNCHANGED odd

NewId(d, i) == i \in ClipIds \ Present(d) /\ \A j \in ClipIds \ Present(d) : i <= j

\* The source ranges a caller may ask for.
Ranges(media) ==
  IF KindOf[media] = "text" THEN {<<0, n>> : n \in TextDurations}
  ELSE {r \in Asked : r[1] < r[2]}
InAsset(media, range) == Length[media] = 0 \/ range[2] <= Length[media]

\* The verbs insert no media shorter than MinDuration.  An insertion may reach beyond its
\* asset.  It may even name a range that differs in length from its duration: validate_project
\* refuses the copy, unless the batch goes on to trim or delete that clip; left out here.
InsertRanges(media) ==
  {r \in Ranges(media) : KindOf[media] = "text" \/ r[2] - r[1] >= MinDuration}

NewClip(media, t, start, range) ==
  NormalClip([track |-> t, media |-> media, start |-> start, dur |-> range[2] - range[1],
              in |-> range[1], out |-> range[2], trans |-> 0])

-----------------------------------------------------------------------------
(* insert_clip with at = "append", {"time": t} or {"index": i}.            *)

Insertable(media, t) == t \in doc.tracks /\ Fits(media, t)

InsertAppend(media, t, range) ==
  /\ Insertable(media, t)
  /\ \E i \in ClipIds, e \in Times :
       /\ NewId(doc, i) /\ TrackEnd(doc, t, e)
       /\ Edited(AddClip(doc, i, NewClip(media, t, e, range)))

InsertAtTime(media, t, range, start, ripple) ==
  LET dur == range[2] - range[1]
      d == IF ripple THEN Rippled(doc, t, start, dur, 0) ELSE doc
  IN  /\ Insertable(media, t)
      /\ IsFree(d, t, start, dur, 0)
      /\ \E i \in ClipIds : NewId(d, i) /\ Edited(AddClip(d, i, NewClip(media, t, start, range)))

\* Before the clip next; index insertion always ripples.
InsertAtIndex(media, t, range, next) ==
  LET start == doc.clips[next].start
      d == Rippled(doc, t, start, range[2] - range[1], 0)
  IN  /\ next \in TrackClips(doc, t)
      /\ Insertable(media, t)
      /\ \E i \in ClipIds : NewId(d, i) /\ Edited(AddClip(d, i, NewClip(media, t, start, range)))

-----------------------------------------------------------------------------
(* delete_clip, move_clip, trim_clip, split_clip, set_clip_time.           *)

Delete(i, ripple) ==
  LET c == doc.clips[i]
      d == DropClip(doc, i)
      closed == IF ripple THEN Rippled(d, c.track, c.start, -c.dur, 0) ELSE d
  IN  /\ i \in Present(doc)
      /\ Edited(Cleared(closed, {c.track}))

\* move_clip before stale transitions were cleared (faulty variant).
MoveKeepingTransitions(i, t, start, ripple) ==
  LET c == doc.clips[i]
      moved == t # c.track \/ start # c.start
      d == IF moved /\ ripple THEN Rippled(doc, c.track, c.start, -c.dur, i) ELSE doc
  IN  /\ i \in Present(doc)
      /\ t \in doc.tracks /\ Fits(c.media, t)
      /\ IsFree(d, t, start, c.dur, i)
      /\ Edited(SetClip(d, i, [c EXCEPT !.track = t, !.start = start]))

Move(i, t, start, ripple) ==
  LET c == doc.clips[i]
      moved == t # c.track \/ start # c.start
      d == IF moved /\ ripple THEN Rippled(doc, c.track, c.start, -c.dur, i) ELSE doc
  IN  /\ i \in Present(doc)
      /\ t \in doc.tracks /\ Fits(c.media, t)
      /\ IsFree(d, t, start, c.dur, i)
      /\ Edited(Cleared(SetClip(d, i, [c EXCEPT !.track = t, !.start = start]), {c.track, t}))

\* The change of clip i's length to dur: later clips move along, or it must be free.
Resized(i, dur, ripple) ==
  LET c == doc.clips[i]
  IN  IF ripple THEN Rippled(doc, c.track, c.start, dur - c.dur, i) ELSE doc
RoomFor(i, dur, ripple) ==
  LET c == doc.clips[i]
  IN  dur > c.dur /\ ~ripple => IsFree(doc, c.track, c.start, dur, i)

Trim(i, range, ripple) ==
  LET c == doc.clips[i]
      dur == range[2] - range[1]
  IN  /\ i \in Present(doc)
      /\ KindOf[c.media] # "text" /\ range \in Ranges(c.media) /\ InAsset(c.media, range)
      /\ RoomFor(i, dur, ripple)
      /\ Edited(SetClip(Resized(i, dur, ripple), i,
                        [c EXCEPT !.in = range[1], !.out = range[2], !.dur = dur]))

\* The second half starts at the source position of the first (faulty variant).
SplitRepeating(i, at) ==
  LET c == doc.clips[i]
      n == at - c.start
      front == [c EXCEPT !.dur = n, !.out = c.in + n, !.trans = 0]
      back == [c EXCEPT !.start = at, !.dur = @ - n, !.out = @ - n]
  IN  /\ i \in Present(doc)
      /\ c.start < at /\ at < EndOf(c)
      /\ \E j \in ClipIds : NewId(doc, j) /\ Edited(AddClip(SetClip(doc, i, front), j, back))

Split(i, at) ==
  LET c == doc.clips[i]
      n == at - c.start
      text == KindOf[c.media] = "text"
      front == [c EXCEPT !.dur = n, !.trans = 0, !.out = IF text THEN n ELSE c.in + n]
      back == [c EXCEPT !.start = at, !.dur = @ - n,
                        !.in = IF text THEN 0 ELSE @ + n, !.out = IF text THEN c.dur - n ELSE @]
  IN  /\ i \in Present(doc)
      /\ c.start < at /\ at < EndOf(c)
      /\ \E j \in ClipIds : NewId(doc, j) /\ Edited(AddClip(SetClip(doc, i, front), j, back))

\* set_clip_time's duration, for text; dur is the old one when the op has none.
SetDuration(i, dur, ripple) ==
  LET c == doc.clips[i]
  IN  IF KindOf[c.media] # "text" THEN doc
      ELSE SetClip(Resized(i, dur, ripple), i, [c EXCEPT !.dur = dur, !.in = 0, !.out = dur])

\* and its start, after the duration.
SetStart(d, i, start, ripple) ==
  LET c == d.clips[i]
  IN  IF start # c.start /\ ripple THEN Rippled(d, c.track, c.start, -c.dur, i) ELSE d

SetTime(i, start, dur, ripple) ==
  LET resized == SetDuration(i, dur, ripple)
      d == SetStart(resized, i, start, ripple)
      c == resized.clips[i]
  IN  /\ i \in Present(doc)
      /\ dur # doc.clips[i].dur => KindOf[c.media] = "text" /\ RoomFor(i, dur, ripple)
      /\ start # c.start => IsFree(d, c.track, start, c.dur, i)
      /\ Edited(SetClip(d, i, [c EXCEPT !.start = start]))

-----------------------------------------------------------------------------
(* add_transition; 0 is a cut.                                             *)

AddTransition(i, n) ==
  LET c == doc.clips[i]
      After == {j \in TrackClips(doc, c.track) : doc.clips[j].start > c.start}
  IN  /\ i \in Present(doc)
      /\ n > 0 => \E j \in After :
           /\ \A k \in After : k = j \/ Before(doc, j, k)
           /\ EndOf(c) = doc.clips[j].start
           /\ n <= c.dur /\ n <= doc.clips[j].dur
      /\ Edited(SetClip(doc, i, [c EXCEPT !.trans = n]))

-----------------------------------------------------------------------------
(* Tracks: add_track, remove_track.                                        *)

WithTracks(d, tracks) == [d EXCEPT !.tracks = tracks]

AddTrack(t) ==
  /\ t \notin doc.tracks
  /\ Edited(WithTracks(doc, doc.tracks \union {t}))

RemoveTrack(t) ==
  /\ t \in doc.tracks \ {MainTrack}
  /\ TrackClips(doc, t) = {}
  /\ Edited(WithTracks(doc, doc.tracks \ {t}))

\* Ops that neither place clips nor change what tracks there are: set_track (names, mute,
\* ducking), set_clip_effects, markers, format, assets, title.
Annotate == Edited(doc)

-----------------------------------------------------------------------------
(* The legacy forms of insert_clip and replace_clip: no check at all.      *)

LegacyInsert(media, t, range, start) ==
  \E i \in ClipIds :
    /\ NewId(doc, i)
    /\ EditedByLegacyOp(AddClip(doc, i,
         [track |-> t, media |-> media, start |-> start, dur |-> range[2] - range[1],
          in |-> range[1], out |-> range[2], trans |-> 0]))

\* timeline_replace keeps the place of the clip it replaces.
LegacyReplace(i, media, range) ==
  /\ i \in Present(doc)
  /\ EditedByLegacyOp(SetClip(doc, i, [doc.clips[i] EXCEPT
       !.media = media, !.dur = range[2] - range[1], !.in = range[1], !.out = range[2]]))

-----------------------------------------------------------------------------
TimelineInit ==
  /\ doc = [tracks |-> Seed, clips |-> <<>>]
  /\ batch = "none"
  /\ odd = {}

Insert ==
  \E media \in Media, t \in Tracks : \E range \in InsertRanges(media) :
    \/ InsertAppend(media, t, range)
    \/ \E start \in Times, ripple \in BOOLEAN : InsertAtTime(media, t, range, start, ripple)
    \/ \E next \in ClipIds : InsertAtIndex(media, t, range, next)

\* The edits that move the ends of a clip and leave every transition as it is.
Retime ==
  \E i \in Present(doc), ripple \in BOOLEAN :
    \/ \E range \in Ranges(doc.clips[i].media) : Trim(i, range, ripple)
    \/ \E start \in Times, dur \in TextDurations \union {doc.clips[i].dur} : SetTime(i, start, dur, ripple)

EditClip ==
  \E i \in Present(doc) :
    \/ \E ripple \in BOOLEAN : Delete(i, ripple)
    \/ \E t \in Tracks, start \in Times, ripple \in BOOLEAN : Move(i, t, start, ripple)
    \/ \E at \in Times : Split(i, at)
    \/ \E n \in 0 .. 1 : AddTransition(i, n)

EditTracks == \E t \in Tracks : AddTrack(t) \/ RemoveTrack(t)

Legacy ==
  \E media \in LegacyMedia : \E range \in Ranges(media) :
    \/ \E t \in Seed, start \in LegacyStarts : LegacyInsert(media, t, range, start)
    \/ \E i \in ClipIds : LegacyReplace(i, media, range)

TimelineNext == Insert \/ Retime \/ EditClip \/ EditTracks \/ Annotate \/ Legacy \/ EndBatch

TimelineSpec == TimelineInit /\ [][TimelineNext]_timelineVars

-----------------------------------------------------------------------------
\* Whatever the edits and their order, each one leaves a document that passes the validation
\* of the whole, if the clips it inserts are as long as their source ranges: the checks and
\* shifts of the single ops agree with validate_project, until a legacy op or a piece shorter
\* than MinDuration comes in.
EditsFitTogether == odd = {} => Valid(doc)

\* A transition belongs to a clip that meets the next one of its track.
Honest(d) == \A i \in Present(d) : d.clips[i].trans > 0 => ButtJoined(d, i)

\* Only trim_clip and set_clip_time can part two clips and leave the transition between
\* them ("clearing at write time keeps the stored state honest").
TransitionsStayHonest ==
  [][odd' = {} /\ Honest(doc) /\ ~Honest(doc') => Retime]_timelineVars

\* Which position of which source is at each time of each track; a text is the same throughout.
Shown(d) ==
  UNION {LET c == d.clips[i]
         IN  {<<c.track, c.start + k, c.media, IF KindOf[c.media] = "text" THEN 0 ELSE c.in + k>> :
              k \in 0 .. c.dur - 1} : i \in Present(d)}

\* A split changes nothing of which part of which source is where, on which track.  (Effects,
\* a fade among them, are copied to both pieces: patches.py:557; they are not modelled.)
SplitShowsTheSame ==
  [][Present(doc') # Present(doc) /\ (\E i \in Present(doc), at \in Times : Split(i, at))
       => Shown(doc') = Shown(doc)]_timelineVars
=============================================================================
