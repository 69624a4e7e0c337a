------------------------------ MODULE Segments ------------------------------
(***************************************************************************)
(* The segments of a transcription: stitched from the parts of the audio   *)
(* that are transcribed one by one (app/jobs/jdr.py, audio.py), and merged *)
(* into paragraphs in the Markdown export (app/services/jdr/markdown.py).  *)
(* A segment is [speaker, start, end, text], text a sequence of pieces.    *)
(***************************************************************************)
EXTENDS Integers, SequencesExt

MutantStitch(parts, duration) ==
  LET shift(seg, offset) == [seg EXCEPT !.start = @ + offset]
  IN FlattenSeq([i \in DOMAIN parts |->
                   [j \in DOMAIN parts[i] |->
                      shift(parts[i][j], (i - 1) * duration)]])

(* chunked_audio, _transcribe_with_optional_chunking: part i starts        *)
(* (i - 1) * duration into the audio; a duration of 0 means one part.      *)
Stitch(parts, duration) ==
  LET shift(seg, offset) == [seg EXCEPT !.start = @ + offset,
                                        !.end = @ + offset]
  IN FlattenSeq([i \in DOMAIN parts |->
                   [j \in DOMAIN parts[i] |->
                      shift(parts[i][j], (i - 1) * duration)]])

MutantMerge(out, seg, gap) ==
  LET last == out[Len(out)] IN
  IF /\ out # <<>>
     /\ last.speaker = seg.speaker
     /\ seg.start - last.end < gap
  THEN Front(out) \o <<[last EXCEPT !.text = @ \o seg.text]>>
  ELSE Append(out, seg)

(* One turn of the loop.                                                   *)
Merge(out, seg, gap) ==
  LET last == out[Len(out)] IN
  IF /\ out # <<>>
     /\ last.speaker = seg.speaker
     /\ seg.start - last.end < gap
  THEN Front(out) \o <<[last EXCEPT !.end = seg.end,
                                    !.text = @ \o seg.text]>>
  ELSE Append(out, seg)

(* _group_consecutive_speaker_segments.                                    *)
GroupSegments(segments, gap) ==
  FoldLeft(LAMBDA out, seg : Merge(out, seg, gap), <<>>, segments)
=============================================================================
