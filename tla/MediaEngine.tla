---------------------------- MODULE MediaEngine ----------------------------
(***************************************************************************)
(* The C++ engine: how one video is split into segments, each segment is   *)
(* processed into an artifact file, and the artifacts become a GIF.        *)
(*                                                                         *)
(* Times are integers in units of what std::to_string prints, a millionth  *)
(* of a second.  A frame is <<i, k>>, the k-th of segment i.  ffmpeg and   *)
(* OpenCV are external: a run of ffmpeg succeeds or fails, and a segment   *)
(* file has the frames, the announced frame count and the picture size it  *)
(* has.                                                                    *)
(*                                                                         *)
(* Files are written in place.  When a child dies, or an operation throws, *)
(* what it had written stays.  The segments of a video are processed by    *)
(* different children at the same time, and the GIF is assembled from      *)
(* whatever files they left: that all of them are complete is the worker's *)
(* and Entry's business, not known here.                                   *)
(***************************************************************************)
EXTENDS Integers, Sequences, SequencesExt

CONSTANTS
  Requests,        \* split_video requests with what they find in the input file
  MuxerOutputs,    \* sets of segment indexes ffmpeg's segment muxer may leave
  SegmentFiles,    \* what OpenCV may find in a segment file
  MaxProcessed     \* bound: a video of more segments is split, not processed

ASSUME EngineAssumption ==
  /\ Requests \subseteq [fake : BOOLEAN, duration : Nat \ {0}, size : Nat,
                         target_duration : Nat, target_size : Nat, max_segments : Nat]
  /\ \A s \in MuxerOutputs : s \subseteq Nat /\ IsFiniteSet(s)
  /\ MaxProcessed \in Nat
  /\ SegmentFiles \subseteq [frames : Nat, announced : Int, picture : Nat \ {0}]

VARIABLES
  request,         \* the split_video request
  split,           \* "parse", "running", "completed", "failed"
  pieces,          \* response.segments: index, and what of the input it covers
  process,         \* [indexes of pieces -> ProcessPoints]
  source,          \* [indexes -> SegmentFiles]: the segment file, once it was opened
  artifact,        \* [indexes -> Artifacts]: the artifact file
  assemble,        \* AssemblePoints
  input,           \* the input handle_assemble_gif is at
  frame,           \* read_frames_ of its reader
  frames,          \* the numbered PNG files in the temporary directory
  gif              \* the GIF file

vars == <<request, split, pieces, process, source, artifact, assemble, input, frame, frames, gif>>
processVars == <<process, source, artifact>>
assembleVars == <<assemble, input, frame, frames, gif>>

ProcessPoints == {"none", "writing", "completed", "failed"}
AssemblePoints == {"none", "open", "reading", "encoding", "completed", "failed"}
NoArtifact == [header |-> FALSE, frame_count |-> 0, frames |-> <<>>]

Indexes == 0 .. Len(pieces) - 1

EngineTypeOK ==
  /\ request \in Requests
  /\ split \in {"parse", "running", "completed", "failed"}
  /\ \A k \in 1 .. Len(pieces) :
       pieces[k].index = k - 1 /\ pieces[k].start \in Nat /\ pieces[k].length \in Nat
  /\ process \in [(IF split = "completed" THEN Indexes ELSE {}) -> ProcessPoints]
  /\ \A i \in DOMAIN process :
       /\ process[i] # "none" => source[i] \in SegmentFiles
       /\ artifact[i].header => artifact[i].frame_count \in Nat \ {0}
       /\ Len(artifact[i].frames) <= artifact[i].frame_count
  /\ assemble \in AssemblePoints
  /\ input \in 0 .. Len(pieces)
  /\ frame \in Nat

EngineInit ==
  /\ request \in Requests
  /\ split = "parse" /\ pieces = <<>>
  /\ process = <<>> /\ source = <<>> /\ artifact = <<>>
  /\ assemble = "none" /\ input = 0 /\ frame = 0 /\ frames = <<>> /\ gif = <<>>

-----------------------------------------------------------------------------
(* split_video. *)

HasSplitPolicy ==
  request.target_size > 0 \/ request.target_duration > 0 \/ request.max_segments > 0

CeilDiv(a, b) == (a + b - 1) \div b

\* A slip in the count: the remainder makes no segment of its own.
SplitCountFloor ==
  LET byDuration == IF request.target_duration > 0
                    THEN request.duration \div request.target_duration ELSE 1
      bySize == IF request.target_size > 0 /\ request.size > 0
                THEN request.size \div request.target_size ELSE 1
      wanted == Max({1, byDuration, bySize})
  IN  IF request.max_segments > 0 THEN Min({wanted, request.max_segments}) ELSE wanted

SplitCount ==
  LET byDuration == IF request.target_duration > 0
                    THEN CeilDiv(request.duration, request.target_duration) ELSE 1
      bySize == IF request.target_size > 0 /\ request.size > 0
                THEN CeilDiv(request.size, request.target_size) ELSE 1
      wanted == Max({1, byDuration, bySize})
  IN  IF request.max_segments > 0 THEN Min({wanted, request.max_segments}) ELSE wanted

FakeSegments ==
  IF request.max_segments > 0 THEN request.max_segments
  ELSE IF request.target_size > 0 /\ request.size > 0
       THEN CeilDiv(request.size, request.target_size) ELSE 1

\* a / b as std::to_string prints it, in units of its last digit.
Printed(a, b) == (2 * a + b) \div (2 * b)

\* A slip in the last window: it starts where the printed windows before it end.
WindowFromPrinted(i, count) ==
  [index |-> i, start |-> i * Printed(request.duration, count),
   length |-> Printed(request.duration, count)]

\* The -ss and -t of segment i.  The last one's video_duration - start is the
\* same quotient, but for the rounding of the doubles.
Window(i, count) ==
  [index |-> i, start |-> Printed(request.duration * i, count),
   length |-> Printed(request.duration, count)]

\* A slip in the byte ranges: every segment has the same whole share.
ByteRangeFloor(i, offset) ==
  [index |-> i, start |-> offset, length |-> request.size \div FakeSegments]

\* The remaining bytes are shared by the remaining segments.
ByteRange(i, offset) ==
  [index |-> i, start |-> offset, length |-> CeilDiv(request.size - offset, FakeSegments - i)]

Covered == IF pieces = <<>> THEN 0 ELSE Last(pieces).start + Last(pieces).length

Muxed == ~request.fake /\ request.max_segments = 0
Wanted == IF request.fake THEN FakeSegments ELSE SplitCount

\* parse_request_line refuses a request without a policy.
StartSplit ==
  /\ split = "parse"
  /\ split' = IF HasSplitPolicy THEN "running" ELSE "failed"
  /\ UNCHANGED <<request, pieces, processVars, assembleVars>>

\* The response is given, and the files are there for the other operations.
EndSplit(list) ==
  /\ split' = "completed"
  /\ process' = [i \in 0 .. Len(list) - 1 |-> "none"]
  /\ source' = [i \in 0 .. Len(list) - 1 |-> {}]
  /\ artifact' = [i \in 0 .. Len(list) - 1 |-> NoArtifact]

\* One run of ffmpeg, or one copied range, per segment.
SplitSegment ==
  LET i == Len(pieces)
      piece == IF request.fake THEN ByteRange(i, Covered) ELSE Window(i, SplitCount)
      list == Append(pieces, piece)
  IN  /\ split = "running" /\ ~Muxed
      /\ pieces' = list
      /\ IF Len(list) = Wanted THEN EndSplit(list) ELSE UNCHANGED <<split, processVars>>
      /\ UNCHANGED <<request, assembleVars>>

\* The indexes of the files in ascending order.
Sorted(found) == SetToSortSeq(found, <)

\* collect_split_segments: the files in the order of their indexes, or an error.
Collect(found) ==
  LET files == 1 .. Cardinality(found)
  IN  IF \A k \in files : Sorted(found)[k] = k - 1
      THEN [k \in files |-> Sorted(found)[k]] ELSE <<>>

\* One run of ffmpeg for the whole video.  The worker takes an empty list for a
\* failed split.
SplitWithMuxer(found) ==
  LET list == [k \in 1 .. Len(Collect(found)) |->
                 [index |-> Collect(found)[k], start |-> 0, length |-> 0]]
  IN  /\ split = "running" /\ Muxed
      /\ IF list = <<>>
         THEN split' = "failed" /\ UNCHANGED <<pieces, processVars>>
         ELSE pieces' = list /\ EndSplit(list)
      /\ UNCHANGED <<request, assembleVars>>

\* ffprobe or ffmpeg fails, the disk is full or the child dies.
SplitFails ==
  /\ split = "running"
  /\ split' = "failed"
  /\ pieces' = <<>>
  /\ UNCHANGED <<request, processVars, assembleVars>>

-----------------------------------------------------------------------------
(* process_segment. *)

Becomes(i, point) == process' = [process EXCEPT ![i] = point]

\* The announced number of frames, counted if the container has none.
Expected(file) == IF file.announced > 0 THEN file.announced ELSE file.frames

\* The header goes first and says how many frames will follow.
OpenSegment(i, file) ==
  /\ process[i] = "none" /\ Len(pieces) <= MaxProcessed
  /\ source' = [source EXCEPT ![i] = file]
  /\ IF Expected(file) > 0
     THEN /\ Becomes(i, "writing")
          /\ artifact' = [artifact EXCEPT ![i] =
               [header |-> TRUE, frame_count |-> Expected(file), frames |-> <<>>]]
     ELSE Becomes(i, "failed") /\ UNCHANGED artifact
  /\ UNCHANGED <<request, split, pieces, assembleVars>>

\* Frames beyond the announced number are left out.
MoreFrames(i) ==
  Len(artifact[i].frames) < Min({source[i].frames, artifact[i].frame_count})

WriteFrame(i) ==
  /\ process[i] = "writing"
  /\ MoreFrames(i)
  /\ artifact' = [artifact EXCEPT ![i].frames = Append(@, <<i, Len(@) + 1>>)]
  /\ UNCHANGED <<request, split, pieces, process, source, assembleVars>>

\* A slip at the end: fewer frames than announced are good enough.
CloseArtifactUnchecked(i) ==
  /\ process[i] = "writing"
  /\ ~MoreFrames(i)
  /\ Becomes(i, "completed")
  /\ UNCHANGED <<request, split, pieces, source, artifact, assembleVars>>

\* The response says completed, or "segment frame count changed while processing".
CloseArtifact(i) ==
  /\ process[i] = "writing"
  /\ ~MoreFrames(i)
  /\ Becomes(i, IF Len(artifact[i].frames) = artifact[i].frame_count
                THEN "completed" ELSE "failed")
  /\ UNCHANGED <<request, split, pieces, source, artifact, assembleVars>>

\* The child dies or a write fails.  The stream was buffered: of what was written
\* so far a prefix is in the file, of n frames or not even the header.
ProcessDies(i, n) ==
  /\ process[i] = "writing"
  /\ n \in -1 .. Len(artifact[i].frames)
  /\ Becomes(i, "failed")
  /\ artifact' = [artifact EXCEPT ![i] =
       IF n = -1 THEN NoArtifact
       ELSE [artifact[i] EXCEPT !.frames = SubSeq(artifact[i].frames, 1, n)]]
  /\ UNCHANGED <<request, split, pieces, source, assembleVars>>

-----------------------------------------------------------------------------
(* assemble_gif. *)

Assembles(point) ==
  /\ assemble' = point
  /\ UNCHANGED <<request, split, pieces, processVars>>

StartAssemble ==
  /\ assemble = "none"
  /\ split = "completed"
  /\ \A i \in Indexes : process[i] \in {"completed", "failed"}
  /\ Assembles("open")
  /\ UNCHANGED <<input, frame, frames, gif>>

\* ArtifactReader and the comparison with the first input's picture size.
Readable(i) == artifact[i].header /\ source[i].picture = source[0].picture

OpenInput ==
  /\ assemble = "open" /\ input \in Indexes
  /\ Assembles(IF Readable(input) THEN "reading" ELSE "failed")
  /\ frame' = 0
  /\ UNCHANGED <<input, frames, gif>>

\* A slip in the reader: the end of the file ends the frames.
NextFrameUntilEnd ==
  LET file == artifact[input] IN
  IF frame >= Len(file.frames) THEN "end" ELSE "frame"

\* next_frame: a frame, no more frames, or "truncated artifact".
NextFrame ==
  LET file == artifact[input] IN
  IF frame >= file.frame_count THEN "end"
  ELSE IF frame < Len(file.frames) THEN "frame" ELSE "truncated"

ReadFrame ==
  /\ assemble = "reading"
  /\ \/ /\ NextFrame = "frame"
        /\ Assembles("reading")
        /\ frame' = frame + 1
        /\ frames' = Append(frames, artifact[input].frames[frame + 1])
        /\ UNCHANGED input
     \/ NextFrame = "end" /\ Assembles("open") /\ input' = input + 1 /\ UNCHANGED <<frame, frames>>
     \/ NextFrame = "truncated" /\ Assembles("failed") /\ UNCHANGED <<input, frame, frames>>
  /\ UNCHANGED gif

AllRead ==
  /\ assemble = "open" /\ input \notin Indexes
  /\ Assembles(IF frames = <<>> THEN "failed" ELSE "encoding")
  /\ UNCHANGED <<input, frame, frames, gif>>

\* ffmpeg reads the files by number.
Encode ==
  /\ assemble = "encoding"
  /\ Assembles("completed")
  /\ gif' = frames
  /\ UNCHANGED <<input, frame, frames>>

\* ffmpeg fails or the child dies; the GIF may be there in part.
AssembleDies ==
  /\ assemble \in {"open", "reading", "encoding"}
  /\ Assembles("failed")
  /\ \E n \in 0 .. (IF assemble = "encoding" THEN Len(frames) ELSE 0) : gif' = SubSeq(frames, 1, n)
  /\ UNCHANGED <<input, frame, frames>>

-----------------------------------------------------------------------------
Answered ==
  split = "failed" \/ Len(pieces) > MaxProcessed \/ assemble \in {"completed", "failed"}

EngineNext ==
  \/ StartSplit
  \/ SplitSegment
  \/ \E found \in MuxerOutputs : SplitWithMuxer(found)
  \/ SplitFails
  \/ \E i \in DOMAIN process, file \in SegmentFiles : OpenSegment(i, file)
  \/ \E i \in DOMAIN process : WriteFrame(i) \/ CloseArtifact(i)
  \/ \E i \in DOMAIN process : \E n \in -1 .. Len(artifact[i].frames) : ProcessDies(i, n)
  \/ StartAssemble
  \/ OpenInput
  \/ ReadFrame
  \/ AllRead
  \/ Encode
  \/ AssembleDies
  \/ Answered /\ UNCHANGED vars

EngineSpec == EngineInit /\ [][EngineNext]_vars

-----------------------------------------------------------------------------
(* Properties. *)

\* The windows follow each other from the start to the end of the video: two
\* neighbours leave a gap of, or share, at most one printed unit, however the
\* duration divides, and the error does not add up.
WindowsTile ==
  split = "completed" /\ ~request.fake /\ ~Muxed =>
    LET end(k) == pieces[k].start + pieces[k].length
        near(a, b) == a - b \in -1 .. 1
    IN  /\ pieces[1].start = 0
        /\ \A k \in 2 .. Len(pieces) : near(pieces[k].start, end(k - 1))
        /\ near(end(Len(pieces)), request.duration)

\* The segments are numbered without a gap, whichever way they were made; and a
\* bounded split keeps to its policy: no more segments than allowed, and when
\* fewer than that, none longer or larger than the target.
SplitFollowsPolicy ==
  split = "completed" =>
    /\ \A k \in 1 .. Len(pieces) : pieces[k].index = k - 1
    /\ ~request.fake /\ ~Muxed =>
         /\ Len(pieces) <= request.max_segments
         /\ Len(pieces) < request.max_segments =>
              /\ request.target_duration > 0 =>
                   request.duration <= Len(pieces) * request.target_duration
              /\ request.target_size > 0 => request.size <= Len(pieces) * request.target_size

\* The fake split hands out every byte once, also when there are fewer bytes than
\* segments.
BytesPartitioned ==
  split = "completed" /\ request.fake =>
    /\ \A k \in 2 .. Len(pieces) : pieces[k].start = pieces[k - 1].start + pieces[k - 1].length
    /\ Covered = request.size
    /\ \A k, l \in 1 .. Len(pieces) : pieces[k].length - pieces[l].length <= 1

\* A segment reported complete has the artifact its header describes, whatever
\* the container announced.
CompletedArtifactIsWhole ==
  \A i \in DOMAIN process : process[i] = "completed" =>
    /\ artifact[i].header
    /\ artifact[i].frames = [k \in 1 .. artifact[i].frame_count |-> <<i, k>>]

FramesOf(i) == [k \in 1 .. Expected(source[i]) |-> <<i, k>>]

\* A GIF is reported complete only if it has all announced frames of all segments,
\* in the order of the segments: a file that a dead child left in part is noticed,
\* at whatever frame it ends.  What a container holds beyond the count it announces
\* is dropped by process_segment.
GifIsWhole ==
  assemble = "completed" =>
    gif = FlattenSeq([k \in 1 .. Len(pieces) |-> FramesOf(k - 1)])
=============================================================================
