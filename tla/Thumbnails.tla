----------------------------- MODULE Thumbnails -----------------------------
(***************************************************************************)
(* The sprite of a video and everything that describes it: the mosaic      *)
(* ffmpeg is asked for and the image stream playlist                       *)
(* (internal/ffmpeg/thumbnail.go), the storyboard recorded in the row      *)
(* (internal/worker/worker.go) and the cues the API derives from it        *)
(* (internal/service/video.go).  Four pieces of code each work out the     *)
(* grid; nothing but their arithmetic keeps them together.                 *)
(*                                                                         *)
(* Durations are in milliseconds.  A setting has the fields of             *)
(* ThumbnailConfig that shape the sprite.                                  *)
(***************************************************************************)
EXTENDS Integers

Setting == [columns : Int, interval : Int, width : Int, height : Int]

DefaultThumbnails == [columns |-> 10, interval |-> 10, width |-> 320, height |-> 180]

(* A field that is not positive takes its default.                         *)
WithDefaults(c) == [f \in DOMAIN c |-> IF c[f] < 1 THEN DefaultThumbnails[f] ELSE c[f]]

Ceil(a, b) == (a + b - 1) \div b

(* Faulty variants of definitions below, one plausible bug each.           *)

\* The part of an interval at the end of the video gets no tile.
TileCountFloored(duration, interval) ==
    LET n == duration \div (1000 * interval) IN IF n < 1 THEN 1 ELSE n

\* The partial row at the end is left out.
RowsFloored(count, columns) == IF count \div columns < 1 THEN 1 ELSE count \div columns

-----------------------------------------------------------------------------
TileCount(duration, interval) ==
    LET n == Ceil(duration, 1000 * interval) IN IF n < 1 THEN 1 ELSE n

Rows(count, columns) == Ceil(count, columns)

(* The mosaic: fps=1/interval, scale=width:height, tile=columns x rows.    *)
GenerateSprite(duration, setting) ==
    LET c == WithDefaults(setting)
    IN  [interval |-> c.interval, width |-> c.width, height |-> c.height,
         columns |-> c.columns,
         rows |-> Rows(TileCount(duration, c.interval), c.columns)]

(* EXT-X-TILES of the image stream: RESOLUTION, LAYOUT and DURATION.       *)
ImageStreamTiles(duration, setting) ==
    LET c == WithDefaults(setting)
    IN  [interval |-> c.interval, width |-> c.width, height |-> c.height,
         columns |-> c.columns,
         rows |-> Rows(TileCount(duration, c.interval), c.columns)]

(* What setStoryboard records, with a count worked out anew.               *)
StoryboardCount(duration, interval) ==
    LET n == Ceil(duration, 1000 * interval) IN IF n < 1 THEN 1 ELSE n

Storyboard(duration, setting) ==
    LET c == WithDefaults(setting)
    IN  [interval |-> c.interval, width |-> c.width, height |-> c.height,
         columns |-> c.columns, count |-> StoryboardCount(duration, c.interval)]

(* GetStoryboard: one cue for each tile, none if the metadata is unusable. *)
Cue(board, duration, i) ==
    LET end == 1000 * (i + 1) * board.interval
    IN  [start |-> 1000 * i * board.interval,
         end |-> IF end > duration THEN duration ELSE end,
         width |-> board.width, height |-> board.height,
         x |-> (i % board.columns) * board.width,
         y |-> (i \div board.columns) * board.height]

Cues(board, duration) ==
    IF board.interval < 1 \/ board.columns < 1 \/ board.count < 1 THEN <<>>
    ELSE [i \in 1 .. board.count |-> Cue(board, duration, i - 1)]

-----------------------------------------------------------------------------
(* The cues cut the whole duration into consecutive stretches of time,     *)
(* none of them empty.                                                     *)
CuesCover(cues, duration) ==
    /\ cues # <<>>
    /\ cues[1].start = 0
    /\ \A i \in DOMAIN cues :
          /\ cues[i].start < cues[i].end
          /\ cues[i].end = IF i + 1 \in DOMAIN cues THEN cues[i + 1].start ELSE duration

(* Each cue shows a tile of the sprite, another for each, and only the     *)
(* last row of the sprite may have tiles to spare.                         *)
CuesInSprite(cues, sprite) ==
    /\ \A i \in DOMAIN cues :
          /\ cues[i].width = sprite.width /\ cues[i].height = sprite.height
          /\ \E column \in 0 .. sprite.columns - 1, row \in 0 .. sprite.rows - 1 :
                /\ cues[i].x = column * sprite.width
                /\ cues[i].y = row * sprite.height
                /\ i = row * sprite.columns + column + 1
    /\ \E i \in DOMAIN cues : cues[i].y = (sprite.rows - 1) * sprite.height
=============================================================================
