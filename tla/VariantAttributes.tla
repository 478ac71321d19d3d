------------------------- MODULE VariantAttributes -------------------------
(***************************************************************************)
(* What WriteMasterManifest says of a variant (internal/ffmpeg/            *)
(* transcoder.go): the level in its CODECS attribute, derived from tables, *)
(* and its BANDWIDTH, measured on the segments.                            *)
(*                                                                         *)
(* A variant has a codec, the name of its quality, a height, and a width   *)
(* that is 0 unless the quality is "original".                             *)
(***************************************************************************)
EXTENDS Sums, FiniteSetsExt, SequencesExt

(* The heights of the qualities that are scaled.                           *)
Heights == {360, 720, 1080, 1440}

(* The media of a variant or of an audio stream: the bytes of its init     *)
(* file, the bytes and seconds of its segments.                            *)
MediaPlaylist == [init : Nat, segments : Seq(Nat \X (Nat \ {0})) \ {<<>>}]

Variant == {v \in [codec : {"h264", "h265", "av1"}, quality : STRING,
                   height : Nat \ {0}, width : Nat, media : MediaPlaylist] :
               v.width = 0 => v.height \in Heights}

Level(name, size, rate) == [name |-> name, size |-> size, rate |-> rate]

(* Levels, with the largest picture and the highest sample rate of each.   *)
hevcLevels == <<Level(90, 552960, 16588800), Level(93, 983040, 33177600),
                Level(120, 2228224, 66846720), Level(123, 2228224, 133693440),
                Level(150, 8912896, 267386880), Level(153, 8912896, 534773760),
                Level(156, 8912896, 1069547520)>>

av1Levels == <<Level(0, 147456, 4423680), Level(1, 278784, 8363520),
               Level(4, 665856, 19975680), Level(5, 1065024, 31950720),
               Level(8, 2359296, 70778880), Level(9, 2359296, 141557760),
               Level(12, 8912896, 267386880), Level(13, 8912896, 534773760)>>

Levels(codec) == IF codec = "h265" THEN hevcLevels ELSE av1Levels

(* Faulty variants of definitions below, one plausible bug each.           *)

\* The sample rate is not compared.
FirstFittingPicture(table, size, rate) ==
    LET fit == {i \in DOMAIN table : size <= table[i].size}
    IN  IF fit = {} THEN Last(table) ELSE table[Min(fit)]

\* The last rendition that was measured, not the heaviest.
HeaviestLast(rates) == IF rates = <<>> THEN 0 ELSE Last(rates)

-----------------------------------------------------------------------------
Fits(level, size, rate) == size <= level.size /\ rate <= level.rate

(* The first level of the table that fits, or else its last.               *)
FirstFitting(table, size, rate) ==
    LET fit == {i \in DOMAIN table : Fits(table[i], size, rate)}
    IN  IF fit = {} THEN Last(table) ELSE table[Min(fit)]

(* The width a quality is taken to have, whatever the source.              *)
NominalWidth(v) == IF v.width = 0 THEN (v.height * 16) \div 9 ELSE v.width

(* The level of an H.265 or AV1 variant; fps is 30 if it is not known.     *)
VariantLevel(v, fps) ==
    LET size == NominalWidth(v) * v.height
    IN  FirstFitting(Levels(v.codec), size, size * (IF fps <= 0 THEN 30 ELSE fps)).name

(* ffmpeg's scale=-2:height keeps the aspect of the source and makes the   *)
(* width even; "original" is not scaled.                                   *)
EncodedWidth(v, shape) ==
    IF v.width # 0 THEN v.width
    ELSE 2 * ((shape.width * v.height + shape.height) \div (2 * shape.height))

EncodedSize(v, shape) == EncodedWidth(v, shape) * v.height

-----------------------------------------------------------------------------
(* measuredBandwidth: peak and average in bits per second of a playlist    *)
(* whose segments are <<bytes, seconds>>; the bytes of the init file count *)
(* in the average alone.                                                   *)
CeilRate(bytes, seconds) == (8 * bytes + seconds - 1) \div seconds

Peak(media) == Max({CeilRate(s[1], s[2]) : s \in ToSet(media.segments)})

Average(media) ==
    CeilRate(media.init + Total([i \in DOMAIN media.segments |-> media.segments[i][1]]),
             Total([i \in DOMAIN media.segments |-> media.segments[i][2]]))

(* The heaviest audio rendition, 0 if there is none.                       *)
Heaviest(rates) == IF rates = <<>> THEN 0 ELSE Max(ToSet(rates))

Bandwidth(video, audios) ==
    [peak |-> Peak(video) + Heaviest([i \in DOMAIN audios |-> Peak(audios[i])]),
     average |-> Average(video) + Heaviest([i \in DOMAIN audios |-> Average(audios[i])])]
=============================================================================
