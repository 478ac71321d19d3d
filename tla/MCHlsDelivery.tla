--------------------------- MODULE MCHlsDelivery ---------------------------
(* Videos of four kinds, each rich in one respect: the tracks, their       *)
(* titles, the sprite, the shape of the picture.                           *)
EXTENDS HlsDelivery

(* Media that weigh differently in their peaks and in their averages.      *)
Media(n) == [init |-> 10 * n,
             segments |-> IF n % 2 = 0 THEN <<<<100 * n + 100, 4>>, <<300, 3>>>>
                          ELSE <<<<200 * n, 1>>, <<40, 4>>, <<20, 1>>>>]

Track(i, lang, title) == [index |-> i, language |-> lang, title |-> title, media |-> Media(i + 1)]

Tracks(i) == {Track(i, lang, "") : lang \in {"", "und", "eng"}}

AudioLists == {<<>>} \cup {<<a>> : a \in Tracks(0) \cup Tracks(1)}
              \cup {<<a, b>> : a \in Tracks(0), b \in Tracks(1)}

HeightOf == "360p" :> 360 @@ "720p" :> 720 @@ "1080p" :> 1080 @@ "1440p" :> 1440

Scaled(codec, quality) == [codec |-> codec, quality |-> quality, height |-> HeightOf[quality],
                            width |-> 0, media |-> Media(3)]

Original(codec, shape) == [codec |-> codec, quality |-> "original", height |-> shape.height,
                           width |-> shape.width, media |-> Media(4)]

Shape(w, h) == [width |-> w, height |-> h]
Full == Shape(1920, 1080)
Thumbs(columns, interval) == [columns |-> columns, interval |-> interval,
                              width |-> 160, height |-> 90]

Sized(audio, subtitles, variants, image) ==
    [audio : audio, subtitles : subtitles, variants : variants, image : image,
     duration : {95000}, thumbs : {Thumbs(0, 0)}, shape : {Full}, fps : {25}]

TrackSources ==
    Sized(AudioLists, {<<>>, <<Track(0, "eng", ""), Track(1, "und", "")>>},
          {<<Scaled("h264", "360p")>>}, {TRUE})
    \cup
    Sized(AudioLists, {<<>>, <<Track(1, "eng", "")>>},
          {<<Scaled("h264", "360p"), Scaled("h264", "720p"), Scaled("av1", "360p")>>}, {TRUE})

(* Three audio streams whose titles may be missing or end in a number.     *)
Titled(i) == {Track(i, "eng", title) : title \in {"", "A", "A 2"}}

TitledSources == Sized({<<a, b, c>> : a \in Titled(0), b \in Titled(1), c \in Titled(2)},
                       {<<>>}, {<<Scaled("h264", "360p")>>}, {FALSE})

(* Sprites of one tile, of a full row, of a row and a tile, ...            *)
SpriteSources ==
    [audio : {<<>>}, subtitles : {<<>>}, variants : {<<Scaled("h264", "360p")>>},
     image : {TRUE}, shape : {Full}, fps : {25}, thumbs : {Thumbs(3, 2)},
     duration : {1, 1999, 2000, 2001, 5999, 6000, 6001, 12000, 12001}]
    \cup
    [audio : {<<>>}, subtitles : {<<>>}, variants : {<<Scaled("h264", "360p")>>},
     image : {TRUE}, shape : {Full}, fps : {25}, thumbs : {Thumbs(0, 0), Thumbs(1, -1)},
     duration : {9999, 10000, 100000, 100001}]

(* Ladders of H.265 and AV1 from pictures of some shapes and frame rates,  *)
(* without the qualities that are too tall for them.                       *)
Ladder(shape) ==
    SelectSeq(<<Scaled("h265", "720p"), Scaled("h265", "1080p"), Original("h265", shape),
                Scaled("av1", "720p"), Scaled("av1", "1080p"), Original("av1", shape)>>,
              LAMBDA v : v.height <= (shape.height * 120) \div 100)

ShapedSource(shape, fps) ==
    [audio |-> <<>>, subtitles |-> <<>>, variants |-> Ladder(shape), image |-> FALSE,
     duration |-> 95000, thumbs |-> Thumbs(0, 0), shape |-> shape, fps |-> fps]

ShapedSources == {ShapedSource(shape, fps) : fps \in {24, 60},
                      shape \in {Full, Shape(1440, 1080), Shape(3840, 2160), Shape(1080, 1920)}}

(* The shape of a film: 2.39:1.                                            *)
WideSources == {ShapedSource(Shape(1920, 804), fps) : fps \in {24, 60}}

MCSources == TrackSources \cup TitledSources \cup SpriteSources \cup ShapedSources \cup WideSources

MCCodecs == {"av1"}
MCIndexes == {0, 1}
=============================================================================
