------------------------- MODULE HlsDeliveryProofs -------------------------
(***************************************************************************)
(* What a player is served, for every video: any number of streams and     *)
(* variants, whatever they are called, weigh and measure, and however the  *)
(* player goes from playlist to playlist while the clock runs.             *)
(***************************************************************************)
EXTENDS HlsDelivery, ThumbnailsProofs, NumberLemmas, SequenceTheorems

-----------------------------------------------------------------------------
(* Bandwidths.                                                             *)

LEMMA Largest ==
    ASSUME NEW n \in Nat \ {0}, NEW f \in [1 .. n -> Int]
    PROVE  /\ Max({f[i] : i \in 1 .. n}) \in Int
           /\ \A i \in 1 .. n : f[i] <= Max({f[j] : j \in 1 .. n})
<1> DEFINE S == {f[i] : i \in 1 .. n}
<1>1. PICK i \in 1 .. n : \A j \in 1 .. n : f[j] <= f[i]
  BY LargestValue
<1>2. S \subseteq Int /\ f[i] \in S /\ \A y \in S : f[i] >= y
  BY <1>1
<1>3. Max(S) \in S /\ \A y \in S : Max(S) >= y
  <2> HIDE DEF S
  <2> QED BY <1>2 DEF Max
<1>4. \A j \in 1 .. n : f[j] \in S
  OBVIOUS
<1> HIDE DEF S
<1>5. Max(S) \in Int /\ \A j \in 1 .. n : f[j] <= Max(S)
  BY <1>2, <1>3, <1>4
<1> QED BY <1>5 DEF S

LEMMA RateType ==
    ASSUME NEW bytes \in Nat, NEW seconds \in Nat \ {0}
    PROVE  CeilRate(bytes, seconds) \in Int
BY DEF CeilRate

LEMMA SegmentsOf ==
    ASSUME NEW m \in MediaPlaylist
    PROVE  /\ m.init \in Nat /\ Len(m.segments) \in Nat \ {0}
           /\ m.segments \in [1 .. Len(m.segments) -> Nat \X (Nat \ {0})]
<1>1. m.segments \in Seq(Nat \X (Nat \ {0})) /\ m.segments # <<>>
  BY DEF MediaPlaylist
<1> QED BY <1>1 DEF MediaPlaylist

LEMMA PeakType ==
    ASSUME NEW m \in MediaPlaylist
    PROVE  Peak(m) \in Int
<1> DEFINE n == Len(m.segments)
           f == [i \in 1 .. n |-> CeilRate(m.segments[i][1], m.segments[i][2])]
<1>1. n \in Nat \ {0} /\ m.segments \in [1 .. n -> Nat \X (Nat \ {0})]
  BY SegmentsOf
<1>2. \A i \in 1 .. n : m.segments[i][1] \in Nat /\ m.segments[i][2] \in Nat \ {0}
  BY <1>1
<1>3. f \in [1 .. n -> Int]
  BY <1>2, RateType
<1>4. {CeilRate(s[1], s[2]) : s \in ToSet(m.segments)} = {f[i] : i \in 1 .. n}
  BY <1>1 DEF ToSet
<1>5. Max({f[i] : i \in 1 .. n}) \in Int
  <2> HIDE DEF f, n
  <2> QED BY <1>1, <1>3, Largest
<1> HIDE DEF f
<1> QED BY <1>4, <1>5 DEF Peak

LEMMA AverageType ==
    ASSUME NEW m \in MediaPlaylist
    PROVE  Average(m) \in Int
<1> DEFINE bytes == [i \in DOMAIN m.segments |-> m.segments[i][1]]
           seconds == [i \in DOMAIN m.segments |-> m.segments[i][2]]
           n == Len(m.segments)
<1>1. m.init \in Nat /\ n \in Nat \ {0} /\ m.segments \in [1 .. n -> Nat \X (Nat \ {0})]
  BY SegmentsOf
<1>2. \A i \in 1 .. n : m.segments[i][1] \in Nat /\ m.segments[i][2] \in Nat \ {0}
  BY <1>1
<1>3. bytes \in Seq(Nat) /\ seconds \in Seq(Nat) /\ Len(seconds) = n /\ seconds[1] \in Nat \ {0}
  <2>1. bytes \in [1 .. n -> Nat] /\ seconds \in [1 .. n -> Nat] /\ 1 \in 1 .. n
    BY <1>1, <1>2
  <2>2. seconds[1] \in Nat \ {0}
    BY <1>1, <1>2, <2>1
  <2>3. n \in Nat
    BY <1>1
  <2> HIDE DEF bytes, seconds, n
  <2>4. bytes \in Seq(Nat) /\ seconds \in Seq(Nat)
    BY <2>1, <2>3
  <2>5. Len(seconds) = n
    BY <2>1, <2>3, <2>4
  <2> QED BY <2>2, <2>4, <2>5
<1> HIDE DEF bytes, seconds
<1>4. Total(bytes) \in Nat /\ Total(seconds) \in Nat /\ seconds[1] <= Total(seconds)
  BY <1>1, <1>3, TotalOfNaturals
<1>5. m.init + Total(bytes) \in Nat /\ Total(seconds) \in Nat \ {0}
  BY <1>1, <1>3, <1>4
<1>6. CeilRate(m.init + Total(bytes), Total(seconds)) \in Int
  BY <1>5, RateType
<1> QED BY <1>6 DEF Average, bytes, seconds

(* The heaviest rendition is no lighter than any.                          *)
LEMMA HeaviestBounds ==
    ASSUME NEW n \in Nat, NEW rates \in [1 .. n -> Int], NEW k \in 1 .. n
    PROVE  Heaviest(rates) \in Int /\ rates[k] <= Heaviest(rates)
<1>1. n \in Nat \ {0} /\ rates # <<>>
  OBVIOUS
<1>2. ToSet(rates) = {rates[i] : i \in 1 .. n}
  BY DEF ToSet
<1> QED BY <1>1, <1>2, Largest DEF Heaviest

LEMMA BandwidthBounds ==
    ASSUME NEW video \in MediaPlaylist, NEW n \in Nat,
           NEW audios \in [1 .. n -> MediaPlaylist], NEW k \in 1 .. n
    PROVE  /\ Bandwidth(video, audios).peak >= Peak(video) + Peak(audios[k])
           /\ Bandwidth(video, audios).average >= Average(video) + Average(audios[k])
<1> DEFINE peaks == [i \in DOMAIN audios |-> Peak(audios[i])]
           averages == [i \in DOMAIN audios |-> Average(audios[i])]
<1>1. peaks \in [1 .. n -> Int] /\ averages \in [1 .. n -> Int]
  BY PeakType, AverageType
<1>2. peaks[k] = Peak(audios[k]) /\ averages[k] = Average(audios[k])
  OBVIOUS
<1>3. Peak(video) \in Int /\ Average(video) \in Int
  BY PeakType, AverageType
<1>4. /\ Bandwidth(video, audios).peak = Peak(video) + Heaviest(peaks)
      /\ Bandwidth(video, audios).average = Average(video) + Heaviest(averages)
  BY DEF Bandwidth
<1> HIDE DEF peaks, averages
<1>5. /\ Heaviest(peaks) \in Int /\ peaks[k] <= Heaviest(peaks) /\ peaks[k] \in Int
      /\ Heaviest(averages) \in Int /\ averages[k] <= Heaviest(averages) /\ averages[k] \in Int
  BY <1>1, HeaviestBounds
<1> QED BY <1>2, <1>3, <1>4, <1>5

-----------------------------------------------------------------------------
(* Levels.                                                                 *)

(* The last level of each table admits what any other does.                *)
LEMMA LevelsRange ==
    ASSUME NEW codec
    PROVE  LET table == Levels(codec)
           IN  \E n \in Nat \ {0} :
                  /\ DOMAIN table = 1 .. n /\ Last(table) = table[n]
                  /\ \A i \in 1 .. n :
                        /\ table[i].size \in Nat /\ table[i].rate \in Nat
                        /\ table[i].size <= table[n].size /\ table[i].rate <= table[n].rate
<1>1. CASE codec = "h265"
  <2>1. Levels(codec) = hevcLevels
    BY <1>1 DEF Levels
  <2>2. DOMAIN hevcLevels = 1 .. 7 /\ Last(hevcLevels) = hevcLevels[7]
    BY DEF hevcLevels, Last
  <2>3. \A i \in 1 .. 7 :
            /\ hevcLevels[i].size \in Nat /\ hevcLevels[i].rate \in Nat
            /\ hevcLevels[i].size <= hevcLevels[7].size
            /\ hevcLevels[i].rate <= hevcLevels[7].rate
    BY DEF hevcLevels, Level
  <2> QED BY <2>1, <2>2, <2>3
<1>2. CASE codec # "h265"
  <2>1. Levels(codec) = av1Levels
    BY <1>2 DEF Levels
  <2>2. DOMAIN av1Levels = 1 .. 8 /\ Last(av1Levels) = av1Levels[8]
    BY DEF av1Levels, Last
  <2>3. \A i \in 1 .. 8 :
            /\ av1Levels[i].size \in Nat /\ av1Levels[i].rate \in Nat
            /\ av1Levels[i].size <= av1Levels[8].size
            /\ av1Levels[i].rate <= av1Levels[8].rate
    BY DEF av1Levels, Level
  <2> QED BY <2>1, <2>2, <2>3
<1> QED BY <1>1, <1>2

(* The level chosen for a picture admits a smaller one, if any level does. *)
LEMMA ChosenAdmits ==
    ASSUME NEW codec, NEW size \in Int, NEW rate \in Int,
           NEW small \in Int, NEW slow \in Int, small <= size, slow <= rate,
           \E level \in ToSet(Levels(codec)) : Fits(level, small, slow)
    PROVE  Admits(FirstFitting(Levels(codec), size, rate).name, codec, small, slow)
<1> DEFINE table == Levels(codec)
           fit == {i \in DOMAIN table : Fits(table[i], size, rate)}
<1>1. PICK n \in Nat \ {0} :
          /\ DOMAIN table = 1 .. n /\ Last(table) = table[n]
          /\ \A i \in 1 .. n :
                /\ table[i].size \in Nat /\ table[i].rate \in Nat
                /\ table[i].size <= table[n].size /\ table[i].rate <= table[n].rate
  BY LevelsRange
<1> HIDE DEF table
<1>2. ASSUME NEW k \in 1 .. n, Fits(table[k], small, slow),
             FirstFitting(table, size, rate) = table[k]
      PROVE  Admits(FirstFitting(table, size, rate).name, codec, small, slow)
  <2>1. table[k] \in ToSet(Levels(codec))
    BY <1>1 DEF ToSet, table
  <2> QED BY <1>2, <2>1 DEF Admits
<1>3. CASE fit = {}
  <2>1. PICK level \in ToSet(table) : Fits(level, small, slow)
    BY DEF table
  <2>2. PICK i \in 1 .. n : level = table[i]
    BY <1>1, <2>1 DEF ToSet
  <2>3. Fits(table[n], small, slow)
    BY <1>1, <2>1, <2>2 DEF Fits
  <2>4. FirstFitting(table, size, rate) = table[n]
    BY <1>1, <1>3 DEF FirstFitting
  <2> QED BY <1>2, <2>3, <2>4 DEF table
<1>4. CASE fit # {}
  <2>1. Min(fit) \in fit
    <3>1. fit \subseteq Nat
      BY <1>1
    <3> HIDE DEF fit
    <3>2. PICK x \in fit : \A y \in fit : x <= y
      BY <1>4, <3>1, LeastElement
    <3> QED BY <3>2 DEF Min
  <2>2. Min(fit) \in 1 .. n /\ Fits(table[Min(fit)], size, rate)
    BY <1>1, <2>1
  <2>3. FirstFitting(table, size, rate) = table[Min(fit)]
    BY <1>4 DEF FirstFitting
  <2> HIDE DEF fit
  <2>4. Fits(table[Min(fit)], small, slow)
    BY <1>1, <2>2 DEF Fits
  <2> QED BY <1>2, <2>2, <2>3, <2>4 DEF table
<1> QED BY <1>3, <1>4 DEF table

(* A picture that is not wider than 16:9 is encoded no larger than its     *)
(* level was chosen for: the heights of the ladder are multiples of 9, so  *)
(* that their nominal width is exact, and even.                            *)
LEMMA EncodedWithinNominal ==
    ASSUME NEW v \in Variant, NEW w \in Nat \ {0}, NEW h \in Nat \ {0},
           NEW shape, shape.width = w, shape.height = h, w * 9 <= h * 16
    PROVE  /\ NominalWidth(v) \in Nat /\ EncodedWidth(v, shape) \in Nat
           /\ EncodedWidth(v, shape) <= NominalWidth(v)
<1>1. v.width \in Nat /\ v.height \in Nat \ {0} /\ (v.width = 0 => v.height \in Heights)
  BY DEF Variant
<1>2. CASE v.width # 0
  BY <1>1, <1>2 DEF NominalWidth, EncodedWidth
<1>3. CASE v.width = 0
  <2>1. PICK k \in Nat \ {0} : v.height = 9 * k
    <3>1. v.height = 9 * 40 \/ v.height = 9 * 80 \/ v.height = 9 * 120 \/ v.height = 9 * 160
      BY <1>1, <1>3 DEF Heights
    <3> QED BY <3>1
  <2>2. NominalWidth(v) = 16 * k
    BY <1>3, <2>1 DEF NominalWidth
  <2> DEFINE q == (w * v.height + h) \div (2 * h)
  <2>3. w * v.height \in Nat /\ w * v.height <= 16 * (h * k)
    <3>1. (w * 9) * k <= (h * 16) * k
      <4>1. w * 9 \in Int /\ h * 16 \in Int
        OBVIOUS
      <4> QED BY <4>1, TimesMonotone
    <3>2. w * v.height = (w * 9) * k /\ (h * 16) * k = 16 * (h * k)
      BY <2>1
    <3> QED BY <1>1, <3>1, <3>2
  <2>4. q \in Nat /\ q * (2 * h) <= w * v.height + h
    <3> DEFINE a == w * v.height + h
               b == 2 * h
    <3>1. a \in Nat /\ b \in Nat \ {0}
      BY <2>3
    <3>2. q = a \div b
      OBVIOUS
    <3> HIDE DEF a, b
    <3>3. a \div b \in Nat /\ a % b \in 0 .. b - 1 /\ a = (a \div b) * b + (a % b)
      BY <3>1, Quotient
    <3>4. (a \div b) * b \in Int /\ a % b \in Nat
      BY <3>1, <3>3
    <3>5. (a \div b) * b <= a
      BY <3>3, <3>4
    <3> QED BY <3>2, <3>3, <3>5 DEF a, b
  <2>5. q <= 8 * k
    <3>1. SUFFICES ASSUME q >= 8 * k + 1 PROVE FALSE
      BY <2>1, <2>4
    <3>2. (8 * k + 1) * (2 * h) <= q * (2 * h)
      <4>1. 8 * k + 1 \in Int /\ q \in Int /\ 2 * h \in Nat
        BY <2>4
      <4> HIDE DEF q
      <4> QED BY <3>1, <4>1, TimesMonotone
    <3>3. (8 * k + 1) * (2 * h) = 16 * (h * k) + 2 * h
      OBVIOUS
    <3>4. h * k \in Nat /\ q * (2 * h) \in Int
      BY <2>4
    <3> QED BY <2>3, <2>4, <3>2, <3>3, <3>4
  <2>6. EncodedWidth(v, shape) = 2 * q
    BY <1>3 DEF EncodedWidth
  <2> HIDE DEF q
  <2> QED BY <2>1, <2>2, <2>4, <2>5, <2>6
<1> QED BY <1>2, <1>3

(* The level of a variant admits what is encoded, if any level does.       *)
LEMMA VariantLevelCovers ==
    ASSUME NEW v \in Variant, source \in Source,
           source.shape.width * 9 <= source.shape.height * 16
    PROVE  LevelCovers(v, VariantLevel(v, source.fps))
<1> DEFINE w == source.shape.width
           h == source.shape.height
           wide == NominalWidth(v)
           narrow == EncodedWidth(v, source.shape)
           fps == IF source.fps <= 0 THEN 30 ELSE source.fps
<1>1. /\ v.height \in Nat /\ w \in Nat \ {0} /\ h \in Nat \ {0}
      /\ source.fps \in Nat /\ fps \in Nat /\ source.fps <= fps
  BY DEF Source, Variant
<1>2. wide \in Nat /\ narrow \in Nat /\ narrow <= wide
  BY <1>1, EncodedWithinNominal
<1> HIDE DEF wide, narrow, fps
<1>3. /\ wide * v.height \in Nat /\ narrow * v.height \in Nat
      /\ narrow * v.height <= wide * v.height
  BY <1>1, <1>2, TimesMonotone
<1> DEFINE size == wide * v.height
           small == narrow * v.height
<1> HIDE DEF size, small
<1>4. size \in Nat /\ small \in Nat /\ small <= size
  BY <1>3 DEF size, small
<1>5. /\ size * fps \in Nat /\ small * source.fps \in Nat
      /\ small * source.fps <= size * fps
  <2>1. small * source.fps <= size * source.fps
    BY <1>1, <1>4, TimesMonotone
  <2>2. source.fps * size <= fps * size
    BY <1>1, <1>4, TimesMonotone
  <2>3. /\ source.fps * size = size * source.fps /\ fps * size = size * fps
        /\ size * source.fps \in Int /\ size * fps \in Nat /\ small * source.fps \in Nat
    BY <1>1, <1>4
  <2> QED BY <2>1, <2>2, <2>3
<1>6. EncodedSize(v, source.shape) = small
  BY DEF EncodedSize, small, narrow
<1>7. VariantLevel(v, source.fps) = FirstFitting(Levels(v.codec), size, size * fps).name
  BY DEF VariantLevel, size, wide, fps
<1>8. ASSUME \E level \in ToSet(Levels(v.codec)) : Fits(level, small, small * source.fps)
      PROVE  Admits(VariantLevel(v, source.fps), v.codec, small, small * source.fps)
  <2> DEFINE rate == size * fps
             slow == small * source.fps
  <2>1. rate \in Int /\ slow \in Int /\ slow <= rate
    BY <1>5
  <2>2. \E level \in ToSet(Levels(v.codec)) : Fits(level, small, slow)
    BY <1>8
  <2> HIDE DEF rate, slow
  <2>3. Admits(FirstFitting(Levels(v.codec), size, rate).name, v.codec, small, slow)
    BY <1>4, <2>1, <2>2, ChosenAdmits
  <2> QED BY <1>7, <2>3 DEF rate, slow
<1> QED BY <1>6, <1>8 DEF LevelCovers

-----------------------------------------------------------------------------
(* The files.                                                              *)

LEMMA DirsAreSequences ==
    ASSUME source \in Source, NEW d \in Dirs
    PROVE  d \o <<>> = d /\ <<>> \o d = d
<1> DEFINE Name == STRING \cup Nat \cup {"h264", "h265", "av1", "audio", "subs", "images"}
<1>1. d \in Seq(Name)
  <2>1. ASSUME NEW v \in ToSet(source.variants) PROVE VariantDir(v) \in Seq(Name)
    <3>1. v \in Variant
      BY DEF Source, ToSet
    <3>2. v.codec \in {"h264", "h265", "av1"} /\ v.quality \in STRING
      BY <3>1 DEF Variant
    <3> QED BY <3>2 DEF VariantDir
  <2>2. ASSUME NEW s \in ToSet(source.audio) \cup ToSet(source.subtitles)
        PROVE  AudioDir(s.index) \in Seq(Name) /\ SubsDir(s.index) \in Seq(Name)
    <3>1. s \in Stream
      BY DEF Source, ToSet
    <3>2. s.index \in Nat
      BY <3>1 DEF Stream
    <3> QED BY <3>2 DEF AudioDir, SubsDir
  <2>3. ImageDir \in Seq(Name)
    BY DEF ImageDir
  <2> QED BY <2>1, <2>2, <2>3 DEF Dirs, MediaDirs, SubsDirs, ImageDirs
<1> QED BY <1>1, ConcatEmptySeq

(* The entries of the master playlist.                                     *)
LEMMA MasterLines ==
    ASSUME source \in Source, NEW l \in WriteMaster
    PROVE  /\ l.tag \in {"AUDIO", "SUBTITLES", "IMAGES", "STREAM-INF"}
           /\ \E d \in Dirs : l.uri = Playlist(d)
           /\ l.tag = "AUDIO" => \E i \in DOMAIN source.audio :
                                     l = Rendition("AUDIO", source.audio, i)
           /\ l.tag = "SUBTITLES" => \E i \in DOMAIN source.subtitles :
                                         l = Rendition("SUBTITLES", source.subtitles, i)
           /\ l.tag = "STREAM-INF" => \E i \in DOMAIN source.variants : l = StreamInf(i)
<1>1. CASE \E i \in DOMAIN source.audio : l = Rendition("AUDIO", source.audio, i)
  <2>1. PICK i \in DOMAIN source.audio : l = Rendition("AUDIO", source.audio, i)
    BY <1>1
  <2>2. l.tag = "AUDIO" /\ l.uri = Playlist(AudioDir(source.audio[i].index))
    BY <2>1 DEF Rendition
  <2>3. AudioDir(source.audio[i].index) \in Dirs
    BY DEF Dirs, MediaDirs, ToSet
  <2> QED BY <1>1, <2>2, <2>3
<1>2. CASE \E i \in DOMAIN source.subtitles : l = Rendition("SUBTITLES", source.subtitles, i)
  <2>1. PICK i \in DOMAIN source.subtitles : l = Rendition("SUBTITLES", source.subtitles, i)
    BY <1>2
  <2>2. l.tag = "SUBTITLES" /\ l.uri = Playlist(SubsDir(source.subtitles[i].index))
    BY <2>1 DEF Rendition
  <2>3. SubsDir(source.subtitles[i].index) \in Dirs
    BY DEF Dirs, SubsDirs, ToSet
  <2> QED BY <1>2, <2>2, <2>3
<1>3. CASE \E d \in ImageDirs : l = [tag |-> "IMAGES", uri |-> Playlist(d)]
  BY <1>3 DEF Dirs
<1>4. CASE \E i \in DOMAIN source.variants : l = StreamInf(i)
  <2>1. PICK i \in DOMAIN source.variants : l = StreamInf(i)
    BY <1>4
  <2>2. l.tag = "STREAM-INF" /\ l.uri = Playlist(VariantDir(source.variants[i]))
    BY <2>1 DEF StreamInf
  <2>3. VariantDir(source.variants[i]) \in Dirs
    BY DEF Dirs, MediaDirs, ToSet
  <2> QED BY <1>4, <2>2, <2>3
<1> QED BY <1>1, <1>2, <1>3, <1>4 DEF WriteMaster

-----------------------------------------------------------------------------
(* What the proxy makes of the master playlist.                            *)

AudioLine(i, q, token) ==
    [tag |-> "AUDIO", place |-> i, language |-> Language(source.audio[i]),
     name |-> UniqueName(source.audio, i), default |-> i = 1 \/ q.audio # None,
     autoselect |-> Autoselect(source.audio, i),
     uri |-> Link("/hls-proxy/", Playlist(AudioDir(source.audio[i].index)), token)]

SubsLine(i, token) ==
    [tag |-> "SUBTITLES", place |-> i, language |-> Language(source.subtitles[i]),
     name |-> UniqueName(source.subtitles, i), default |-> FALSE,
     autoselect |-> Autoselect(source.subtitles, i),
     uri |-> Link("/hls-proxy/", Playlist(SubsDir(source.subtitles[i].index)), token)]

VariantLine(i, token) ==
    [StreamInf(i) EXCEPT !.uri = Link("/hls-proxy/", Playlist(VariantDir(source.variants[i])), token)]

Chosen(streams, index) == {i \in DOMAIN streams : index # None => streams[i].index = index}

Asked(codec) ==
    LET those == {i \in DOMAIN source.variants : source.variants[i].codec = codec}
    IN  IF those = {} THEN DOMAIN source.variants ELSE those

(* A line of it, promoted and addressed.                                   *)
Forwarded(l, q, token) ==
    LET line == IF l.tag = "AUDIO" /\ q.audio # None THEN ForceDefault(l) ELSE l
    IN  [line EXCEPT !.uri = Link("/hls-proxy/", l.uri, token)]

Keeps(l, q) == /\ l.tag = "AUDIO" /\ q.audio # None => l.uri.dir = AudioDir(q.audio)
               /\ l.tag = "SUBTITLES" /\ q.subs # None => l.uri.dir = SubsDir(q.subs)

OfCodec(q) == IF q.codec = None THEN WriteMaster ELSE FilterByCodec(WriteMaster, q.codec)

LEMMA OfCodecIsPart ==
    ASSUME NEW q
    PROVE  OfCodec(q) \subseteq WriteMaster
BY DEF OfCodec, FilterByCodec

LEMMA BodyLines ==
    ASSUME source \in Source, NEW q, NEW token
    PROVE  Rewrite(Filtered(WriteMaster, q), <<>>, token)
           = {Forwarded(l, q, token) : l \in {l \in OfCodec(q) : Keeps(l, q)}}
<1> DEFINE Promoted(l) == IF l.tag = "AUDIO" /\ q.audio # None THEN ForceDefault(l) ELSE l
           Addressed(l) == IF Route(l) = "unchanged" THEN l
                           ELSE [l EXCEPT !.uri = Link(Route(l), Path(<<>> \o @.dir, @.file, @.ext), token)]
           kept == {l \in OfCodec(q) : Keeps(l, q)}
<1>1. Filtered(WriteMaster, q) = {Promoted(l) : l \in kept}
  BY DEF Filtered, FilterByTracks, OfCodec, Keeps
<1>2. Rewrite(Filtered(WriteMaster, q), <<>>, token) = {Addressed(Promoted(l)) : l \in kept}
  BY <1>1 DEF Rewrite
<1>3. ASSUME NEW l \in kept PROVE Addressed(Promoted(l)) = Forwarded(l, q, token)
  <2>1. l \in WriteMaster
    BY OfCodecIsPart
  <2>2. l.tag \in {"AUDIO", "SUBTITLES", "IMAGES", "STREAM-INF"}
    BY <2>1, MasterLines
  <2>3. PICK d \in Dirs : l.uri = Playlist(d)
    BY <2>1, MasterLines
  <2>4. Promoted(l).tag = l.tag /\ Promoted(l).uri = l.uri
    BY DEF ForceDefault
  <2>5. Route(Promoted(l)) = "/hls-proxy/"
    BY <2>2, <2>3, <2>4 DEF Route, Playlist, Path
  <2>6. Path(<<>> \o l.uri.dir, l.uri.file, l.uri.ext) = l.uri
    BY <2>3, DirsAreSequences DEF Playlist, Path
  <2> HIDE DEF Promoted
  <2>7. Addressed(Promoted(l)) = [Promoted(l) EXCEPT !.uri = Link("/hls-proxy/", l.uri, token)]
    BY <2>4, <2>5, <2>6
  <2> QED BY <2>7 DEF Forwarded, Promoted
<1> HIDE DEF Promoted, Addressed, kept
<1>4. {Addressed(Promoted(l)) : l \in kept} = {Forwarded(l, q, token) : l \in kept}
  BY <1>3
<1> QED BY <1>2, <1>4 DEF kept

LEMMA ForwardedTag ==
    ASSUME source \in Source, NEW q, NEW token, NEW l \in WriteMaster
    PROVE  /\ Forwarded(l, q, token).tag = l.tag
           /\ Forwarded(l, q, token).uri = Link("/hls-proxy/", l.uri, token)
<1>1. {"tag", "uri"} \subseteq DOMAIN l
  <2>1. \A tag, streams, i : {"tag", "uri"} \subseteq DOMAIN Rendition(tag, streams, i)
    BY DEF Rendition
  <2>2. \A i : {"tag", "uri"} \subseteq DOMAIN StreamInf(i)
    BY DEF StreamInf
  <2>3. \A d : {"tag", "uri"} \subseteq DOMAIN [tag |-> "IMAGES", uri |-> Playlist(d)]
    OBVIOUS
  <2> QED BY <2>1, <2>2, <2>3 DEF WriteMaster
<1>2. ASSUME NEW x
      PROVE  /\ [l EXCEPT !.uri = x].tag = l.tag /\ [l EXCEPT !.uri = x].uri = x
             /\ [[l EXCEPT !.default = TRUE] EXCEPT !.uri = x].tag = l.tag
             /\ [[l EXCEPT !.default = TRUE] EXCEPT !.uri = x].uri = x
  BY <1>1
<1> QED BY <1>2 DEF Forwarded, ForceDefault

LEMMA RenditionUpdates ==
    ASSUME NEW tag, NEW place, NEW language, NEW name, NEW default, NEW autoselect, NEW uri,
           NEW d, NEW u
    PROVE  LET l == [tag |-> tag, place |-> place, language |-> language, name |-> name,
                     default |-> default, autoselect |-> autoselect, uri |-> uri]
           IN  /\ [l EXCEPT !.uri = u]
                  = [tag |-> tag, place |-> place, language |-> language, name |-> name,
                     default |-> default, autoselect |-> autoselect, uri |-> u]
               /\ [l EXCEPT !.default = d]
                  = [tag |-> tag, place |-> place, language |-> language, name |-> name,
                     default |-> d, autoselect |-> autoselect, uri |-> uri]
OBVIOUS

LEMMA ForwardedAudioLine ==
    ASSUME source \in Source, NEW q, NEW token, NEW i \in DOMAIN source.audio
    PROVE  LET l == Rendition("AUDIO", source.audio, i)
           IN  /\ l \in OfCodec(q)
               /\ Keeps(l, q) <=> i \in Chosen(source.audio, q.audio)
               /\ Forwarded(l, q, token) = AudioLine(i, q, token)
<1> DEFINE l == Rendition("AUDIO", source.audio, i)
<1>1. l.tag = "AUDIO" /\ l.uri = Playlist(AudioDir(source.audio[i].index))
  BY DEF Rendition
<1>2. l \in OfCodec(q)
  <2>1. l \in WriteMaster
    BY DEF WriteMaster
  <2> QED BY <1>1, <2>1 DEF OfCodec, FilterByCodec
<1>3. Keeps(l, q) <=> i \in Chosen(source.audio, q.audio)
  BY <1>1 DEF Keeps, Chosen, Playlist, Path, AudioDir
<1>4. Forwarded(l, q, token) = AudioLine(i, q, token)
  <2> DEFINE dir == AudioDir(source.audio[i].index)
             R(d, u) == [tag |-> "AUDIO", place |-> i, language |-> Language(source.audio[i]),
                         name |-> UniqueName(source.audio, i), default |-> d,
                         autoselect |-> Autoselect(source.audio, i), uri |-> u]
  <2>1. l = R(i = 1, Playlist(dir))
    BY DEF Rendition
  <2>2. AudioLine(i, q, token) = R(i = 1 \/ q.audio # None, Link("/hls-proxy/", Playlist(dir), token))
    BY DEF AudioLine
  <2>3. \A d, u, x : [R(d, u) EXCEPT !.uri = x] = R(d, x)
    BY RenditionUpdates
  <2>4. \A d, u : [R(d, u) EXCEPT !.default = TRUE] = R(TRUE, u)
    <3>1. \A d, u, b : [R(d, u) EXCEPT !.default = b] = R(b, u)
      BY RenditionUpdates
    <3> HIDE DEF R
    <3> QED BY <3>1, Zenon
  <2> HIDE DEF l, R, dir
  <2>5. CASE q.audio = None
    <3>1. Forwarded(l, q, token) = [l EXCEPT !.uri = Link("/hls-proxy/", Playlist(dir), token)]
      BY <1>1, <2>5 DEF Forwarded, dir
    <3>2. (i = 1 \/ q.audio # None) = (i = 1)
      BY <2>5
    <3>3. [R(i = 1, Playlist(dir)) EXCEPT !.uri = Link("/hls-proxy/", Playlist(dir), token)]
          = R(i = 1, Link("/hls-proxy/", Playlist(dir), token))
      BY <2>3
    <3> QED BY <2>1, <2>2, <3>1, <3>2, <3>3, Zenon
  <2>6. CASE q.audio # None
    <3>1. Forwarded(l, q, token)
          = [[l EXCEPT !.default = TRUE] EXCEPT !.uri = Link("/hls-proxy/", Playlist(dir), token)]
      BY <1>1, <2>6 DEF Forwarded, ForceDefault, dir
    <3>2. (i = 1 \/ q.audio # None) = TRUE
      BY <2>6
    <3>3. [R(i = 1, Playlist(dir)) EXCEPT !.default = TRUE] = R(TRUE, Playlist(dir))
      BY <2>4, Zenon
    <3>4. [R(TRUE, Playlist(dir)) EXCEPT !.uri = Link("/hls-proxy/", Playlist(dir), token)]
          = R(TRUE, Link("/hls-proxy/", Playlist(dir), token))
      BY <2>3, Zenon
    <3> QED BY <2>1, <2>2, <3>1, <3>2, <3>3, <3>4, Zenon
  <2> QED BY <2>5, <2>6
<1> QED BY <1>2, <1>3, <1>4

LEMMA ServedAudioLine ==
    ASSUME source \in Source, NEW q, NEW token
    PROVE  {l \in Rewrite(Filtered(WriteMaster, q), <<>>, token) : l.tag = "AUDIO"}
           = {AudioLine(i, q, token) : i \in Chosen(source.audio, q.audio)}
<1> DEFINE body == Rewrite(Filtered(WriteMaster, q), <<>>, token)
           r(i) == Rendition("AUDIO", source.audio, i)
<1>1. body = {Forwarded(l, q, token) : l \in {l \in OfCodec(q) : Keeps(l, q)}}
  BY BodyLines
<1>2. \A i \in DOMAIN source.audio :
          /\ r(i) \in OfCodec(q)
          /\ Keeps(r(i), q) <=> i \in Chosen(source.audio, q.audio)
          /\ Forwarded(r(i), q, token) = AudioLine(i, q, token)
  BY ForwardedAudioLine
<1>3. \A l \in OfCodec(q) :
          Forwarded(l, q, token).tag = "AUDIO" => \E i \in DOMAIN source.audio : l = r(i)
  BY OfCodecIsPart, MasterLines, ForwardedTag
<1>4. \A i : AudioLine(i, q, token).tag = "AUDIO"
  BY DEF AudioLine
<1>5. Chosen(source.audio, q.audio) \subseteq DOMAIN source.audio
  BY DEF Chosen
<1> HIDE DEF body, r
<1> QED BY <1>1, <1>2, <1>3, <1>4, <1>5 DEF body

LEMMA ForwardedSubsLine ==
    ASSUME source \in Source, NEW q, NEW token, NEW i \in DOMAIN source.subtitles
    PROVE  LET l == Rendition("SUBTITLES", source.subtitles, i)
           IN  /\ l \in OfCodec(q)
               /\ Keeps(l, q) <=> i \in Chosen(source.subtitles, q.subs)
               /\ Forwarded(l, q, token) = SubsLine(i, token)
<1> DEFINE l == Rendition("SUBTITLES", source.subtitles, i)
<1>1. l.tag = "SUBTITLES" /\ l.uri = Playlist(SubsDir(source.subtitles[i].index))
  BY DEF Rendition
<1>2. l \in OfCodec(q)
  <2>1. l \in WriteMaster
    BY DEF WriteMaster
  <2> QED BY <1>1, <2>1 DEF OfCodec, FilterByCodec
<1>3. Keeps(l, q) <=> i \in Chosen(source.subtitles, q.subs)
  BY <1>1 DEF Keeps, Chosen, Playlist, Path, SubsDir
<1>4. Forwarded(l, q, token) = SubsLine(i, token)
  <2> DEFINE dir == SubsDir(source.subtitles[i].index)
             R(d, u) == [tag |-> "SUBTITLES", place |-> i,
                         language |-> Language(source.subtitles[i]),
                         name |-> UniqueName(source.subtitles, i), default |-> d,
                         autoselect |-> Autoselect(source.subtitles, i), uri |-> u]
  <2>1. l = R(FALSE, Playlist(dir))
    BY DEF Rendition
  <2>2. SubsLine(i, token) = R(FALSE, Link("/hls-proxy/", Playlist(dir), token))
    BY DEF SubsLine
  <2>3. \A d, u, x : [R(d, u) EXCEPT !.uri = x] = R(d, x)
    BY RenditionUpdates
  <2> HIDE DEF l, R, dir
  <2>4. Forwarded(l, q, token) = [l EXCEPT !.uri = Link("/hls-proxy/", Playlist(dir), token)]
    BY <1>1 DEF Forwarded, dir
  <2>5. [R(FALSE, Playlist(dir)) EXCEPT !.uri = Link("/hls-proxy/", Playlist(dir), token)]
        = R(FALSE, Link("/hls-proxy/", Playlist(dir), token))
    BY <2>3
  <2> QED BY <2>1, <2>2, <2>4, <2>5, Zenon
<1> QED BY <1>2, <1>3, <1>4

LEMMA ServedSubsLine ==
    ASSUME source \in Source, NEW q, NEW token
    PROVE  {l \in Rewrite(Filtered(WriteMaster, q), <<>>, token) : l.tag = "SUBTITLES"}
           = {SubsLine(i, token) : i \in Chosen(source.subtitles, q.subs)}
<1> DEFINE body == Rewrite(Filtered(WriteMaster, q), <<>>, token)
           r(i) == Rendition("SUBTITLES", source.subtitles, i)
<1>1. body = {Forwarded(l, q, token) : l \in {l \in OfCodec(q) : Keeps(l, q)}}
  BY BodyLines
<1>2. \A i \in DOMAIN source.subtitles :
          /\ r(i) \in OfCodec(q)
          /\ Keeps(r(i), q) <=> i \in Chosen(source.subtitles, q.subs)
          /\ Forwarded(r(i), q, token) = SubsLine(i, token)
  BY ForwardedSubsLine
<1>3. \A l \in OfCodec(q) :
          Forwarded(l, q, token).tag = "SUBTITLES" => \E i \in DOMAIN source.subtitles : l = r(i)
  BY OfCodecIsPart, MasterLines, ForwardedTag
<1>4. \A i : SubsLine(i, token).tag = "SUBTITLES"
  BY DEF SubsLine
<1>5. Chosen(source.subtitles, q.subs) \subseteq DOMAIN source.subtitles
  BY DEF Chosen
<1> HIDE DEF body, r
<1> QED BY <1>1, <1>2, <1>3, <1>4, <1>5 DEF body

LEMMA ForwardedVariant ==
    ASSUME source \in Source, NEW q, NEW token, NEW i \in DOMAIN source.variants
    PROVE  LET l == StreamInf(i)
           IN  /\ l \in OfCodec(q) <=> i \in Asked(q.codec)
               /\ Keeps(l, q)
               /\ Forwarded(l, q, token) = VariantLine(i, token)
<1> DEFINE l(k) == StreamInf(k)
<1>1. \A k : l(k).tag = "STREAM-INF" /\ l(k).uri = Playlist(VariantDir(source.variants[k]))
  BY DEF StreamInf
<1>2. \A k \in DOMAIN source.variants : l(k) \in WriteMaster
  BY DEF WriteMaster
<1>3. \A k : l(k).uri.dir[1] = source.variants[k].codec
  <2>1. \A v : VariantDir(v)[1] = v.codec
    BY DEF VariantDir
  <2>2. \A d : Playlist(d).dir = d
    BY DEF Playlist, Path
  <2> HIDE DEF l
  <2> QED BY <1>1, <2>1, <2>2
<1>4. \A m \in WriteMaster :
          m.tag = "STREAM-INF" => \E k \in DOMAIN source.variants : m = l(k)
  BY MasterLines
<1>5. l(i) \in OfCodec(q) <=> i \in Asked(q.codec)
  <2>1. CASE q.codec = None
    <3>1. \A k \in DOMAIN source.variants : source.variants[k].codec # None
      <4>1. \A k \in DOMAIN source.variants : source.variants[k] \in Variant
        BY DEF Source
      <4> QED BY <4>1, NoneAssumption DEF Variant
    <3> QED BY <1>2, <2>1, <3>1 DEF OfCodec, Asked
  <2>2. CASE q.codec # None
    <3> DEFINE kept == {m \in WriteMaster : m.tag = "STREAM-INF" => m.uri.dir[1] = q.codec}
               those == {k \in DOMAIN source.variants : source.variants[k].codec = q.codec}
    <3>1. \A k \in DOMAIN source.variants : l(k) \in kept <=> k \in those
      BY <1>1, <1>2, <1>3
    <3>2. (\E m \in kept : m.tag = "STREAM-INF") <=> those # {}
      <4>1. ASSUME NEW m \in kept, m.tag = "STREAM-INF" PROVE those # {}
        BY <1>4, <3>1, <4>1
      <4>2. ASSUME NEW k \in those PROVE \E m \in kept : m.tag = "STREAM-INF"
        BY <1>1, <3>1
      <4> QED BY <4>1, <4>2
    <3>3. OfCodec(q) = IF \E m \in kept : m.tag = "STREAM-INF" THEN kept ELSE WriteMaster
      BY <2>2 DEF OfCodec, FilterByCodec
    <3>4. Asked(q.codec) = IF those = {} THEN DOMAIN source.variants ELSE those
      BY DEF Asked
    <3> HIDE DEF kept, those, l
    <3> QED BY <1>2, <3>1, <3>2, <3>3, <3>4
  <2> QED BY <2>1, <2>2
<1>6. Keeps(l(i), q) /\ Forwarded(l(i), q, token) = VariantLine(i, token)
  BY <1>1 DEF Keeps, Forwarded, VariantLine
<1> QED BY <1>5, <1>6

LEMMA ServedVariants ==
    ASSUME source \in Source, NEW q, NEW token
    PROVE  {l \in Rewrite(Filtered(WriteMaster, q), <<>>, token) : l.tag = "STREAM-INF"}
           = {VariantLine(i, token) : i \in Asked(q.codec)}
<1> DEFINE body == Rewrite(Filtered(WriteMaster, q), <<>>, token)
<1>1. body = {Forwarded(l, q, token) : l \in {l \in OfCodec(q) : Keeps(l, q)}}
  BY BodyLines
<1>2. \A i \in DOMAIN source.variants :
          /\ StreamInf(i) \in OfCodec(q) <=> i \in Asked(q.codec)
          /\ Keeps(StreamInf(i), q)
          /\ Forwarded(StreamInf(i), q, token) = VariantLine(i, token)
  BY ForwardedVariant
<1>3. \A l \in OfCodec(q) :
          Forwarded(l, q, token).tag = "STREAM-INF"
              => \E i \in DOMAIN source.variants : l = StreamInf(i)
  BY OfCodecIsPart, MasterLines, ForwardedTag
<1>4. \A i : VariantLine(i, token).tag = "STREAM-INF"
  BY DEF VariantLine, StreamInf
<1>5. Asked(q.codec) \subseteq DOMAIN source.variants
  BY DEF Asked
<1> HIDE DEF body
<1> QED BY <1>1, <1>2, <1>3, <1>4, <1>5 DEF body

-----------------------------------------------------------------------------
(* The inductive invariant.                                                *)

(* A token the API gives out, or none where none is required.              *)
Issued(token) == \/ ~RequireToken /\ token = None
                 \/ \E expires \in 0 .. TTL + Horizon : token = Token(expires)

(* The links of a page lead to playlists, with its token.                  *)
PageSound ==
    page # None =>
        /\ Issued(page.token)
        /\ \A l \in PageLinks : \E p \in Playlists : l = Link("/hls-proxy/", p, page.token)

(* What was served is a stored playlist, filtered and addressed.           *)
AnswerSound ==
    answer # None =>
        /\ Issued(answer.token)
        /\ answer.path \in Playlists
        /\ answer.body = Rewrite(Content(answer.path, answer.query), answer.path.dir, answer.token)

IInv == /\ source \in Sources
        /\ now \in 0 .. Horizon
        /\ PageSound
        /\ AnswerSound

-----------------------------------------------------------------------------
(* Where the links lead.                                                   *)

LEMMA PlaylistsStored ==
    ASSUME NEW p \in Playlists
    PROVE  p \in Stored /\ p.ext = "m3u8"
BY DEF Stored, Playlists, Playlist, Master, Path

(* A file that is stored and ends in m3u8 is a playlist.                   *)
LEMMA StoredPlaylists ==
    ASSUME NEW f \in Stored, f.ext = "m3u8"
    PROVE  f \in Playlists
<1>1. SUFFICES ASSUME NEW d \in Dirs, NEW l \in Segments(d), f = Path(d, l.uri.file, l.uri.ext)
               PROVE  FALSE
  BY DEF Stored
<1>2. l.uri.ext \in {"mp4", "m4s", "vtt", "jpg"}
  BY DEF Segments, Path
<1>3. f.ext = l.uri.ext
  BY <1>1 DEF Path
<1> QED BY <1>2, <1>3

LEMMA LinksLead ==
    ASSUME source \in Source, NEW p \in Playlists, NEW q, NEW token,
           NEW l \in Rewrite(Content(p, q), p.dir, token)
    PROVE  \/ \E f \in Playlists : l.uri = Link("/hls-proxy/", f, token)
           \/ \E f \in Stored : /\ f.ext \in {"mp4", "m4s", "vtt", "jpg"}
                               /\ l.uri = Link("/hls/", f, token)
<1>1. CASE p = Master
  <2>1. p.dir = <<>> /\ Content(p, q) = Filtered(WriteMaster, q)
    BY <1>1 DEF Content, Master, Path
  <2>2. PICK m \in OfCodec(q) : l = Forwarded(m, q, token)
    BY <2>1, BodyLines
  <2>3. m \in WriteMaster
    BY OfCodecIsPart
  <2>4. PICK d \in Dirs : m.uri = Playlist(d)
    BY <2>3, MasterLines
  <2>5. l.uri = Link("/hls-proxy/", Playlist(d), token)
    BY <2>2, <2>3, <2>4, ForwardedTag
  <2> QED BY <2>5 DEF Playlists
<1>2. CASE p # Master
  <2>1. PICK d \in Dirs : p = Playlist(d)
    BY <1>2 DEF Playlists
  <2>2. p.dir = d /\ Content(p, q) = Segments(d)
    BY <1>2, <2>1 DEF Content, Playlist, Path
  <2>3. PICK m \in Segments(d) :
            l = IF Route(m) = "unchanged" THEN m
                ELSE [m EXCEPT !.uri = Link(Route(m), Path(d \o @.dir, @.file, @.ext), token)]
    BY <2>2 DEF Rewrite
  <2>4. /\ m.uri.dir = <<>> /\ m.uri.ext \in {"mp4", "m4s", "vtt", "jpg"}
        /\ m.tag = "MAP" \/ (m.tag = "URL" /\ m.uri.ext \in {"m4s", "vtt", "jpg"})
        /\ "uri" \in DOMAIN m
    BY DEF Segments, Path
  <2>5. Route(m) = "/hls/"
    BY <2>4 DEF Route
  <2> DEFINE f == Path(d, m.uri.file, m.uri.ext)
  <2>6. d \o m.uri.dir = d
    BY <2>4, DirsAreSequences
  <2>7. l.uri = Link("/hls/", f, token)
    BY <2>3, <2>4, <2>5, <2>6
  <2>8. f \in Stored
    BY DEF Stored
  <2>9. f.ext = m.uri.ext
    BY DEF Path
  <2> QED BY <2>4, <2>7, <2>8, <2>9
<1> QED BY <1>1, <1>2

LEMMA SourceOfInv ==
    ASSUME source \in Sources
    PROVE  source \in Source /\ Distinct(source)
BY SourceAssumption

(* A link with a token that lasts is answered.                             *)
LEMMA LinkAnswered ==
    ASSUME NEW token, Issued(token), Lasts(token), NEW link,
           \/ \E f \in Playlists : link = Link("/hls-proxy/", f, token)
           \/ \E f \in Stored : /\ f.ext \in {"mp4", "m4s", "vtt", "jpg"}
                               /\ link = Link("/hls/", f, token)
    PROVE  StatusOf(link) = 200
<1>1. ValidToken(Video, token)
  <2>1. CASE ~RequireToken
    BY <2>1 DEF ValidToken
  <2>2. CASE \E expires \in 0 .. TTL + Horizon : token = Token(expires)
    <3>1. PICK expires \in 0 .. TTL + Horizon : token = Token(expires)
      BY <2>2
    <3>2. token # None
      BY <3>1, NoneAssumption
    <3>3. token.expires = expires /\ token.mac = ComputeHLSToken(Video, expires)
      BY <3>1 DEF Token
    <3> QED BY <3>2, <3>3 DEF ValidToken, Lasts
  <2> QED BY <2>1, <2>2 DEF Issued
<1>2. CASE \E f \in Playlists : link = Link("/hls-proxy/", f, token)
  <2>1. PICK f \in Playlists : link = Link("/hls-proxy/", f, token)
    BY <1>2
  <2>2. link.route = "/hls-proxy/" /\ link.path = f /\ link.token = token /\ link.video = Video
    BY <2>1 DEF Link
  <2> QED BY <1>1, <2>2, PlaylistsStored DEF StatusOf, ProxyStatus
<1>3. CASE \E f \in Stored : /\ f.ext \in {"mp4", "m4s", "vtt", "jpg"}
                            /\ link = Link("/hls/", f, token)
  <2>1. PICK f \in Stored : /\ f.ext \in {"mp4", "m4s", "vtt", "jpg"}
                          /\ link = Link("/hls/", f, token)
    BY <1>3
  <2>2. link.route = "/hls/" /\ link.path = f /\ link.token = token /\ link.video = Video
    BY <2>1 DEF Link
  <2> QED BY <1>1, <2>1, <2>2 DEF StatusOf, NginxStatus
<1> QED BY <1>2, <1>3

-----------------------------------------------------------------------------
LEMMA Unmoved ==
    ASSUME source' = source
    PROVE  Playlists' = Playlists /\ \A p, q : Content(p, q)' = Content(p, q)
BY DEF Playlists, Dirs, MediaDirs, SubsDirs, ImageDirs, Content, WriteMaster, StreamInf, Segments

LEMMA InitInv == Init => IInv
BY ClockAssumption DEF Init, IInv, PageSound, AnswerSound

LEMMA NextInv == IInv /\ [Next]_vars => IInv'
<1> SUFFICES ASSUME IInv, [Next]_vars PROVE IInv'
  OBVIOUS
<1>1. source' = source /\ source \in Sources /\ now \in 0 .. Horizon
  BY DEF IInv, Next, vars, GetVideo, GetTokens, ServeManifest, Tick
<1>2. Playlists' = Playlists /\ \A p, q : Content(p, q)' = Content(p, q)
  BY <1>1, Unmoved
<1>3. Token(now + TTL) \in {Token(expires) : expires \in 0 .. TTL + Horizon}
  <2>1. now + TTL \in 0 .. TTL + Horizon
    BY <1>1, ClockAssumption
  <2> QED BY <2>1
<1>4. UNCHANGED page => PageSound'
  BY <1>2 DEF IInv, PageSound, PageLinks
<1>5. UNCHANGED answer => AnswerSound'
  BY <1>2 DEF IInv, AnswerSound
<1>6. CASE GetVideo
  <2> DEFINE token == IF RequireToken THEN Token(now + TTL) ELSE None
             tracks == {AudioDir(a.index) : a \in ToSet(source.audio)} \cup SubsDirs
  <2>1. /\ page' = [token |-> token, manifest |-> Link("/hls-proxy/", Master, token),
                    tracks |-> {Link("/hls-proxy/", Playlist(d), token) : d \in tracks}]
        /\ UNCHANGED <<now, answer>>
    BY <1>6 DEF GetVideo
  <2>2. Issued(token)
    BY <1>3, TokenAssumption DEF Issued
  <2>3. tracks \subseteq Dirs
    BY DEF Dirs, MediaDirs
  <2> HIDE DEF token, tracks
  <2>4. PageLinks' \subseteq {Link("/hls-proxy/", p, token) : p \in Playlists}
    BY <2>1, <2>3 DEF PageLinks, Playlists
  <2>5. page'.token = token
    BY <2>1
  <2>6. PageSound'
    BY <1>2, <2>2, <2>4, <2>5 DEF PageSound, Issued
  <2> QED BY <1>1, <1>5, <2>1, <2>6 DEF IInv
<1>7. CASE GetTokens
  <2> DEFINE token == Token(now + TTL)
  <2>1. /\ page' = [token |-> token, manifest |-> Link("/hls-proxy/", Master, token),
                    tracks |-> {}]
        /\ UNCHANGED <<now, answer>>
    BY <1>7 DEF GetTokens
  <2>2. Issued(token)
    BY <1>3 DEF Issued
  <2> HIDE DEF token
  <2>4. PageLinks' \subseteq {Link("/hls-proxy/", p, token) : p \in Playlists}
    BY <2>1 DEF PageLinks, Playlists
  <2>5. page'.token = token
    BY <2>1
  <2>6. PageSound'
    BY <1>2, <2>2, <2>4, <2>5 DEF PageSound, Issued
  <2> QED BY <1>1, <1>5, <2>1, <2>6 DEF IInv
<1>8. CASE Tick
  <2>1. UNCHANGED <<page, answer>> /\ now' \in 0 .. Horizon
    BY <1>1, <1>8, ClockAssumption DEF Tick
  <2> QED BY <1>1, <1>4, <1>5, <2>1 DEF IInv
<1>9. ASSUME NEW link \in PageLinks \cup AnswerLinks, NEW q \in Query, ServeManifest(link, q)
      PROVE  IInv'
  <2>1. /\ link.route = "/hls-proxy/" /\ ProxyStatus(link) = 200
        /\ answer' = [path |-> link.path, query |-> q, token |-> link.token,
                      body |-> Rewrite(Content(link.path, q), link.path.dir, link.token)]
        /\ UNCHANGED <<now, page>>
    BY <1>9 DEF ServeManifest
  <2>2. link.path \in Playlists
    <3>1. link.path \in Stored /\ link.path.ext = "m3u8"
      BY <2>1 DEF ProxyStatus
    <3> QED BY <3>1, StoredPlaylists
  <2>3. Issued(link.token)
    <3>1. CASE link \in PageLinks
      BY <3>1 DEF IInv, PageSound, PageLinks, Link
    <3>2. CASE link \in AnswerLinks
      <4>1. answer # None
        BY <3>2 DEF AnswerLinks
      <4>2. PICK l \in answer.body : link = l.uri
        BY <3>2, <4>1 DEF AnswerLinks
      <4>3. /\ answer.path \in Playlists
            /\ l \in Rewrite(Content(answer.path, answer.query), answer.path.dir, answer.token)
        BY <4>1, <4>2 DEF IInv, AnswerSound
      <4>4. \E f : \E route : link = Link(route, f, answer.token)
        BY <1>1, <4>2, <4>3, LinksLead, SourceOfInv
      <4>5. link.token = answer.token
        BY <4>4 DEF Link
      <4> QED BY <4>1, <4>5 DEF IInv, AnswerSound
    <3> QED BY <3>1, <3>2
  <2>4. /\ answer'.path = link.path /\ answer'.query = q /\ answer'.token = link.token
        /\ answer'.body = Rewrite(Content(link.path, q), link.path.dir, link.token)
    BY <2>1
  <2>5. AnswerSound'
    BY <1>2, <2>2, <2>3, <2>4 DEF AnswerSound, Issued
  <2> QED BY <1>1, <1>4, <2>1, <2>5 DEF IInv
<1>10. CASE UNCHANGED vars
  BY <1>1, <1>4, <1>5, <1>10 DEF IInv, vars
<1> QED BY <1>6, <1>7, <1>8, <1>9, <1>10 DEF Next

(* The invariant holds in every reachable state.                           *)
THEOREM Invariant == Spec => []IInv
BY InitInv, NextInv, PTL DEF Spec

-----------------------------------------------------------------------------
(* What follows from it.                                                   *)

(* A link of an answer, and the playlist it is in.                         *)
LEMMA AnswerLink ==
    ASSUME IInv, answer # None, NEW link \in AnswerLinks
    PROVE  \/ \E f \in Playlists : link = Link("/hls-proxy/", f, answer.token)
           \/ \E f \in Stored : /\ f.ext \in {"mp4", "m4s", "vtt", "jpg"}
                               /\ link = Link("/hls/", f, answer.token)
<1>1. PICK l \in answer.body : link = l.uri
  BY DEF AnswerLinks
<1>2. source \in Source
  BY SourceOfInv DEF IInv
<1>3. /\ answer.path \in Playlists
      /\ l \in Rewrite(Content(answer.path, answer.query), answer.path.dir, answer.token)
  BY <1>1 DEF IInv, AnswerSound
<1> QED BY <1>1, <1>2, <1>3, LinksLead

LEMMA TypeFollows == IInv => TypeOK
<1> SUFFICES ASSUME IInv PROVE TypeOK
  OBVIOUS
<1>1. \A route, f, token : IsLink(Link(route, f, token))
  BY DEF IsLink, Link
<1>2. ASSUME NEW l \in PageLinks PROVE IsLink(l)
  <2>1. page # None
    BY DEF PageLinks
  <2>2. \E p \in Playlists : l = Link("/hls-proxy/", p, page.token)
    BY <2>1 DEF IInv, PageSound
  <2> QED BY <1>1, <2>2
<1>3. ASSUME NEW l \in AnswerLinks PROVE IsLink(l)
  <2>1. answer # None
    BY DEF AnswerLinks
  <2> QED BY <1>1, <2>1, AnswerLink
<1> QED BY <1>2, <1>3 DEF TypeOK, IInv

LEMMA LinksFollow == IInv => LinksWork
<1> SUFFICES ASSUME IInv PROVE LinksWork
  OBVIOUS
<1>1. ASSUME page # None, Lasts(page.token), NEW l \in PageLinks
      PROVE  StatusOf(l) = 200
  BY <1>1, LinkAnswered DEF IInv, PageSound
<1>2. ASSUME answer # None, Lasts(answer.token), NEW l \in AnswerLinks
      PROVE  StatusOf(l) = 200
  <2>1. Issued(answer.token)
    BY <1>2 DEF IInv, AnswerSound
  <2> QED BY <1>2, <2>1, AnswerLink, LinkAnswered
<1> QED BY <1>1, <1>2 DEF LinksWork

(* The entries of a master playlist that was served.                       *)
LEMMA MasterEntries ==
    ASSUME IInv, ServedMaster
    PROVE  /\ source \in Source /\ Distinct(source)
           /\ Entries("AUDIO") = {AudioLine(i, answer.query, answer.token) :
                                      i \in Chosen(source.audio, answer.query.audio)}
           /\ Entries("SUBTITLES") = {SubsLine(i, answer.token) :
                                          i \in Chosen(source.subtitles, answer.query.subs)}
           /\ Entries("STREAM-INF") = {VariantLine(i, answer.token) :
                                           i \in Asked(answer.query.codec)}
<1>1. source \in Source /\ Distinct(source)
  BY SourceOfInv DEF IInv
<1>2. answer.body = Rewrite(Filtered(WriteMaster, answer.query), <<>>, answer.token)
  BY DEF ServedMaster, IInv, AnswerSound, Content, Master, Path
<1>3. \A tag : Entries(tag)
          = {l \in Rewrite(Filtered(WriteMaster, answer.query), <<>>, answer.token) : l.tag = tag}
  BY <1>2 DEF Entries
<1>4. Entries("AUDIO") = {AudioLine(i, answer.query, answer.token) :
                             i \in Chosen(source.audio, answer.query.audio)}
  <2> DEFINE Body(q, token) == Rewrite(Filtered(WriteMaster, q), <<>>, token)
  <2>1. {l \in Body(answer.query, answer.token) : l.tag = "AUDIO"}
        = {AudioLine(i, answer.query, answer.token) : i \in Chosen(source.audio, answer.query.audio)}
    <3>1. ASSUME NEW q, NEW token
          PROVE  {l \in Body(q, token) : l.tag = "AUDIO"}
                 = {AudioLine(i, q, token) : i \in Chosen(source.audio, q.audio)}
      BY <1>1, ServedAudioLine
    <3> HIDE DEF Body
    <3> QED BY <3>1
  <2>2. Entries("AUDIO") = {l \in Rewrite(Filtered(WriteMaster, answer.query), <<>>, answer.token) :
                               l.tag = "AUDIO"}
    BY <1>3, Zenon
  <2> QED BY <2>1, <2>2, Zenon
<1>5. Entries("SUBTITLES") = {SubsLine(i, answer.token) :
                                 i \in Chosen(source.subtitles, answer.query.subs)}
  BY <1>1, <1>3, ServedSubsLine
<1>6. Entries("STREAM-INF") = {VariantLine(i, answer.token) : i \in Asked(answer.query.codec)}
  BY <1>1, <1>3, ServedVariants
<1> QED BY <1>1, <1>4, <1>5, <1>6

LEMMA VariantLineFields ==
    ASSUME NEW i, NEW token
    PROVE  LET l == VariantLine(i, token)
               v == source.variants[i]
           IN  /\ l.uri.path.dir = VariantDir(v)
               /\ l.bandwidth = Bandwidth(v.media, [j \in DOMAIN source.audio |->
                                                        source.audio[j].media])
               /\ l.level = IF v.codec = "h264" THEN None ELSE VariantLevel(v, source.fps)
BY DEF VariantLine, StreamInf, Link, Playlist, Path

LEMMA CodecFollows == IInv => CodecHonoured
<1> SUFFICES ASSUME IInv, ServedMaster PROVE CodecHonoured
  BY DEF CodecHonoured
<1> DEFINE codec == answer.query.codec
           all == ToSet(source.variants)
           asked == {v \in all : v.codec = codec}
<1>1. Entries("STREAM-INF") = {VariantLine(i, answer.token) : i \in Asked(codec)}
  BY MasterEntries
<1>2. {l.uri.path.dir : l \in Entries("STREAM-INF")}
      = {VariantDir(source.variants[i]) : i \in Asked(codec)}
  <2> DEFINE L(i) == VariantLine(i, answer.token)
  <2>1. \A i : L(i).uri.path.dir = VariantDir(source.variants[i])
    BY VariantLineFields
  <2>2. Entries("STREAM-INF") = {L(i) : i \in Asked(codec)}
    BY <1>1
  <2> HIDE DEF L
  <2> QED BY <2>1, <2>2
<1>3. {source.variants[i] : i \in Asked(codec)} = IF asked = {} THEN all ELSE asked
  BY DEF Asked, ToSet
<1>4. {l.uri.path.dir : l \in Entries("STREAM-INF")}
      = {VariantDir(v) : v \in IF asked = {} THEN all ELSE asked}
  <2> DEFINE S == IF asked = {} THEN all ELSE asked
  <2>1. S = {source.variants[i] : i \in Asked(codec)}
    BY <1>3
  <2> HIDE DEF S
  <2>2. {VariantDir(v) : v \in S} = {VariantDir(source.variants[i]) : i \in Asked(codec)}
    BY <2>1
  <2> QED BY <1>2, <2>2 DEF S
<1> QED BY <1>4 DEF CodecHonoured

(* The tracks that are asked for, if they are listed, or else all.         *)
LEMMA ChosenTracks ==
    ASSUME NEW streams \in Seq(Stream), NEW index, Lists(streams, index),
           \A i, j \in DOMAIN streams : streams[i].index = streams[j].index => i = j
    PROVE  /\ Chosen(streams, index) \subseteq DOMAIN streams
           /\ streams # <<>> => Chosen(streams, index) # {}
           /\ index = None => Chosen(streams, index) = DOMAIN streams
           /\ index # None => \E i \in DOMAIN streams :
                                  streams[i].index = index /\ Chosen(streams, index) = {i}
<1>1. streams # <<>> => 1 \in DOMAIN streams
  OBVIOUS
<1>2. CASE index = None
  BY <1>1, <1>2 DEF Chosen
<1>3. CASE index # None
  <2>1. PICK i \in DOMAIN streams : streams[i].index = index
    BY <1>3 DEF Lists, ToSet
  <2>2. Chosen(streams, index) = {i}
    BY <1>3, <2>1 DEF Chosen
  <2> QED BY <1>3, <2>1, <2>2
<1> QED BY <1>2, <1>3

LEMMA TracksFollow == IInv => TracksServed
<1> SUFFICES ASSUME IInv, ServedMaster,
                    Lists(source.audio, answer.query.audio),
                    Lists(source.subtitles, answer.query.subs)
             PROVE  TracksServed
  BY DEF TracksServed
<1> DEFINE q == answer.query
           token == answer.token
           audios == Chosen(source.audio, q.audio)
           subtitles == Chosen(source.subtitles, q.subs)
           A(i) == AudioLine(i, q, token)
           S(i) == SubsLine(i, token)
           audio == Entries("AUDIO")
           subs == Entries("SUBTITLES")
<1>1. /\ audio = {A(i) : i \in audios}
      /\ subs = {S(i) : i \in subtitles}
      /\ Entries("STREAM-INF") = {VariantLine(i, token) : i \in Asked(q.codec)}
  BY MasterEntries
<1>2. /\ source.audio \in Seq(Stream) /\ source.subtitles \in Seq(Stream)
      /\ \A streams \in {source.audio, source.subtitles} : \A i, j \in DOMAIN streams :
            streams[i].index = streams[j].index => i = j
  BY MasterEntries DEF Source, Distinct
<1>3. /\ audios \subseteq DOMAIN source.audio
      /\ source.audio # <<>> => audios # {}
      /\ q.audio = None => audios = DOMAIN source.audio
      /\ q.audio # None => \E i \in DOMAIN source.audio :
                               source.audio[i].index = q.audio /\ audios = {i}
  BY <1>2, ChosenTracks
<1>4. /\ source.subtitles # <<>> => subtitles # {}
      /\ q.subs # None => \E i \in DOMAIN source.subtitles :
                              source.subtitles[i].index = q.subs /\ subtitles = {i}
  BY <1>2, ChosenTracks
<1>5. \A i : /\ A(i).place = i
             /\ A(i).default <=> (i = 1 \/ q.audio # None)
             /\ A(i).uri.path.dir = AudioDir(source.audio[i].index)
  BY DEF AudioLine, Link, Playlist, Path
<1>6. \A i : S(i).uri.path.dir = SubsDir(source.subtitles[i].index)
  BY DEF SubsLine, Link, Playlist, Path
<1> HIDE DEF A, S, audios, subtitles
<1>7. ASSUME audio # {} PROVE \E l \in audio : \A m \in audio : m.default <=> m = l
  <2>1. PICK k \in audios : \A i \in audios : A(i).default <=> i = k
    <3>1. CASE q.audio = None
      <4>1. 1 \in audios
        BY <1>1, <1>2, <1>3, <1>7, <3>1
      <4> QED BY <1>5, <3>1, <4>1
    <3>2. CASE q.audio # None
      BY <1>3, <1>5, <3>2
    <3> QED BY <3>1, <3>2
  <2>2. \A i \in audios : A(i) = A(k) <=> i = k
    BY <1>5
  <2> QED BY <1>1, <2>1, <2>2
<1>8. ASSUME q.audio # None
      PROVE  {l.uri.path.dir : l \in audio} = {AudioDir(q.audio)}
  <2>1. PICK i : source.audio[i].index = q.audio /\ audios = {i}
    BY <1>3, <1>8
  <2>2. audio = {A(i)}
    BY <1>1, <2>1
  <2> QED BY <1>5, <2>1, <2>2
<1>9. ASSUME q.subs # None
      PROVE  {l.uri.path.dir : l \in subs} = {SubsDir(q.subs)}
  <2>1. PICK i : source.subtitles[i].index = q.subs /\ subtitles = {i}
    BY <1>4, <1>9
  <2>2. subs = {S(i)}
    BY <1>1, <2>1
  <2> QED BY <1>6, <2>1, <2>2
<1>10. ASSUME NEW v \in Entries("STREAM-INF")
       PROVE  (v.audio => audio # {}) /\ (v.subs => subs # {})
  <2>1. PICK i : v = VariantLine(i, token)
    BY <1>1
  <2>2. /\ VariantLine(i, token).audio => source.audio # <<>>
        /\ VariantLine(i, token).subs => source.subtitles # <<>>
    BY DEF VariantLine, StreamInf
  <2>3. (v.audio => source.audio # <<>>) /\ (v.subs => source.subtitles # <<>>)
    BY <2>1, <2>2, Zenon
  <2>4. source.audio # <<>> => audio # {}
    BY <1>1, <1>3
  <2>5. ASSUME source.subtitles # <<>> PROVE subs # {}
    <3>1. PICK k : k \in subtitles
      BY <1>4, <2>5
    <3>2. S(k) \in subs
      BY <1>1, <3>1
    <3> QED BY <3>2
  <2> QED BY <2>3, <2>4, <2>5, Zenon
<1> QED BY <1>7, <1>8, <1>9, <1>10 DEF TracksServed

(* The entries of a group are told apart by what tells their streams apart.*)
LEMMA GroupEntries ==
    ASSUME IInv, ServedMaster, NEW tag \in {"AUDIO", "SUBTITLES"},
           NEW l \in Entries(tag), NEW m \in Entries(tag), l # m
    PROVE  LET streams == IF tag = "AUDIO" THEN source.audio ELSE source.subtitles
           IN  \E i, j \in DOMAIN streams :
                  /\ i # j
                  /\ l.name = UniqueName(streams, i) /\ m.name = UniqueName(streams, j)
                  /\ l.language = Language(streams[i]) /\ m.language = Language(streams[j])
                  /\ l.autoselect = Autoselect(streams, i)
                  /\ m.autoselect = Autoselect(streams, j)
<1>1. CASE tag = "AUDIO"
  <2>1. PICK i, j \in DOMAIN source.audio :
            /\ l = AudioLine(i, answer.query, answer.token)
            /\ m = AudioLine(j, answer.query, answer.token)
    BY <1>1, MasterEntries DEF Chosen
  <2>2. i # j
    BY <2>1
  <2> QED BY <1>1, <2>1, <2>2 DEF AudioLine
<1>2. CASE tag = "SUBTITLES"
  <2>1. PICK i, j \in DOMAIN source.subtitles :
            l = SubsLine(i, answer.token) /\ m = SubsLine(j, answer.token)
    BY <1>2, MasterEntries DEF Chosen
  <2>2. i # j
    BY <2>1
  <2> QED BY <1>2, <2>1, <2>2 DEF SubsLine
<1> QED BY <1>1, <1>2

LEMMA AutoselectFollows == IInv => AutoselectByLanguage
<1> SUFFICES ASSUME IInv, ServedMaster, NEW tag \in {"AUDIO", "SUBTITLES"},
                    NEW l \in Entries(tag), NEW m \in Entries(tag),
                    l.autoselect, m.autoselect, l.language = m.language, l # m
             PROVE  FALSE
  BY DEF AutoselectByLanguage
<1> DEFINE streams == IF tag = "AUDIO" THEN source.audio ELSE source.subtitles
<1>1. PICK i, j \in DOMAIN streams :
          /\ i # j
          /\ Language(streams[i]) = Language(streams[j])
          /\ Autoselect(streams, i) /\ Autoselect(streams, j)
  BY GroupEntries
<1>2. streams \in Seq(Stream)
  BY MasterEntries DEF Source
<1> HIDE DEF streams
<1>3. i \in 1 .. j - 1 \/ j \in 1 .. i - 1
  BY <1>1, <1>2
<1> QED BY <1>1, <1>3 DEF Autoselect

(* nameSet never gives a name twice.                                       *)
LEMMA UniqueNames ==
    ASSUME NEW streams \in Seq(Stream), ~Numbered(streams),
           \A i, j, m, n \in DOMAIN streams :
               Repeat(DisplayName(streams, i), m) = Repeat(DisplayName(streams, j), n)
                   => DisplayName(streams, i) = DisplayName(streams, j) /\ m = n,
           NEW i \in DOMAIN streams, NEW j \in DOMAIN streams, i < j
    PROVE  UniqueName(streams, i) # UniqueName(streams, j)
<1> DEFINE N(k) == DisplayName(streams, k)
           U(k, b) == {x \in 1 .. k : N(x) = b}
           c(k) == Cardinality(U(k, N(k)))
<1>1. \A k : UniqueName(streams, k) = IF c(k) = 1 THEN N(k) ELSE Repeat(N(k), c(k))
  BY DEF UniqueName
<1>2. DOMAIN streams = 1 .. Len(streams) /\ Len(streams) \in Nat
  OBVIOUS
<1> HIDE DEF N
<1>3. ASSUME NEW k \in DOMAIN streams, NEW b
      PROVE  IsFiniteSet(U(k, b)) /\ Cardinality(U(k, b)) \in 0 .. k
  <2>1. IsFiniteSet(1 .. k) /\ Cardinality(1 .. k) = k
    BY <1>2, FS_Interval
  <2>2. U(k, b) \subseteq 1 .. k
    OBVIOUS
  <2> QED BY <2>1, <2>2, FS_Subset, FS_CardinalityType
<1>4. ASSUME NEW k \in DOMAIN streams PROVE c(k) \in DOMAIN streams
  <2>1. k \in U(k, N(k))
    BY <1>2
  <2> HIDE DEF U
  <2>2. IsFiniteSet(U(k, N(k))) /\ c(k) \in 0 .. k
    BY <1>3
  <2>3. c(k) # 0
    BY <2>1, <2>2, FS_EmptySet
  <2> HIDE DEF c
  <2> QED BY <1>2, <2>2, <2>3
<1>5. N(i) = N(j) => c(i) < c(j)
  <2> SUFFICES ASSUME N(i) = N(j) PROVE c(i) < c(j)
    OBVIOUS
  <2>1. U(i, N(i)) \subseteq U(j, N(j)) /\ j \in U(j, N(j)) /\ j \notin U(i, N(i))
    BY <1>2
  <2>2. c(i) <= c(j) /\ (c(i) = c(j) => U(i, N(i)) = U(j, N(j)))
    <3> HIDE DEF U
    <3>1. IsFiniteSet(U(j, N(j)))
      BY <1>3
    <3> QED BY <2>1, <3>1, FS_Subset
  <2>3. c(i) \in Nat /\ c(j) \in Nat
    BY <1>2, <1>4
  <2> HIDE DEF c, U
  <2> QED BY <2>1, <2>2, <2>3
<1> HIDE DEF U, c
<1>6. \A x, y, n \in DOMAIN streams : N(x) # Repeat(N(y), n)
  BY DEF Numbered, N
<1>7. \A x, y, m, n \in DOMAIN streams : Repeat(N(x), m) = Repeat(N(y), n) => N(x) = N(y) /\ m = n
  BY DEF N
<1>8. c(i) \in Int /\ c(j) \in Int
  BY <1>2, <1>4
<1>9. CASE c(i) = 1 /\ c(j) = 1
  BY <1>1, <1>5, <1>9
<1>10. CASE c(i) = 1 /\ c(j) # 1
  BY <1>1, <1>4, <1>6, <1>10
<1>11. CASE c(i) # 1 /\ c(j) = 1
  BY <1>1, <1>4, <1>6, <1>11
<1>12. CASE c(i) # 1 /\ c(j) # 1
  BY <1>1, <1>4, <1>5, <1>7, <1>8, <1>12
<1> QED BY <1>9, <1>10, <1>11, <1>12

LEMMA NamesFollow == IInv => NamesUnique
<1> SUFFICES ASSUME IInv, ServedMaster, NEW tag \in {"AUDIO", "SUBTITLES"},
                    ~Numbered(IF tag = "AUDIO" THEN source.audio ELSE source.subtitles),
                    NEW l \in Entries(tag), NEW m \in Entries(tag), l.name = m.name, l # m
             PROVE  FALSE
  BY DEF NamesUnique
<1> DEFINE streams == IF tag = "AUDIO" THEN source.audio ELSE source.subtitles
<1>1. PICK i, j \in DOMAIN streams :
          i # j /\ UniqueName(streams, i) = UniqueName(streams, j)
  BY GroupEntries
<1>2. streams \in Seq(Stream) /\ streams \in {source.audio, source.subtitles}
  BY MasterEntries DEF Source
<1>3. \A a, b, x, y \in DOMAIN streams :
          Repeat(DisplayName(streams, a), x) = Repeat(DisplayName(streams, b), y)
              => DisplayName(streams, a) = DisplayName(streams, b) /\ x = y
  BY <1>2, NamesAssumption DEF IInv
<1> HIDE DEF streams
<1>4. i < j \/ j < i
  BY <1>1, <1>2
<1>5. ~Numbered(streams)
  BY DEF streams
<1> QED BY <1>1, <1>2, <1>3, <1>4, <1>5, UniqueNames

LEMMA CuesFollow == IInv => CuesMatchSprite
<1> SUFFICES ASSUME IInv, source.image, source.duration > 0 PROVE CuesMatchSprite
  BY DEF CuesMatchSprite
<1>1. source.duration \in Nat \ {0} /\ source.thumbs \in Setting
  BY SourceOfInv DEF IInv, Source
<1> QED BY <1>1, GridsAgree DEF CuesMatchSprite

(* The variant of an entry.                                                *)
LEMMA VariantOfEntry ==
    ASSUME IInv, ServedMaster, NEW l \in Entries("STREAM-INF"),
           NEW v \in ToSet(source.variants), l.uri.path.dir = VariantDir(v)
    PROVE  /\ source \in Source /\ v \in Variant
           /\ l.bandwidth = Bandwidth(v.media, [j \in DOMAIN source.audio |->
                                                    source.audio[j].media])
           /\ l.level = IF v.codec = "h264" THEN None ELSE VariantLevel(v, source.fps)
<1>1. source \in Source /\ Distinct(source)
  BY MasterEntries
<1>2. PICK i \in DOMAIN source.variants : l = VariantLine(i, answer.token)
  <2>1. Asked(answer.query.codec) \subseteq DOMAIN source.variants
    BY DEF Asked
  <2> QED BY <2>1, MasterEntries
<1>3. PICK k \in DOMAIN source.variants : v = source.variants[k]
  BY DEF ToSet
<1>4. VariantDir(source.variants[i]) = VariantDir(source.variants[k])
  BY <1>2, <1>3, VariantLineFields
<1>5. i = k
  BY <1>1, <1>4 DEF VariantDir, Distinct
<1>6. v \in Variant
  BY <1>1, <1>3 DEF Source
<1> QED BY <1>1, <1>2, <1>3, <1>5, <1>6, VariantLineFields

LEMMA BandwidthFollows == IInv => BandwidthCovers
<1> SUFFICES ASSUME IInv, ServedMaster, NEW v \in ToSet(source.variants),
                    NEW a \in ToSet(source.audio), NEW l \in Entries("STREAM-INF"),
                    l.uri.path.dir = VariantDir(v)
             PROVE  /\ l.bandwidth.peak >= Peak(v.media) + Peak(a.media)
                    /\ l.bandwidth.average >= Average(v.media) + Average(a.media)
  BY DEF BandwidthCovers
<1> DEFINE audios == [j \in DOMAIN source.audio |-> source.audio[j].media]
           n == Len(source.audio)
<1>1. /\ source \in Source /\ v \in Variant
      /\ l.bandwidth = Bandwidth(v.media, audios)
  BY VariantOfEntry
<1>2. source.audio \in Seq(Stream) /\ v.media \in MediaPlaylist
  BY <1>1 DEF Source, Variant
<1>3. PICK k \in 1 .. n : a = source.audio[k]
  BY <1>2 DEF ToSet
<1>4. n \in Nat /\ audios \in [1 .. n -> MediaPlaylist] /\ audios[k] = a.media
  <2>1. \A j \in 1 .. n : source.audio[j] \in Stream
    BY <1>2
  <2>2. \A j \in 1 .. n : source.audio[j].media \in MediaPlaylist
    BY <2>1 DEF Stream
  <2> QED BY <1>2, <1>3, <2>2
<1> HIDE DEF audios, n
<1> QED BY <1>1, <1>2, <1>4, BandwidthBounds

LEMMA LevelsFollow == IInv => LevelsCover
<1> SUFFICES ASSUME IInv, ServedMaster, source.shape.width * 9 <= source.shape.height * 16,
                    NEW v \in ToSet(source.variants), NEW l \in Entries("STREAM-INF"),
                    l.uri.path.dir = VariantDir(v), v.codec # "h264"
             PROVE  LevelCovers(v, l.level)
  BY DEF LevelsCover, LevelsCoverAll
<1>1. /\ source \in Source /\ v \in Variant
      /\ l.level = VariantLevel(v, source.fps)
  BY VariantOfEntry
<1> QED BY <1>1, VariantLevelCovers

-----------------------------------------------------------------------------
(* Every link of the API and of the proxy is a whole link: no entry of a   *)
(* playlist is passed on as the file has it (rewriteManifest).             *)
THEOREM TypeCorrect == Spec => []TypeOK
BY Invariant, TypeFollows, PTL

(* Playback never gets stuck: while its token lasts, every link a player   *)
(* is given, by GetVideo, GetTokens or any playlist they led it to, is     *)
(* answered with a stored file (rewriteManifest, ValidateToken, nginx).    *)
THEOREM LinksAlwaysWork == Spec => []LinksWork
BY Invariant, LinksFollow, PTL

(* A filter by codec serves the variants of that codec, or all of them     *)
(* where there is none, and nothing else (filterByCodec).                  *)
THEOREM CodecAlwaysHonoured == Spec => []CodecHonoured
BY Invariant, CodecFollows, PTL

(* A listed audio or subtitle track that is asked for is served alone, the *)
(* audio as the default, and no variant refers to an empty group           *)
(* (filterByTracks).                                                       *)
THEOREM TracksAlwaysServed == Spec => []TracksServed
BY Invariant, TracksFollow, PTL

(* No two renditions of a group that a player may select on its own have   *)
(* the same language (WriteMasterManifest).                                *)
THEOREM AutoselectUnambiguous == Spec => []AutoselectByLanguage
BY Invariant, AutoselectFollows, PTL

(* No two renditions of a group have the same name, unless a title looks   *)
(* like another's repetition (nameSet).                                    *)
THEOREM NamesAlwaysUnique == Spec => []NamesUnique
BY Invariant, NamesFollow, PTL

(* The cues of the API and the image stream of the playlist describe the   *)
(* sprite, for every setting and duration (thumbnail.go, worker.go).       *)
THEOREM CuesAlwaysMatch == Spec => []CuesMatchSprite
BY Invariant, CuesFollow, PTL

(* The bandwidth of a variant covers it with any rendition of its group,   *)
(* whatever their segments weigh (measuredBandwidth).                      *)
THEOREM BandwidthAlwaysCovers == Spec => []BandwidthCovers
BY Invariant, BandwidthFollows, PTL

(* The level of an H.265 or AV1 variant admits the encoded picture at its  *)
(* rate, if any level does, for every source no wider than 16:9            *)
(* (variantCodecs).                                                        *)
THEOREM LevelsAlwaysCover == Spec => []LevelsCover
BY Invariant, LevelsFollow, PTL
=============================================================================
