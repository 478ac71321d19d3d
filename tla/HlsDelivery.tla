---------------------------- MODULE HlsDelivery ----------------------------
(***************************************************************************)
(* How a ready video reaches a player: the master playlist the transcoder  *)
(* wrote (internal/ffmpeg/transcoder.go), the signed URLs of the API       *)
(* (internal/service/video.go), the manifest proxy that filters playlists  *)
(* and rewrites their links (internal/handler/hls_manifest.go), and the    *)
(* check nginx asks for before it serves a segment                         *)
(* (internal/handler/hls_auth.go, nginx/nginx.conf).                       *)
(*                                                                         *)
(* A playlist is the set of its entries, each with its place among those   *)
(* of its tag; a STREAM-INF tag and the URL line after it are one entry.   *)
(* An HMAC is the pair it signs.                                           *)
(***************************************************************************)
EXTENDS Thumbnails, VariantAttributes, TLC

CONSTANTS
    Video,           \* the video's id
    Sources,         \* what TranscodeJob may have produced for it, see below
    Codecs, Indexes, \* what ?codec=, and ?audio= and ?subs=, may ask for
    RequireToken,    \* HLS_REQUIRE_TOKEN
    TTL,             \* hlsTokenTTL
    Horizon,         \* how long the clock is followed
    None

(* A source: the audio and subtitle streams that were extracted, each with *)
(* its TypeIndex, language and title; the variants (see VariantAttributes) *)
(* in the order of their ladder; the media of each stream and variant;     *)
(* whether there is a sprite with its image stream, and with which         *)
(* setting; and the duration, shape and frame rate that were probed.       *)
Stream == [index : Nat, language : STRING, title : STRING, media : MediaPlaylist]

Source == [audio : Seq(Stream), subtitles : Seq(Stream), variants : Seq(Variant),
           image : BOOLEAN, duration : Nat, thumbs : Setting,
           shape : [width : Nat \ {0}, height : Nat \ {0}], fps : Nat]

(* Streams are told apart by their index, variants by codec and quality.   *)
Distinct(s) ==
    /\ \A streams \in {s.audio, s.subtitles} : \A i, j \in DOMAIN streams :
          streams[i].index = streams[j].index => i = j
    /\ \A i, j \in DOMAIN s.variants :
          /\ s.variants[i].codec = s.variants[j].codec
          /\ s.variants[i].quality = s.variants[j].quality
          => i = j

ASSUME SourceAssumption == Sources \subseteq Source /\ \A s \in Sources : Distinct(s)
ASSUME ClockAssumption == TTL \in Nat /\ Horizon \in Nat
ASSUME TokenAssumption == RequireToken \in BOOLEAN

VARIABLES
    source,   \* the video
    now,      \* the clock of the API
    page,     \* the last answer of GetVideo or GetTokens
    answer    \* the last playlist the proxy served

vars == <<source, now, page, answer>>

NoQuery == [codec |-> None, audio |-> None, subs |-> None]
Query == [codec : Codecs \cup {None}, audio : Indexes \cup {None}, subs : Indexes \cup {None}]

Init == /\ source \in Sources
        /\ now = 0
        /\ page = None
        /\ answer = None

-----------------------------------------------------------------------------
(* The files of a video, named by their paths below hls/<id>/.             *)

Path(dir, file, ext) == [dir |-> dir, file |-> file, ext |-> ext]
Master == Path(<<>>, "master", "m3u8")
Playlist(dir) == Path(dir, "index", "m3u8")

AudioDir(i) == <<"audio", i>>
SubsDir(i) == <<"subs", i>>
ImageDir == <<"images">>
VariantDir(v) == <<v.codec, v.quality>>

MediaDirs == {VariantDir(v) : v \in ToSet(source.variants)}
             \cup {AudioDir(a.index) : a \in ToSet(source.audio)}
SubsDirs == {SubsDir(t.index) : t \in ToSet(source.subtitles)}
ImageDirs == IF source.image THEN {ImageDir} ELSE {}

Dirs == MediaDirs \cup SubsDirs \cup ImageDirs

(* The entries of the media playlists: fMP4 segments after their init      *)
(* file, the WebVTT file, the sprite.                                      *)
Segments(dir) ==
    IF dir \in MediaDirs THEN {[tag |-> "MAP", uri |-> Path(<<>>, "init", "mp4")],
                               [tag |-> "URL", uri |-> Path(<<>>, "00000", "m4s")]}
    ELSE IF dir \in SubsDirs THEN {[tag |-> "URL", uri |-> Path(<<>>, "sub", "vtt")]}
    ELSE {[tag |-> "URL", uri |-> Path(<<>>, "sprite", "jpg")]}

Playlists == {Master} \cup {Playlist(d) : d \in Dirs}

Stored == Playlists
          \cup UNION {{Path(d, l.uri.file, l.uri.ext) : l \in Segments(d)} : d \in Dirs}

-----------------------------------------------------------------------------
(* Tokens.                                                                 *)

ComputeHLSToken(video, expires) == <<video, expires>>

Token(expires) == [mac |-> ComputeHLSToken(Video, expires), expires |-> expires]

ASSUME NoneAssumption == /\ None \notin {"h264", "h265", "av1"}
                         /\ \A expires \in 0 .. TTL + Horizon : Token(expires) # None

(* validateToken and ValidateToken, which are the same.                    *)
ValidToken(video, token) ==
    \/ ~RequireToken
    \/ /\ token # None
       /\ now <= token.expires
       /\ token.mac = ComputeHLSToken(video, token.expires)

Link(route, path, token) == [route |-> route, video |-> Video, path |-> path, token |-> token]

-----------------------------------------------------------------------------
(* Faulty variants of definitions below, one plausible bug each.           *)

\* The init segment is addressed without the token.
RewriteBareMap(lines, base, token) ==
    {[l EXCEPT !.uri = Link(IF @.ext = "m3u8" THEN "/hls-proxy/" ELSE "/hls/",
                            Path(base \o @.dir, @.file, @.ext),
                            IF l.tag = "MAP" THEN None ELSE token)] : l \in lines}

\* Only the URL lines are rewritten, not the URI attributes of tags.
RewriteUrlsOnly(lines, base, token) ==
    {IF l.tag \notin {"URL", "STREAM-INF"} THEN l
     ELSE [l EXCEPT !.uri = Link(IF @.ext = "m3u8" THEN "/hls-proxy/" ELSE "/hls/",
                                 Path(base \o @.dir, @.file, @.ext), token)] : l \in lines}

\* The language is compared before "" becomes "und".
AutoselectRaw(streams, i) ==
    ~\E j \in 1 .. i - 1 : streams[j].language = streams[i].language

\* ?subs= is ignored.
FilterByTracksAudioOnly(lines, audio, subs) ==
    {IF l.tag = "AUDIO" /\ audio # None THEN [l EXCEPT !.default = TRUE] ELSE l :
        l \in {l \in lines : l.tag = "AUDIO" /\ audio # None => l.uri.dir = AudioDir(audio)}}

\* No fallback to the whole playlist.
FilterByCodecOnly(lines, codec) ==
    {l \in lines : l.tag = "STREAM-INF" => l.uri.dir[1] = codec}

-----------------------------------------------------------------------------
(* WriteMasterManifest.                                                    *)

DisplayName(streams, i) ==
    IF streams[i].title # "" THEN streams[i].title
    ELSE IF streams[i].language # "" THEN streams[i].language
    ELSE "Track " \o ToString(i)

Repeat(base, n) == base \o " " \o ToString(n)

(* The name and the number are told apart by the last space: of strings,   *)
(* always so.                                                              *)
ASSUME NamesAssumption ==
    \A s \in Sources : \A streams \in {s.audio, s.subtitles} : \A i, j, m, n \in DOMAIN streams :
        Repeat(DisplayName(streams, i), m) = Repeat(DisplayName(streams, j), n)
            => DisplayName(streams, i) = DisplayName(streams, j) /\ m = n

\* A faulty variant of the next: repetitions are not numbered.
UniqueNameNot(streams, i) == DisplayName(streams, i)

(* nameSet: the n-th use of a name, n > 1, is followed by n.               *)
UniqueName(streams, i) ==
    LET base == DisplayName(streams, i)
        n == Cardinality({j \in 1 .. i : DisplayName(streams, j) = base})
    IN  IF n = 1 THEN base ELSE Repeat(base, n)

Language(stream) == IF stream.language = "" THEN "und" ELSE stream.language

(* Only the first rendition of a language.                                 *)
Autoselect(streams, i) ==
    ~\E j \in 1 .. i - 1 : Language(streams[j]) = Language(streams[i])

\* Of the audio renditions, the first is the default.
Rendition(tag, streams, i) ==
    [tag |-> tag, place |-> i, language |-> Language(streams[i]),
     name |-> UniqueName(streams, i), default |-> tag = "AUDIO" /\ i = 1,
     autoselect |-> Autoselect(streams, i),
     uri |-> Playlist(IF tag = "AUDIO" THEN AudioDir(streams[i].index)
                      ELSE SubsDir(streams[i].index))]

StreamInf(i) ==
    LET v == source.variants[i]
    IN  [tag |-> "STREAM-INF", place |-> i,
         audio |-> source.audio # <<>>, subs |-> source.subtitles # <<>>,
         bandwidth |-> Bandwidth(v.media, [j \in DOMAIN source.audio |-> source.audio[j].media]),
         level |-> IF v.codec = "h264" THEN None ELSE VariantLevel(v, source.fps),
         uri |-> Playlist(VariantDir(v))]

WriteMaster ==
    {Rendition("AUDIO", source.audio, i) : i \in DOMAIN source.audio}
    \cup {Rendition("SUBTITLES", source.subtitles, i) : i \in DOMAIN source.subtitles}
    \cup {[tag |-> "IMAGES", uri |-> Playlist(d)] : d \in ImageDirs}
    \cup {StreamInf(i) : i \in DOMAIN source.variants}

-----------------------------------------------------------------------------
(* The proxy's filters and rewriting.                                      *)

FilterByCodec(lines, codec) ==
    LET kept == {l \in lines : l.tag = "STREAM-INF" => l.uri.dir[1] = codec}
    IN  IF \E l \in kept : l.tag = "STREAM-INF" THEN kept ELSE lines

ForceDefault(line) == [line EXCEPT !.default = TRUE]

FilterByTracks(lines, audio, subs) ==
    {IF l.tag = "AUDIO" /\ audio # None THEN ForceDefault(l) ELSE l :
        l \in {l \in lines :
                  /\ l.tag = "AUDIO" /\ audio # None => l.uri.dir = AudioDir(audio)
                  /\ l.tag = "SUBTITLES" /\ subs # None => l.uri.dir = SubsDir(subs)}}

Filtered(lines, q) ==
    FilterByTracks(IF q.codec = None THEN lines ELSE FilterByCodec(lines, q.codec),
                   q.audio, q.subs)

(* Where a line's link leads: tags by their name, URL lines by extension.  *)
Route(line) ==
    IF line.tag = "MAP" THEN "/hls/"
    ELSE IF line.tag \in {"AUDIO", "SUBTITLES", "IMAGES"} THEN "/hls-proxy/"
    ELSE IF line.uri.ext = "m3u8" THEN "/hls-proxy/"
    ELSE IF line.uri.ext \in {"ts", "m4s", "jpg", "jpeg", "vtt"} THEN "/hls/"
    ELSE "unchanged"

(* A link is resolved against the directory of the playlist it is in, and  *)
(* given the token of the request.                                         *)
Rewrite(lines, base, token) ==
    {IF Route(l) = "unchanged" THEN l
     ELSE [l EXCEPT !.uri = Link(Route(l), Path(base \o @.dir, @.file, @.ext), token)] :
        l \in lines}

-----------------------------------------------------------------------------
(* What a request for a link is answered.                                  *)

ProxyStatus(link) ==
    IF link.path.ext # "m3u8" THEN 400
    ELSE IF ~ValidToken(link.video, link.token) THEN 401
    ELSE IF link.path \notin Stored THEN 404
    ELSE 200

NginxStatus(link) ==
    IF link.path.ext \notin {"ts", "m4s", "mp4", "jpg", "jpeg", "vtt"} THEN 404
    ELSE IF ~ValidToken(link.video, link.token) THEN 401
    ELSE IF link.path \notin Stored THEN 404
    ELSE 200

StatusOf(link) == IF link.route = "/hls-proxy/" THEN ProxyStatus(link) ELSE NginxStatus(link)

PageLinks == IF page = None THEN {} ELSE {page.manifest} \cup page.tracks
AnswerLinks == IF answer = None THEN {} ELSE {l.uri : l \in answer.body}

-----------------------------------------------------------------------------
(* GetVideo: the manifest URL and one URL for each track of the row, which *)
(* are those that were extracted; signed if tokens are required.           *)
GetVideo ==
    LET token == IF RequireToken THEN Token(now + TTL) ELSE None
        tracks == {AudioDir(a.index) : a \in ToSet(source.audio)} \cup SubsDirs
    IN  /\ page' = [token |-> token,
                    manifest |-> Link("/hls-proxy/", Master, token),
                    tracks |-> {Link("/hls-proxy/", Playlist(d), token) : d \in tracks}]
        /\ UNCHANGED <<source, now, answer>>

(* GetTokens: a manifest URL that is always signed.                        *)
GetTokens ==
    LET token == Token(now + TTL)
    IN  /\ page' = [token |-> token, manifest |-> Link("/hls-proxy/", Master, token),
                    tracks |-> {}]
        /\ UNCHANGED <<source, now, answer>>

Content(path, q) == IF path = Master THEN Filtered(WriteMaster, q) ELSE Segments(path.dir)

(* The player asks for a playlist it was given a link to, the master with  *)
(* any query; other playlists are not filtered.                            *)
ServeManifest(link, q) ==
    /\ link.route = "/hls-proxy/"
    /\ link.path # Master => q = NoQuery
    /\ ProxyStatus(link) = 200
    /\ answer' = [path |-> link.path, query |-> q, token |-> link.token,
                  body |-> Rewrite(Content(link.path, q), link.path.dir, link.token)]
    /\ UNCHANGED <<source, now, page>>

Tick == now < Horizon /\ now' = now + 1 /\ UNCHANGED <<source, page, answer>>

Next == \/ GetVideo \/ GetTokens \/ Tick
        \/ \E link \in PageLinks \cup AnswerLinks, q \in Query : ServeManifest(link, q)

Spec == Init /\ [][Next]_vars

-----------------------------------------------------------------------------
IsLink(l) == DOMAIN l = {"route", "video", "path", "token"}

(* The clock, and answers in which every link has been rewritten.          *)
TypeOK == /\ source \in Sources
          /\ now \in 0 .. Horizon
          /\ \A l \in PageLinks \cup AnswerLinks : IsLink(l)

(* Playback never gets stuck: as long as the token a player was given is   *)
(* valid, every link in every playlist it is served, through any number of *)
(* playlists and under any filters, leads to a file that is stored, on a   *)
(* route that serves it, and carries a token that is accepted              *)
(* (hls_manifest.go:149-198, nginx.conf, hls_auth.go).                     *)
Lasts(token) == token # None => now <= token.expires

LinksWork ==
    /\ page # None /\ Lasts(page.token) => \A l \in PageLinks : StatusOf(l) = 200
    /\ answer # None /\ Lasts(answer.token) => \A l \in AnswerLinks : StatusOf(l) = 200

ServedMaster == answer # None /\ answer.path = Master
Entries(tag) == {l \in answer.body : l.tag = tag}

(* Filtering by codec never takes the video away: the variants that are    *)
(* served are those of the codec that is asked for or, if it was not made  *)
(* for this video, all of them (openapi.yaml:877), whatever the tracks     *)
(* that are asked for in the same request.                                 *)
CodecHonoured ==
    ServedMaster =>
        LET all == ToSet(source.variants)
            asked == {v \in all : v.codec = answer.query.codec}
        IN  {l.uri.path.dir : l \in Entries("STREAM-INF")}
            = {VariantDir(v) : v \in IF asked = {} THEN all ELSE asked}

(* A track the API lists can be asked for: the master has that rendition   *)
(* alone, of audio as of subtitles (openapi.yaml:878-879), and the audio   *)
(* promoted to DEFAULT=YES, so that a player starts with it; and the       *)
(* groups the variants refer to have a member, whatever was asked for.     *)
Lists(streams, index) == index = None \/ \E s \in ToSet(streams) : s.index = index

TracksServed ==
    /\ ServedMaster
    /\ Lists(source.audio, answer.query.audio)
    /\ Lists(source.subtitles, answer.query.subs)
    => LET audio == Entries("AUDIO")
           subs == Entries("SUBTITLES")
       IN  /\ audio # {} => \E l \in audio : \A m \in audio : m.default <=> m = l
           /\ answer.query.audio # None =>
                 {l.uri.path.dir : l \in audio} = {AudioDir(answer.query.audio)}
           /\ answer.query.subs # None =>
                 {l.uri.path.dir : l \in subs} = {SubsDir(answer.query.subs)}
           /\ \A v \in Entries("STREAM-INF") :
                 (v.audio => audio # {}) /\ (v.subs => subs # {})

(* Renditions with AUTOSELECT=YES are distinguishable by language          *)
(* (transcoder.go:970-971), untagged streams and "und" ones included.      *)
AutoselectByLanguage ==
    ServedMaster =>
        \A tag \in {"AUDIO", "SUBTITLES"} : \A l, m \in Entries(tag) :
            l.autoselect /\ m.autoselect /\ l.language = m.language => l = m

(* Rendition names are unique within their group (transcoder.go:936-937),  *)
(* repeated and missing titles included, as long as no title looks like a  *)
(* numbered repetition of another.                                         *)
Numbered(streams) ==
    \E i, j, n \in DOMAIN streams :
        DisplayName(streams, i) = Repeat(DisplayName(streams, j), n)

NamesUnique ==
    ServedMaster =>
        \A tag \in {"AUDIO", "SUBTITLES"} :
            ~Numbered(IF tag = "AUDIO" THEN source.audio ELSE source.subtitles) =>
                \A l, m \in Entries(tag) : l.name = m.name => l = m

(* The scrubbing cues of the API and the image stream of the playlist      *)
(* describe the sprite ffmpeg was asked for, although each is worked out   *)
(* from the settings and the duration on its own ("must mirror the tile    *)
(* count", worker.go:428-429): the cues cover the video without a gap, and *)
(* their tiles are those of the sprite.  Settings left at 0, and durations *)
(* at and next to a multiple of the interval or of a row, included.        *)
CuesMatchSprite ==
    source.image /\ source.duration > 0 =>
        LET cues == Cues(Storyboard(source.duration, source.thumbs), source.duration)
            sprite == GenerateSprite(source.duration, source.thumbs)
        IN  /\ CuesCover(cues, source.duration)
            /\ CuesInSprite(cues, sprite)
            /\ ImageStreamTiles(source.duration, source.thumbs) = sprite

(* "The variant BANDWIDTH must cover video plus the audio rendition the    *)
(* player will fetch" (transcoder.go:1008-1009): whichever rendition of    *)
(* the group it selects.                                                   *)
BandwidthCovers ==
    ServedMaster =>
        \A v \in ToSet(source.variants), a \in ToSet(source.audio) :
            \A l \in Entries("STREAM-INF") :
                l.uri.path.dir = VariantDir(v) =>
                    /\ l.bandwidth.peak >= Peak(v.media) + Peak(a.media)
                    /\ l.bandwidth.average >= Average(v.media) + Average(a.media)

(* "The CODECS level must not understate the bitstream"                    *)
(* (transcoder.go:1139-1140): the declared level admits the picture that   *)
(* is encoded, at its rate, if any level does, for a source that is not    *)
(* wider than 16:9.                                                        *)
Admits(name, codec, size, rate) ==
    \E level \in ToSet(Levels(codec)) : level.name = name /\ Fits(level, size, rate)

LevelCovers(v, name) ==
    LET size == EncodedSize(v, source.shape)
        rate == size * source.fps
    IN  (\E level \in ToSet(Levels(v.codec)) : Fits(level, size, rate))
            => Admits(name, v.codec, size, rate)

LevelsCoverAll ==
    ServedMaster =>
        \A v \in ToSet(source.variants), l \in Entries("STREAM-INF") :
            l.uri.path.dir = VariantDir(v) /\ v.codec # "h264" => LevelCovers(v, l.level)

LevelsCover == source.shape.width * 9 <= source.shape.height * 16 => LevelsCoverAll

(* The same of any source, as the comment has it.  The code does not keep  *)
(* it.                                                                     *)
LevelNeverUnderstates == LevelsCoverAll
=============================================================================
