-------------------------- MODULE ThumbnailsProofs --------------------------
(***************************************************************************)
(* What the grids of module Thumbnails have to do with each other, for     *)
(* every duration and every setting.                                       *)
(***************************************************************************)
EXTENDS Thumbnails, TLAPS

-----------------------------------------------------------------------------
(* Integer division.                                                       *)

LEMMA Quotient ==
    ASSUME NEW a \in Nat, NEW b \in Nat \ {0}
    PROVE  /\ a \div b \in Nat
           /\ a % b \in 0 .. b - 1
           /\ a = (a \div b) * b + (a % b)
OBVIOUS

LEMMA QuotientUnique ==
    ASSUME NEW a \in Nat, NEW b \in Nat \ {0}, NEW q \in Int,
           q * b <= a, a < (q + 1) * b
    PROVE  a \div b = q
OBVIOUS

LEMMA TimesMonotone ==
    ASSUME NEW a \in Int, NEW b \in Int, NEW w \in Nat, a <= b
    PROVE  a * w <= b * w
OBVIOUS

LEMMA Seconds ==
    ASSUME NEW a \in Int, NEW b \in Int
    PROVE  1000 * a * b = a * (1000 * b)
OBVIOUS

(* The ceiling of a quotient is the number of stretches of length b that   *)
(* are needed to cover a.                                                  *)
LEMMA CeilBounds ==
    ASSUME NEW a \in Nat \ {0}, NEW b \in Nat \ {0}
    PROVE  /\ Ceil(a, b) \in Nat \ {0}
           /\ (Ceil(a, b) - 1) * b < a
           /\ a <= Ceil(a, b) * b
<1> DEFINE n == a + b - 1
           q == n \div b
           r == n % b
<1>1. n \in Nat
  OBVIOUS
<1>2. q \in Nat /\ r \in 0 .. b - 1 /\ n = q * b + r
  BY <1>1, Quotient
<1>3. a = (q - 1) * b + (r + 1)
  BY <1>2
<1>4. a <= q * b /\ (q - 1) * b < a
  BY <1>2, <1>3
<1>5. q # 0
  BY <1>2, <1>4
<1> QED BY <1>2, <1>4, <1>5 DEF Ceil

-----------------------------------------------------------------------------
(* Settings left at 0 or below become usable ones.                         *)
LEMMA Defaults ==
    ASSUME NEW c \in Setting
    PROVE  WithDefaults(c) \in [columns : Nat \ {0}, interval : Nat \ {0},
                                width : Nat \ {0}, height : Nat \ {0}]
BY DEF Setting, WithDefaults, DefaultThumbnails

(* The counts of the worker and of the driver agree.                       *)
LEMMA Counts ==
    ASSUME NEW d \in Nat \ {0}, NEW i \in Nat \ {0}
    PROVE  /\ TileCount(d, i) = Ceil(d, 1000 * i)
           /\ StoryboardCount(d, i) = Ceil(d, 1000 * i)
BY CeilBounds DEF TileCount, StoryboardCount

(* The cues of a grid whose count is the ceiling cover the duration.       *)
LEMMA CoverByCount ==
    ASSUME NEW d \in Nat \ {0}, NEW board,
           board.interval \in Nat \ {0}, board.columns \in Nat \ {0},
           board.count = Ceil(d, 1000 * board.interval)
    PROVE  CuesCover(Cues(board, d), d)
<1> DEFINE w == 1000 * board.interval
           n == board.count
           cues == Cues(board, d)
           Start(i) == 1000 * i * board.interval
<1>1. n \in Nat \ {0} /\ (n - 1) * w < d /\ d <= n * w
  BY CeilBounds
<1>2. cues = [i \in 1 .. n |-> Cue(board, d, i - 1)]
  BY <1>1 DEF Cues
<1>3. ASSUME NEW i \in Int
      PROVE  Start(i) = i * w /\ Start(i + 1) = i * w + w
  BY Seconds
<1>w. w \in Nat \ {0}
  OBVIOUS
<1>4. ASSUME NEW i \in 1 .. n
      PROVE  /\ cues[i].start = Start(i - 1)
             /\ cues[i].end = IF Start(i) > d THEN d ELSE Start(i)
  BY <1>2 DEF Cue
<1> HIDE DEF w, n, cues, Start
<1>5. ASSUME NEW i \in 1 .. n
      PROVE  (i - 1) * w < d
  <2>1. (i - 1) * w <= (n - 1) * w
    BY <1>1, <1>w, TimesMonotone
  <2> QED BY <2>1, <1>1, <1>w
<1>6. ASSUME NEW i \in 1 .. n
      PROVE  cues[i].start < cues[i].end
  <2>1. i - 1 \in Int /\ (i - 1) + 1 = i
    BY <1>1
  <2>2. Start(i - 1) = (i - 1) * w /\ Start(i) = (i - 1) * w + w
    BY <2>1, <1>3
  <2> QED BY <2>1, <2>2, <1>4, <1>5, <1>w
<1>7. ASSUME NEW i \in 1 .. n
      PROVE  cues[i].end = IF i + 1 \in 1 .. n THEN cues[i + 1].start ELSE d
  <2>1. CASE i + 1 \in 1 .. n
    <3>1. (i + 1) - 1 = i /\ i * w \in Int
      BY <1>1, <1>w
    <3>2. Start(i) = i * w /\ i * w < d
      BY <2>1, <3>1, <1>3, <1>5
    <3>3. cues[i + 1].start = Start(i)
      BY <2>1, <3>1, <1>4
    <3> QED BY <2>1, <3>1, <3>2, <3>3, <1>4
  <2>2. CASE i = n
    <3>1. Start(i) = n * w
      BY <2>2, <1>3
    <3>2. cues[i].end = d
      <4>1. n * w \in Int
        BY <1>1, <1>w
      <4> QED BY <3>1, <4>1, <1>1, <1>4
    <3>3. i + 1 \notin 1 .. n
      BY <2>2, <1>1
    <3> QED BY <3>2, <3>3
  <2> QED BY <2>1, <2>2, <1>1
<1>8. cues[1].start = 0
  <2>1. 1 \in 1 .. n /\ 1 - 1 = 0 /\ Start(0) = 0 * w
    BY <1>1, <1>3
  <2> QED BY <2>1, <1>4, <1>w
<1>9. DOMAIN cues = 1 .. n /\ cues # <<>>
  BY <1>1, <1>2
<1> USE DEF cues
<1> QED BY <1>6, <1>7, <1>8, <1>9 DEF CuesCover

(* The cues of a grid are the tiles of a sprite with just enough rows.     *)
LEMMA TilesByRows ==
    ASSUME NEW d \in Nat \ {0}, NEW board, NEW sprite,
           board.interval \in Nat \ {0}, board.count \in Nat \ {0},
           board.columns \in Nat \ {0}, board.width \in Nat, board.height \in Nat,
           sprite.columns = board.columns, sprite.width = board.width,
           sprite.height = board.height,
           sprite.rows = Ceil(board.count, board.columns)
    PROVE  CuesInSprite(Cues(board, d), sprite)
<1> DEFINE n == board.count
           k == board.columns
           cues == Cues(board, d)
<1>1. sprite.rows \in Nat \ {0} /\ (sprite.rows - 1) * k < n /\ n <= sprite.rows * k
  BY CeilBounds
<1>2. cues = [i \in 1 .. n |-> Cue(board, d, i - 1)]
  BY DEF Cues
<1>3. ASSUME NEW i \in 1 .. n
      PROVE  /\ cues[i].x = ((i - 1) % k) * sprite.width
             /\ cues[i].y = ((i - 1) \div k) * sprite.height
             /\ cues[i].width = sprite.width
             /\ cues[i].height = sprite.height
  BY <1>2 DEF Cue
<1>k. n \in Nat \ {0} /\ k \in Nat \ {0} /\ sprite.columns = k
  OBVIOUS
<1> HIDE DEF n, k, cues
<1>4. ASSUME NEW i \in 1 .. n
      PROVE  \E column \in 0 .. sprite.columns - 1, row \in 0 .. sprite.rows - 1 :
                /\ cues[i].x = column * sprite.width
                /\ cues[i].y = row * sprite.height
                /\ i = row * sprite.columns + column + 1
  <2> DEFINE row == (i - 1) \div k
             column == (i - 1) % k
  <2>0. i - 1 \in Nat
    BY <1>k
  <2>1. row \in Nat /\ column \in 0 .. k - 1 /\ i - 1 = row * k + column
    BY <2>0, <1>k, Quotient
  <2>x. cues[i].x = column * sprite.width /\ cues[i].y = row * sprite.height
    BY <1>3
  <2> HIDE DEF row, column
  <2>2. row < sprite.rows
    <3>1. SUFFICES ASSUME sprite.rows <= row PROVE FALSE
      BY <1>1, <2>1
    <3>2. sprite.rows * k <= row * k
      BY <1>1, <1>k, <2>1, <3>1, TimesMonotone
    <3>3. row * k \in Int /\ sprite.rows * k \in Int
      BY <1>1, <1>k, <2>1
    <3> QED BY <1>1, <1>k, <2>1, <3>2, <3>3
  <2>3. column \in 0 .. sprite.columns - 1 /\ row \in 0 .. sprite.rows - 1
    BY <1>1, <1>k, <2>1, <2>2
  <2>4. i = row * sprite.columns + column + 1
    <3>1. row * k \in Int
      BY <1>k, <2>1
    <3> QED BY <1>k, <2>1, <3>1
  <2> QED BY <2>x, <2>3, <2>4
<1>5. \E i \in 1 .. n : cues[i].y = (sprite.rows - 1) * sprite.height
  <2>1. (n - 1) \div k = sprite.rows - 1
    <3> DEFINE q == sprite.rows - 1
    <3>1. q \in Int /\ n - 1 \in Nat /\ q + 1 = sprite.rows
      BY <1>1, <1>k
    <3>2. q * k <= n - 1 /\ n - 1 < (q + 1) * k
      <4>1. q * k \in Int /\ sprite.rows * k \in Int
        BY <1>1, <1>k
      <4> HIDE DEF q
      <4> QED BY <1>1, <1>k, <3>1, <4>1 DEF q
    <3> HIDE DEF q
    <3>3. (n - 1) \div k = q
      BY <1>k, <3>1, <3>2, QuotientUnique
    <3> QED BY <3>3 DEF q
  <2>2. n \in 1 .. n
    BY <1>k
  <2> QED BY <1>3, <2>1, <2>2
<1>6. DOMAIN cues = 1 .. n
  BY <1>2
<1> USE DEF cues
<1> QED BY <1>3, <1>4, <1>5, <1>6 DEF CuesInSprite

(* The cues, the image stream and the sprite agree.                        *)
THEOREM GridsAgree ==
    ASSUME NEW d \in Nat \ {0}, NEW setting \in Setting
    PROVE  LET cues == Cues(Storyboard(d, setting), d)
               sprite == GenerateSprite(d, setting)
           IN  /\ CuesCover(cues, d)
               /\ CuesInSprite(cues, sprite)
               /\ ImageStreamTiles(d, setting) = sprite
<1> DEFINE c == WithDefaults(setting)
           board == Storyboard(d, setting)
           sprite == GenerateSprite(d, setting)
<1>1. c \in [columns : Nat \ {0}, interval : Nat \ {0}, width : Nat \ {0}, height : Nat \ {0}]
  BY Defaults
<1>2. /\ board.interval = c.interval /\ board.columns = c.columns
      /\ board.width = c.width /\ board.height = c.height
      /\ board.count = Ceil(d, 1000 * c.interval)
  BY <1>1, Counts DEF Storyboard
<1>3. /\ sprite.columns = c.columns /\ sprite.width = c.width /\ sprite.height = c.height
      /\ sprite.rows = Ceil(board.count, c.columns)
  BY <1>1, <1>2, Counts DEF GenerateSprite, Rows
<1>4. board.count \in Nat \ {0}
  BY <1>1, <1>2, CeilBounds
<1>5. CuesCover(Cues(board, d), d)
  BY <1>1, <1>2, CoverByCount
<1>6. CuesInSprite(Cues(board, d), sprite)
  BY <1>1, <1>2, <1>3, <1>4, TilesByRows
<1> QED BY <1>5, <1>6 DEF ImageStreamTiles, GenerateSprite
=============================================================================
