------------------------- MODULE TranscodeHLSProofs -------------------------
(***************************************************************************)
(* The invariants of TranscodeHLS, for every ladder of codecs and          *)
(* qualities, every source, and pipes and buffers of every size.           *)
(***************************************************************************)
EXTENDS TranscodeHLS, NumberLemmas

-----------------------------------------------------------------------------
(* The inductive invariant.                                                *)

(* What is known of a codec at each stage.                                 *)
Stages(c) ==
    /\ read[c] + Len(pipe[c]) <= Reports
    /\ line[c] <= read[c]
    /\ stage[c] = "start" => proc[c] = "none" /\ parser[c] = "none"
    /\ stage[c] = "wait" => proc[c] # "none"
    /\ stage[c] = "parsing" => proc[c] \in {"ok", "failed"}
    /\ stage[c] = "done" => proc[c] # "running" /\ parser[c] # "scan"
    /\ hold[c] # None => parser[c] = "scan"

(* A result is what became of its codec.                                   *)
Truthful(r) == /\ stage[r[1]] = "done"
               /\ IF r[2] THEN proc[r[1]] # "ok" ELSE proc[r[1]] = "ok" \/ Rungs(r[1]) = {}

Told ==
    /\ \A i \in DOMAIN results : Truthful(results[i])
    /\ \A i, j \in DOMAIN results : results[i][1] = results[j][1] => i = j
    /\ \A c \in Codec : stage[c] = "done" => \E i \in DOMAIN results : results[i][1] = c

Concluded ==
    /\ ~Returned => progress < 65
    /\ Returned => \A c \in Codec : stage[c] = "done"

IInv == /\ TypeOK
        /\ \A c \in Codec : Stages(c)
        /\ Told
        /\ Concluded
        /\ LadderInOrder
        /\ MandatoryEncoded

-----------------------------------------------------------------------------
(* The ladder.                                                             *)

LEMMA PositionOf ==
    ASSUME NEW S, NEW s \in Seq(S), NEW x \in ToSet(s)
    PROVE  Position(s, x) \in 1 .. Len(s) /\ s[Position(s, x)] = x
<1>1. \E i \in DOMAIN s : s[i] = x
  BY DEF ToSet
<1> QED BY <1>1 DEF Position

LEMMA SizeOfRange ==
    ASSUME NEW S, NEW s \in Seq(S), IsInjective(s)
    PROVE  IsFiniteSet(ToSet(s)) /\ Cardinality(ToSet(s)) = Len(s)
<1>1. s \in Bijection(1 .. Len(s), ToSet(s))
  BY DEF Bijection, Injection, Surjection, ToSet, IsInjective
<1>2. Len(s) \in Nat
  OBVIOUS
<1>3. ExistsBijection(1 .. Len(s), ToSet(s))
  BY <1>1 DEF ExistsBijection
<1> QED BY <1>2, <1>3, FS_CountingElements, FS_NatBijection

LEMMA CodecsFinite == IsFiniteSet(Codec) /\ Cardinality(Codec) = Len(Codecs)
BY LadderAssumption, SizeOfRange DEF Codec

(* The variants are sorted by a number.                                    *)
LEMMA LessByKey ==
    ASSUME NEW m \in Nat,
           NEW a \in Int, NEW b \in Int, NEW i \in 1 .. m, NEW j \in 1 .. m
    PROVE  a * (m + 1) + i < b * (m + 1) + j <=> a < b \/ (a = b /\ i < j)
<1>1. CASE a < b
  <2>1. (a + 1) * (m + 1) <= b * (m + 1)
    BY <1>1
  <2>2. (a + 1) * (m + 1) = a * (m + 1) + (m + 1)
    OBVIOUS
  <2>3. a * (m + 1) \in Int /\ b * (m + 1) \in Int
    OBVIOUS
  <2> QED BY <1>1, <2>1, <2>2, <2>3
<1>2. CASE b < a
  <2>1. (b + 1) * (m + 1) <= a * (m + 1)
    BY <1>2
  <2>2. (b + 1) * (m + 1) = b * (m + 1) + (m + 1)
    OBVIOUS
  <2>3. a * (m + 1) \in Int /\ b * (m + 1) \in Int
    OBVIOUS
  <2> QED BY <1>2, <2>1, <2>2, <2>3
<1>3. CASE a = b
  BY <1>3
<1> QED BY <1>1, <1>2, <1>3

Variant == Codec \X ToSet(Qualities)

LEMMA Sorted ==
    ASSUME NEW V \in SUBSET Variant
    PROVE  LET s == sortVariants(V)
           IN  /\ ToSet(s) = V
               /\ \A i, j \in DOMAIN s : i < j => Less(s[i], s[j])
<1> DEFINE m == Len(Qualities)
           At(v) == Position(Codecs, v[1])
           Rank(v) == Position(Qualities, v[2])
           key == [v \in V |-> At(v) * (m + 1) + Rank(v)]
           s == sortVariants(V)
           n == Cardinality(V)
<1>1. m \in Nat
  BY LadderAssumption
<1>2. ASSUME NEW v \in V
      PROVE  /\ At(v) \in Int /\ Rank(v) \in 1 .. m
             /\ v = <<Codecs[At(v)], Qualities[Rank(v)]>>
  <2>1. v = <<v[1], v[2]>> /\ v[1] \in ToSet(Codecs) /\ v[2] \in ToSet(Qualities)
    BY DEF Variant, Codec
  <2>2. At(v) \in 1 .. Len(Codecs) /\ Codecs[At(v)] = v[1]
    BY <2>1, LadderAssumption, PositionOf
  <2>3. Rank(v) \in 1 .. Len(Qualities) /\ Qualities[Rank(v)] = v[2]
    BY <2>1, LadderAssumption, PositionOf
  <2> QED BY <2>1, <2>2, <2>3
<1>3. ASSUME NEW v \in V, NEW w \in V
      PROVE  key[v] < key[w] <=> At(v) < At(w) \/ (At(v) = At(w) /\ Rank(v) < Rank(w))
  <2>1. /\ At(v) \in Int /\ Rank(v) \in 1 .. m /\ At(w) \in Int /\ Rank(w) \in 1 .. m
    BY <1>2
  <2> HIDE DEF At, Rank, m
  <2> QED BY <1>1, <2>1, LessByKey DEF key
<1>4. ASSUME NEW v \in V, NEW w \in V, key[v] < key[w]
      PROVE  Less(v, w)
  <2>1. At(v) = At(w) => v[1] = w[1]
    BY <1>2
  <2> QED BY <1>3, <1>4, <2>1 DEF Less
<1>5. key \in [V -> Int]
  <2>1. ASSUME NEW v \in V PROVE At(v) * (m + 1) + Rank(v) \in Int
    BY <1>1, <1>2
  <2> QED BY <2>1
<1>6. IsInjective(key)
  <2>1. SUFFICES ASSUME NEW v \in V, NEW w \in V, key[v] = key[w] PROVE v = w
    BY DEF IsInjective
  <2>2. ~(key[v] < key[w]) /\ ~(key[w] < key[v])
    BY <1>5, <2>1
  <2>3. At(v) = At(w) /\ Rank(v) = Rank(w)
    <3>1. At(v) \in Int /\ Rank(v) \in Int /\ At(w) \in Int /\ Rank(w) \in Int
      BY <1>2
    <3> HIDE DEF At, Rank, key
    <3> QED BY <1>3, <2>2, <3>1
  <2> QED BY <1>2, <2>3
<1>7. IsFiniteSet(V)
  <2>1. IsFiniteSet(Variant)
    BY CodecsFinite, LadderAssumption, SizeOfRange, FS_Product DEF Variant
  <2> QED BY <2>1, FS_Subset
<1> HIDE DEF key
<1>8. PICK f \in [1 .. n -> V] : \A i, j \in 1 .. n : i < j => key[f[i]] < key[f[j]]
  BY <1>5, <1>6, <1>7, SortedEnumeration
<1>9. \A i, j \in DOMAIN f : i < j => Less(f[i], f[j])
  BY <1>4, <1>8
<1>10. s \in [1 .. n -> V] /\ \A i, j \in DOMAIN s : i < j => Less(s[i], s[j])
  BY <1>9 DEF sortVariants
<1>11. ASSUME NEW v \in V, NEW w \in V, Less(v, w) PROVE v # w
  <2>1. At(v) \in Int /\ Rank(v) \in Int /\ At(w) \in Int /\ Rank(w) \in Int
    BY <1>2
  <2> QED BY <2>1, <1>11 DEF Less
<1>12. ToSet(s) = V
  <2>1. \A i, j \in 1 .. n : i < j => s[i] # s[j]
    BY <1>10, <1>11
  <2> HIDE DEF s
  <2> QED BY <1>7, <1>10, <2>1, AscendingIsOnto DEF ToSet
<1> QED BY <1>10, <1>12

-----------------------------------------------------------------------------
(* The percentages.                                                        *)

LEMMA PercentRange ==
    ASSUME NEW f \in [Codec -> 0 .. Duration]
    PROVE  Percent(f) \in 15 .. 64
<1> DEFINE s == [i \in DOMAIN Codecs |-> f[Codecs[i]]]
<1>1. s \in Seq(Nat)
  BY LadderAssumption, SizeAssumption DEF Codec
<1>2. Total(s) \in Nat
  BY <1>1, TotalOfNaturals
<1>3. Duration * Len(Codecs) \in Nat \ {0}
  <2>1. Duration \in Nat \ {0} /\ Len(Codecs) \in Nat \ {0}
    BY LadderAssumption, SizeAssumption
  <2> QED BY <2>1
<1> DEFINE q == (50 * Total(s)) \div (Duration * Len(Codecs))
<1>4. q \in Nat
  <2>1. \A m \in Nat, n \in Nat \ {0} : m \div n \in Nat
    OBVIOUS
  <2>2. 50 * Total(s) \in Nat
    BY <1>2
  <2> HIDE DEF s
  <2> QED BY <1>3, <2>1, <2>2
<1>5. Percent(f) = MinOf(64, 15 + q)
  BY DEF Percent
<1> HIDE DEF q
<1> QED BY <1>4, <1>5 DEF MinOf

-----------------------------------------------------------------------------
(* What a codec's end does to the verdict.                                 *)

(* The channel has room for every result.                                  *)
LEMMA ResultsFit ==
    ASSUME NEW r \in Seq(Codec \X BOOLEAN),
           \A i, j \in DOMAIN r : r[i][1] = r[j][1] => i = j
    PROVE  Len(r) <= Len(Codecs)
<1> DEFINE f == [i \in 1 .. Len(r) |-> r[i][1]]
<1>1. Len(r) \in Nat /\ Cardinality(1 .. Len(r)) = Len(r)
  BY FS_Interval
<1>2. f \in [1 .. Len(r) -> Codec]
  OBVIOUS
<1>3. f \in Injection(1 .. Len(r), Codec)
  BY <1>2 DEF Injection, IsInjective
<1> HIDE DEF f
<1> QED BY <1>1, <1>3, CodecsFinite, FS_Injection

(* A step that ends no codec leaves the verdict as it was.                 *)
LEMMA KeepsVerdict ==
    ASSUME IInv, UNCHANGED <<height, results, outcome>>,
           \A c \in Codec : stage[c] = "done" => stage'[c] = "done" /\ proc'[c] = proc[c],
           \A c \in Codec : stage'[c] = "done" => stage[c] = "done"
    PROVE  Told' /\ LadderInOrder' /\ MandatoryEncoded'
<1>1. \A c : Rungs(c)' = Rungs(c)
  BY DEF Rungs, Applicable
<1>2. Told'
  <2>1. ASSUME NEW i \in DOMAIN results PROVE Truthful(results[i])'
    <3>1. Truthful(results[i]) /\ results[i][1] \in Codec
      BY DEF IInv, Told, TypeOK
    <3> QED BY <1>1, <3>1 DEF Truthful
  <2> QED BY <2>1 DEF IInv, Told
<1>3. Returned' => Returned /\ \A c \in Codec : proc'[c] = proc[c]
  BY DEF IInv, Concluded, Returned
<1>4. LadderInOrder'
  <2>1. SUFFICES ASSUME Returned', outcome'.err = None PROVE LadderInOrder'
    BY DEF LadderInOrder
  <2>2. {c \in Codec : proc'[c] = "ok"} = {c \in Codec : proc[c] = "ok"}
    BY <1>3, <2>1
  <2>3. UNION {Rungs(c)' : c \in {c \in Codec : proc'[c] = "ok"}}
        = UNION {Rungs(c) : c \in {c \in Codec : proc[c] = "ok"}}
    BY <1>1, <2>2
  <2> QED BY <1>3, <2>1, <2>3 DEF IInv, LadderInOrder
<1>5. MandatoryEncoded'
  BY <1>3 DEF IInv, MandatoryEncoded, Applicable
<1> QED BY <1>2, <1>4, <1>5

(* The result of a codec is told.                                          *)
LEMMA Recorded ==
    ASSUME IInv, NEW c \in Codec, NEW failed \in BOOLEAN, stage[c] # "done",
           Result(c, failed), UNCHANGED <<height, proc, outcome>>,
           IF failed THEN proc[c] # "ok" ELSE proc[c] = "ok" \/ Rungs(c) = {}
    PROVE  /\ results' \in Seq(Codec \X BOOLEAN) /\ Len(results') <= Len(Codecs)
           /\ Told' /\ LadderInOrder' /\ MandatoryEncoded' /\ ~Returned
<1> DEFINE n == Len(results)
<1>1. results \in Seq(Codec \X BOOLEAN) /\ n \in Nat
  BY DEF IInv, TypeOK
<1>2. /\ results' \in Seq(Codec \X BOOLEAN)
      /\ DOMAIN results' = 1 .. n + 1
      /\ results'[n + 1] = <<c, failed>>
      /\ \A i \in DOMAIN results : results'[i] = results[i]
      /\ DOMAIN results = 1 .. n
  BY <1>1 DEF Result
<1>3. stage' = [stage EXCEPT ![c] = "done"] /\ stage \in [Codec -> {"start", "wait", "parsing", "done"}]
  BY DEF Result, IInv, TypeOK
<1>4. \A b : Rungs(b)' = Rungs(b)
  BY DEF Rungs, Applicable
<1>5. \A i \in DOMAIN results : Truthful(results[i]) /\ results[i][1] \in Codec /\ results[i][1] # c
  <2>1. \A i \in DOMAIN results : results[i] \in Codec \X BOOLEAN
    BY <1>1
  <2>2. \A i \in DOMAIN results : Truthful(results[i])
    BY DEF IInv, Told
  <2> QED BY <2>1, <2>2 DEF Truthful
<1>6. \A i \in DOMAIN results' : i \in DOMAIN results \/ i = n + 1
  BY <1>2
<1>7. ASSUME NEW i \in DOMAIN results' PROVE Truthful(results[i])'
  <2>1. CASE i = n + 1
    BY <1>2, <1>3, <1>4, <2>1 DEF Truthful
  <2>2. CASE i \in DOMAIN results
    BY <1>2, <1>3, <1>4, <1>5, <2>2 DEF Truthful
  <2> QED BY <1>6, <2>1, <2>2
<1>8. \A i, j \in DOMAIN results' : results'[i][1] = results'[j][1] => i = j
  <2>1. \A i, j \in DOMAIN results : results[i][1] = results[j][1] => i = j
    BY DEF IInv, Told
  <2> QED BY <1>2, <1>5, <1>6, <2>1
<1>9. \A b \in Codec : stage'[b] = "done" => \E i \in DOMAIN results' : results'[i][1] = b
  <2>1. SUFFICES ASSUME NEW b \in Codec, stage'[b] = "done"
                 PROVE  \E i \in DOMAIN results' : results'[i][1] = b
    OBVIOUS
  <2>2. CASE b = c
    <3>1. n + 1 \in DOMAIN results'
      BY <1>1, <1>2
    <3> QED BY <1>2, <2>2, <3>1
  <2>3. CASE b # c
    <3>1. PICK i \in DOMAIN results : results[i][1] = b
      BY <1>3, <2>1, <2>3 DEF IInv, Told
    <3>2. i \in DOMAIN results' /\ results'[i] = results[i]
      BY <1>1, <1>2
    <3> QED BY <3>1, <3>2
  <2> QED BY <2>2, <2>3
<1>10. Told'
  BY <1>7, <1>8, <1>9 DEF Told
<1>11. Len(results') <= Len(Codecs)
  BY <1>2, <1>8, ResultsFit
<1>12. ~Returned /\ ~Returned'
  BY DEF IInv, Concluded, Returned
<1> QED BY <1>2, <1>10, <1>11, <1>12 DEF LadderInOrder, MandatoryEncoded

-----------------------------------------------------------------------------
(* The invariant holds initially, and every step keeps it.                 *)

(* The sizes are positive.                                                 *)
LEMMA Bounds == /\ Duration \in Nat \ {0} /\ Reports \in Nat \ {0}
                /\ PipeSize \in Nat \ {0} /\ LineSize \in Nat \ {0}
BY SizeAssumption

LEMMA InitInv == Init => IInv
<1> SUFFICES ASSUME Init PROVE IInv
  OBVIOUS
<1>1. \A c \in Codec : pipe[c] = <<>> /\ Len(pipe[c]) = 0
  BY DEF Init
<1>2. TypeOK
  <2>1. pipe \in [Codec -> Seq(BOOLEAN)] /\ \A c \in Codec : Len(pipe[c]) <= PipeSize
    BY <1>1, SizeAssumption DEF Init
  <2>2. results \in Seq(Codec \X BOOLEAN) /\ Len(results) <= Len(Codecs)
    BY LadderAssumption DEF Init
  <2>3. /\ read \in [Codec -> 0 .. Reports] /\ line \in [Codec -> 0 .. LineSize]
        /\ hold \in [Codec -> {None} \cup 15 .. 64]
        /\ codecProgress \in [Codec -> 0 .. Duration]
    BY Bounds DEF Init
  <2>4. /\ stage \in [Codec -> {"start", "wait", "parsing", "done"}]
        /\ proc \in [Codec -> {"none", "running", "ok", "failed"}]
        /\ parser \in [Codec -> {"none", "scan", "ended", "stopped"}]
        /\ progress \in 15 .. 65
    BY DEF Init
  <2> QED BY <2>1, <2>2, <2>3, <2>4 DEF Init, TypeOK
<1>3. \A c \in Codec : Stages(c)
  BY <1>1, SizeAssumption DEF Init, Stages
<1>4. Told
  BY DEF Init, Told
<1>5. ~Returned /\ Concluded
  BY DEF Init, Concluded, Returned
<1> QED BY <1>2, <1>3, <1>4, <1>5 DEF IInv, LadderInOrder, MandatoryEncoded

LEMMA FfmpegKeeps ==
    ASSUME IInv, NEW c \in Codec,
           FfmpegReports(c) \/ FfmpegExits(c) \/ FfmpegKilled(c)
    PROVE  IInv'
<1> USE DEF encoders, parsers
<1>1. UNCHANGED <<height, results, outcome, stage, parser, read, line, hold, codecProgress, timed, ctxDone, progress>>
  BY DEF FfmpegReports, FfmpegExits, FfmpegKilled
<1>2. CASE FfmpegReports(c)
  <2>1. proc' = proc /\ read[c] + Len(pipe[c]) < Reports
    BY <1>2 DEF FfmpegReports
  <2>2. PICK end \in BOOLEAN : pipe' = [pipe EXCEPT ![c] = Append(@, end)]
    BY <1>2 DEF FfmpegReports
  <2>3. /\ pipe' \in [Codec -> Seq(BOOLEAN)]
        /\ \A b \in Codec : IF b = c THEN Len(pipe'[b]) = Len(pipe[b]) + 1 ELSE pipe'[b] = pipe[b]
    BY <2>2 DEF IInv, TypeOK
  <2>4. TypeOK'
    <3>1. ASSUME NEW b \in Codec PROVE Len(pipe'[b]) <= PipeSize
      <4>1. Len(pipe[b]) \in Nat /\ Len(pipe[b]) <= PipeSize /\ Len(pipe[c]) < PipeSize
        BY <1>2 DEF IInv, TypeOK, FfmpegReports
      <4> QED BY <2>3, <4>1, Bounds
    <3> QED BY <1>1, <2>1, <2>3, <3>1 DEF IInv, TypeOK
  <2>5. ASSUME NEW b \in Codec PROVE Stages(b)'
    <3>1. Len(pipe[b]) \in Nat /\ read[b] \in Nat
      BY DEF IInv, TypeOK
    <3>2. read'[b] + Len(pipe'[b]) <= Reports
      BY <1>1, <2>1, <2>3, <3>1, Bounds DEF IInv, Stages
    <3> QED BY <1>1, <2>1, <3>2 DEF IInv, Stages
  <2>6. Told' /\ LadderInOrder' /\ MandatoryEncoded'
    BY <1>1, <2>1, KeepsVerdict
  <2>7. Concluded'
    BY <1>1 DEF IInv, Concluded, Returned
  <2> QED BY <2>4, <2>5, <2>6, <2>7 DEF IInv
<1>3. CASE FfmpegExits(c) \/ FfmpegKilled(c)
  <2>1. PICK end \in {"ok", "failed"} : proc' = [proc EXCEPT ![c] = end]
    BY <1>3 DEF FfmpegExits, FfmpegKilled
  <2>2. pipe' = pipe /\ proc[c] = "running"
    BY <1>3 DEF FfmpegExits, FfmpegKilled
  <2>3. TypeOK'
    BY <1>1, <2>1, <2>2 DEF IInv, TypeOK
  <2>4. stage[c] = "wait"
    BY <2>2 DEF IInv, Stages, TypeOK
  <2>5. ASSUME NEW b \in Codec PROVE Stages(b)'
    BY <1>1, <2>1, <2>2, <2>4 DEF IInv, Stages, TypeOK
  <2>6. Told' /\ LadderInOrder' /\ MandatoryEncoded'
    <3>1. \A b \in Codec : stage[b] = "done" => proc'[b] = proc[b]
      BY <2>1, <2>4 DEF IInv, TypeOK
    <3> QED BY <1>1, <3>1, KeepsVerdict
  <2>7. Concluded'
    BY <1>1 DEF IInv, Concluded, Returned
  <2> QED BY <2>3, <2>5, <2>6, <2>7 DEF IInv
<1> QED BY <1>2, <1>3

LEMMA EncoderKeeps ==
    ASSUME IInv, NEW c \in Codec, EncoderNext(c)
    PROVE  IInv'
<1> USE DEF encoders, parsers
<1>1. UNCHANGED <<height, timed, ctxDone, pipe, read, line, hold, codecProgress, progress, outcome>>
  BY DEF EncoderNext, CannotEncode, NothingToEncode, StartEncode, WaitReturns, Encoded
<1>2. Concluded'
  <2>1. stage[c] # "done"
    BY DEF EncoderNext, CannotEncode, NothingToEncode, StartEncode, WaitReturns, Encoded
  <2> QED BY <1>1, <2>1 DEF IInv, Concluded, Returned
<1>3. ASSUME NEW failed \in BOOLEAN, Result(c, failed), stage[c] \in {"start", "parsing"},
             parser[c] # "scan", UNCHANGED <<proc, parser>>,
             IF failed THEN proc[c] # "ok" ELSE proc[c] = "ok" \/ Rungs(c) = {}
      PROVE  IInv'
  <2>1. /\ results' \in Seq(Codec \X BOOLEAN) /\ Len(results') <= Len(Codecs)
        /\ Told' /\ LadderInOrder' /\ MandatoryEncoded'
    BY <1>1, <1>3, Recorded
  <2>2. stage' = [stage EXCEPT ![c] = "done"]
    BY <1>3 DEF Result
  <2>3. TypeOK'
    BY <1>1, <1>3, <2>1, <2>2 DEF IInv, TypeOK
  <2>4. ASSUME NEW b \in Codec PROVE Stages(b)'
    BY <1>1, <1>3, <2>2 DEF IInv, Stages, TypeOK
  <2> QED BY <1>2, <2>1, <2>3, <2>4 DEF IInv
<1>4. CASE CannotEncode(c)
  <2>1. stage[c] = "start" /\ proc[c] = "none" /\ parser[c] = "none"
    BY <1>4 DEF CannotEncode, IInv, Stages
  <2>2. Result(c, TRUE) /\ UNCHANGED <<proc, parser>>
    BY <1>4 DEF CannotEncode
  <2> QED BY <1>3, <2>1, <2>2
<1>5. CASE NothingToEncode(c)
  <2>1. stage[c] = "start" /\ parser[c] = "none"
    BY <1>5 DEF NothingToEncode, IInv, Stages
  <2>2. Result(c, FALSE) /\ Rungs(c) = {} /\ UNCHANGED <<proc, parser>>
    BY <1>5 DEF NothingToEncode
  <2> QED BY <1>3, <2>1, <2>2
<1>6. CASE Encoded(c)
  <2>1. stage[c] = "parsing" /\ proc[c] \in {"ok", "failed"}
    BY <1>6 DEF Encoded, IInv, Stages
  <2>2. Result(c, proc[c] = "failed") /\ UNCHANGED <<proc, parser>> /\ parser[c] # "scan"
    BY <1>6 DEF Encoded, ParserDone
  <2>3. CASE proc[c] = "failed"
    <3>1. Result(c, TRUE)
      BY <2>2, <2>3
    <3> QED BY <1>3, <2>1, <2>2, <2>3, <3>1
  <2>4. CASE proc[c] = "ok"
    <3>1. Result(c, FALSE)
      BY <2>2, <2>4
    <3> QED BY <1>3, <2>1, <2>2, <2>4, <3>1
  <2> QED BY <2>1, <2>3, <2>4
<1>7. CASE StartEncode(c)
  <2>1. /\ stage[c] = "start" /\ UNCHANGED results
        /\ stage' = [stage EXCEPT ![c] = "wait"]
        /\ proc' = [proc EXCEPT ![c] = "running"]
        /\ parser' = [parser EXCEPT ![c] = IF timed THEN "scan" ELSE "ended"]
    BY <1>7 DEF StartEncode
  <2>2. TypeOK'
    BY <1>1, <2>1 DEF IInv, TypeOK
  <2>3. ASSUME NEW b \in Codec PROVE Stages(b)'
    BY <1>1, <2>1 DEF IInv, Stages, TypeOK
  <2>4. Told' /\ LadderInOrder' /\ MandatoryEncoded'
    <3>1. \A b \in Codec : stage[b] = "done" => stage'[b] = "done" /\ proc'[b] = proc[b]
      BY <2>1 DEF IInv, TypeOK
    <3>2. \A b \in Codec : stage'[b] = "done" => stage[b] = "done"
      BY <2>1 DEF IInv, TypeOK
    <3> QED BY <1>1, <2>1, <3>1, <3>2, KeepsVerdict
  <2> QED BY <1>2, <2>2, <2>3, <2>4 DEF IInv
<1>8. CASE WaitReturns(c)
  <2>1. /\ stage[c] = "wait" /\ proc[c] # "running" /\ UNCHANGED <<results, proc, parser>>
        /\ stage' = [stage EXCEPT ![c] = "parsing"]
    BY <1>8 DEF WaitReturns
  <2>2. TypeOK'
    BY <1>1, <2>1 DEF IInv, TypeOK
  <2>3. ASSUME NEW b \in Codec PROVE Stages(b)'
    BY <1>1, <2>1 DEF IInv, Stages, TypeOK
  <2>4. Told' /\ LadderInOrder' /\ MandatoryEncoded'
    <3>1. \A b \in Codec : stage[b] = "done" => stage'[b] = "done"
      BY <2>1 DEF IInv, TypeOK
    <3>2. \A b \in Codec : stage'[b] = "done" => stage[b] = "done"
      BY <2>1 DEF IInv, TypeOK
    <3> QED BY <1>1, <2>1, <3>1, <3>2, KeepsVerdict
  <2> QED BY <1>2, <2>2, <2>3, <2>4 DEF IInv
<1> QED BY <1>4, <1>5, <1>6, <1>7, <1>8 DEF EncoderNext
(* A line that is parsed leaves the parser as it should be.                *)
LEMMA LineParsed ==
    ASSUME TypeOK, NEW c \in Codec, NEW first \in Nat, ParsesLine(c, first)
    PROVE  /\ line' = [line EXCEPT ![c] = 0]
           /\ hold' \in [Codec -> {None} \cup 15 .. 64]
           /\ \A b \in Codec \ {c} : hold'[b] = hold[b]
           /\ codecProgress' \in [Codec -> 0 .. Duration]
<1> DEFINE f == [codecProgress EXCEPT ![c] = MinOf(first, Duration)]
<1>1. f \in [Codec -> 0 .. Duration]
  <2>1. MinOf(first, Duration) \in 0 .. Duration
    BY Bounds DEF MinOf
  <2> QED BY <2>1 DEF TypeOK
<1>2. Percent(f) \in 15 .. 64
  BY <1>1, PercentRange
<1>3. CASE codecProgress' = f /\ hold' = [hold EXCEPT ![c] = Percent(f)]
  <2> HIDE DEF f
  <2> QED BY <1>1, <1>2, <1>3 DEF ParsesLine, TypeOK
<1>4. CASE UNCHANGED <<codecProgress, hold>>
  BY <1>4 DEF ParsesLine, TypeOK
<1> QED BY <1>3, <1>4 DEF ParsesLine

LEMMA ParserKeeps ==
    ASSUME IInv, NEW c \in Codec, ParserNext(c)
    PROVE  IInv'
<1> USE DEF encoders, parsers
<1>1. UNCHANGED <<height, timed, ctxDone, stage, proc, results, outcome>>
  BY DEF ParserNext, Scan, ScanTooLong, ScanEnd, SetProgress
<1>2. Told' /\ LadderInOrder' /\ MandatoryEncoded'
  BY <1>1, KeepsVerdict
<1>3. parser[c] = "scan"
  BY DEF ParserNext, Scan, ScanTooLong, ScanEnd, SetProgress, Idle, IInv, Stages
<1>4. Concluded'
  <2>1. SUFFICES ASSUME ~Returned PROVE progress' < 65
    BY <1>1 DEF IInv, Concluded, Returned
  <2>2. progress < 65
    BY <2>1 DEF IInv, Concluded
  <2>3. progress' = progress \/ (hold[c] # None /\ progress' = hold[c])
    BY DEF ParserNext, Scan, ScanTooLong, ScanEnd, SetProgress
  <2>4. progress \in 15 .. 65 /\ hold[c] \in {None} \cup 15 .. 64
    BY DEF IInv, TypeOK
  <2> QED BY <2>2, <2>3, <2>4
<1>5. /\ Len(pipe[c]) \in Nat /\ read[c] \in Nat /\ line[c] \in Nat
      /\ line[c] <= read[c] /\ read[c] + Len(pipe[c]) <= Reports
  BY Bounds DEF IInv, TypeOK, Stages
<1>6. CASE Scan(c)
  <2>1. /\ parser[c] = "scan" /\ pipe[c] # <<>> /\ line[c] < LineSize
        /\ pipe' = [pipe EXCEPT ![c] = Tail(@)]
        /\ read' = [read EXCEPT ![c] = @ + 1]
        /\ UNCHANGED <<parser, progress>>
    BY <1>6 DEF Scan, Idle
  <2>2. /\ pipe' \in [Codec -> Seq(BOOLEAN)]
        /\ \A b \in Codec : IF b = c THEN Len(pipe'[b]) = Len(pipe[b]) - 1 ELSE pipe'[b] = pipe[b]
    BY <2>1 DEF IInv, TypeOK
  <2>3. /\ read' \in [Codec -> 0 .. Reports]
        /\ \A b \in Codec : read'[b] = IF b = c THEN read[b] + 1 ELSE read[b]
    <3>1. Len(pipe[c]) > 0
      BY <2>1 DEF IInv, TypeOK
    <3>2. read[c] + 1 \in 0 .. Reports
      BY <1>5, <3>1, Bounds
    <3> QED BY <2>1, <3>2 DEF IInv, TypeOK
  <2>4. /\ line' \in [Codec -> 0 .. LineSize]
        /\ \A b \in Codec : line'[b] <= read'[b]
        /\ hold' \in [Codec -> {None} \cup 15 .. 64]
        /\ \A b \in Codec \ {c} : hold'[b] = hold[b]
        /\ codecProgress' \in [Codec -> 0 .. Duration]
    <3>1. ASSUME NEW b \in Codec
          PROVE  line[b] \in Nat /\ read[b] \in Nat /\ line[b] <= read[b]
      BY DEF IInv, TypeOK, Stages
    <3>2. CASE Head(pipe[c])
      <4>1. ParsesLine(c, read[c] + 1 - line[c])
        BY <1>6, <3>2, Zenon DEF Scan
      <4>2. read[c] + 1 - line[c] \in Nat
        BY <1>5
      <4>3. /\ line' = [line EXCEPT ![c] = 0]
            /\ hold' \in [Codec -> {None} \cup 15 .. 64]
            /\ \A b \in Codec \ {c} : hold'[b] = hold[b]
            /\ codecProgress' \in [Codec -> 0 .. Duration]
        BY <4>1, <4>2, LineParsed DEF IInv
      <4>4. line' \in [Codec -> 0 .. LineSize]
        BY <4>3, Bounds DEF IInv, TypeOK
      <4>5. \A b \in Codec : line'[b] <= read'[b]
        BY <2>3, <3>1, <4>3 DEF IInv, TypeOK
      <4> QED BY <4>3, <4>4, <4>5
    <3>3. CASE ~Head(pipe[c])
      <4>1. line' = [line EXCEPT ![c] = @ + 1] /\ UNCHANGED <<codecProgress, hold>>
        BY <1>6, <3>3 DEF Scan
      <4>2. line[c] + 1 \in 0 .. LineSize
        BY <1>5, <2>1, Bounds
      <4>3. line' \in [Codec -> 0 .. LineSize]
        BY <4>1, <4>2 DEF IInv, TypeOK
      <4>4. \A b \in Codec : line'[b] <= read'[b]
        BY <2>3, <3>1, <4>1 DEF IInv, TypeOK
      <4> QED BY <4>1, <4>3, <4>4 DEF IInv, TypeOK
    <3> QED BY <3>2, <3>3
  <2>5. TypeOK'
    <3>1. ASSUME NEW b \in Codec PROVE Len(pipe'[b]) <= PipeSize
      <4>1. Len(pipe[b]) \in Nat /\ Len(pipe[b]) <= PipeSize
        BY DEF IInv, TypeOK
      <4> QED BY <2>2, <4>1, Bounds
    <3> QED BY <1>1, <2>1, <2>2, <2>3, <2>4, <3>1 DEF IInv, TypeOK
  <2>6. ASSUME NEW b \in Codec PROVE Stages(b)'
    <3>1. Len(pipe[b]) \in Nat /\ read[b] \in Nat /\ read[b] + Len(pipe[b]) <= Reports
      BY DEF IInv, TypeOK, Stages
    <3>2. read'[b] + Len(pipe'[b]) <= Reports
      <4>1. CASE b = c
        BY <2>2, <2>3, <3>1, <4>1, Bounds
      <4>2. CASE b # c
        BY <2>2, <2>3, <3>1, <4>2
      <4> QED BY <4>1, <4>2
    <3> QED BY <1>1, <2>1, <2>4, <3>2 DEF IInv, Stages
  <2> QED BY <1>2, <1>4, <2>5, <2>6 DEF IInv
<1>7. CASE ScanTooLong(c)
  <2>1. /\ parser[c] = "scan" /\ hold[c] = None
        /\ parser' = [parser EXCEPT ![c] = "stopped"]
        /\ UNCHANGED <<pipe, read, line, hold, codecProgress, progress>>
    BY <1>7 DEF ScanTooLong, Idle
  <2>2. TypeOK'
    BY <1>1, <2>1 DEF IInv, TypeOK
  <2>3. ASSUME NEW b \in Codec PROVE Stages(b)'
    BY <1>1, <2>1 DEF IInv, Stages, TypeOK
  <2> QED BY <1>2, <1>4, <2>2, <2>3 DEF IInv
<1>8. CASE ScanEnd(c)
  <2>1. parser[c] = "scan" /\ hold[c] = None /\ UNCHANGED <<pipe, read, progress>>
    BY <1>8 DEF ScanEnd, Idle
  <2>2. CASE line[c] > 0
    <3>1. /\ ParsesLine(c, read[c] + 1 - line[c]) /\ UNCHANGED parser
          /\ read[c] + 1 - line[c] \in Nat
      BY <1>5, <1>8, <2>2 DEF ScanEnd
    <3>2. /\ line' = [line EXCEPT ![c] = 0]
          /\ hold' \in [Codec -> {None} \cup 15 .. 64]
          /\ \A b \in Codec \ {c} : hold'[b] = hold[b]
          /\ codecProgress' \in [Codec -> 0 .. Duration]
      BY <3>1, LineParsed DEF IInv
    <3>3. line' \in [Codec -> 0 .. LineSize]
      BY <3>2, Bounds DEF IInv, TypeOK
    <3>4. TypeOK'
      BY <1>1, <2>1, <3>1, <3>2, <3>3 DEF IInv, TypeOK
    <3>5. ASSUME NEW b \in Codec PROVE Stages(b)'
      <4>1. line'[b] <= read'[b]
        BY <2>1, <3>2 DEF IInv, Stages, TypeOK
      <4> QED BY <1>1, <2>1, <3>1, <3>2, <4>1 DEF IInv, Stages
    <3> QED BY <1>2, <1>4, <3>4, <3>5 DEF IInv
  <2>3. CASE ~(line[c] > 0)
    <3>1. parser' = [parser EXCEPT ![c] = "ended"] /\ UNCHANGED <<line, hold, codecProgress>>
      BY <1>8, <2>3 DEF ScanEnd
    <3>2. TypeOK'
      BY <1>1, <2>1, <3>1 DEF IInv, TypeOK
    <3>3. ASSUME NEW b \in Codec PROVE Stages(b)'
      BY <1>1, <2>1, <3>1 DEF IInv, Stages, TypeOK
    <3> QED BY <1>2, <1>4, <3>2, <3>3 DEF IInv
  <2> QED BY <2>2, <2>3
<1>9. CASE SetProgress(c)
  <2>1. /\ hold[c] # None /\ progress' \in {progress, hold[c]}
        /\ hold' = [hold EXCEPT ![c] = None]
        /\ UNCHANGED <<pipe, parser, read, line, codecProgress>>
    BY <1>9 DEF SetProgress
  <2>2. TypeOK'
    <3>1. progress' \in 15 .. 65
      <4>1. progress \in 15 .. 65 /\ hold[c] \in {None} \cup 15 .. 64
        BY DEF IInv, TypeOK
      <4> QED BY <2>1, <4>1
    <3>2. hold' \in [Codec -> {None} \cup 15 .. 64]
      BY <2>1 DEF IInv, TypeOK
    <3> QED BY <1>1, <2>1, <3>1, <3>2 DEF IInv, TypeOK
  <2>3. ASSUME NEW b \in Codec PROVE Stages(b)'
    BY <1>1, <2>1 DEF IInv, Stages, TypeOK
  <2> QED BY <1>2, <1>4, <2>2, <2>3 DEF IInv
<1> QED BY <1>6, <1>7, <1>8, <1>9 DEF ParserNext
(* What TranscodeHLS returns.                                              *)
LEMMA ReturnKeeps ==
    ASSUME IInv, Return
    PROVE  IInv'
<1> USE DEF encoders, parsers
<1> DEFINE fatal == {i \in DOMAIN results : Fatal(results[i])}
           made == {r \in ToSet(results) : ~r[2]}
           V == UNION {Rungs(r[1]) : r \in made}
<1>1. /\ ~Returned /\ \A c \in Codec : stage[c] = "done"
      /\ UNCHANGED <<height, timed, ctxDone, stage, proc, pipe, parser, read, line, hold,
                     codecProgress, progress, results>>
  BY DEF Return, Returned
<1>2. outcome' = IF fatal # {} THEN [err |-> results[Min(fatal)][1], variants |-> <<>>]
                 ELSE [err |-> None, variants |-> sortVariants(V)]
  BY DEF Return
<1>3. TypeOK' /\ \A c \in Codec : Stages(c)'
  BY <1>1 DEF IInv, TypeOK, Stages
<1>4. Told'
  BY <1>1 DEF IInv, Told, Truthful, Rungs, Applicable
<1>5. Concluded'
  BY <1>1 DEF IInv, Concluded
<1>6. ASSUME NEW i \in DOMAIN results
      PROVE  /\ results[i] \in Codec \X BOOLEAN /\ Truthful(results[i])
             /\ results[i] \in ToSet(results)
  <2>1. results[i] \in Codec \X BOOLEAN
    BY DEF IInv, TypeOK
  <2> QED BY <2>1 DEF IInv, Told, ToSet
<1>7. ASSUME NEW c \in Codec PROVE \E i \in DOMAIN results : results[i][1] = c
  BY <1>1 DEF IInv, Told
<1>8. LadderInOrder' /\ MandatoryEncoded'
  <2>1. CASE fatal # {}
    <3>1. Min(fatal) \in fatal
      <4>1. fatal \subseteq Nat
        BY DEF IInv, TypeOK
      <4> HIDE DEF fatal
      <4>2. PICK x \in fatal : \A y \in fatal : x <= y
        BY <2>1, <4>1, LeastElement
      <4> QED BY <4>2 DEF Min
    <3> DEFINE r == results[Min(fatal)]
    <3>2. r[1] \in Codec \ Optional /\ r[2] /\ proc[r[1]] # "ok"
      <4>1. Fatal(r) /\ r \in Codec \X BOOLEAN /\ Truthful(r)
        BY <1>6, <3>1
      <4> HIDE DEF r
      <4> QED BY <4>1 DEF Fatal, Truthful
    <3> HIDE DEF r
    <3>3. outcome' = [err |-> r[1], variants |-> <<>>]
      BY <1>2, <2>1 DEF r
    <3>4. outcome'.err = r[1] /\ r[1] # None
      BY <3>2, <3>3, NoneAssumption
    <3> QED BY <1>1, <3>2, <3>4 DEF LadderInOrder, MandatoryEncoded
  <2>2. CASE fatal = {}
    <3>1. V \in SUBSET Variant
      <4>1. ASSUME NEW r \in made PROVE Rungs(r[1]) \subseteq Variant
        <5>1. r[1] \in Codec
          <6>1. r \in Codec \X BOOLEAN
            BY <1>6 DEF ToSet
          <6> QED BY <6>1
        <5> QED BY <5>1 DEF Rungs, Variant
      <4> QED BY <4>1
    <3>2. V = UNION {Rungs(c) : c \in {c \in Codec : proc[c] = "ok"}}
      <4>1. ASSUME NEW r \in made PROVE r[1] \in Codec /\ (proc[r[1]] = "ok" \/ Rungs(r[1]) = {})
        <5>1. r \in Codec \X BOOLEAN /\ Truthful(r)
          BY <1>6 DEF ToSet
        <5> QED BY <5>1 DEF Truthful
      <4>2. ASSUME NEW c \in Codec, proc[c] = "ok" PROVE \E r \in made : r[1] = c
        <5>1. PICK i \in DOMAIN results : results[i][1] = c
          BY <1>7
        <5>2. results[i] \in made
          BY <1>6, <4>2, <5>1 DEF Truthful
        <5> QED BY <5>1, <5>2
      <4> HIDE DEF made
      <4> QED BY <4>1, <4>2
    <3> DEFINE s == sortVariants(V)
    <3>3. outcome'.err = None /\ outcome'.variants = s
      BY <1>2, <2>2
    <3>4. ToSet(s) = V /\ \A i, j \in DOMAIN s : i < j => Less(s[i], s[j])
      <4> HIDE DEF V
      <4> QED BY <3>1, Sorted
    <3>5. ASSUME NEW i \in DOMAIN s, NEW j \in DOMAIN s, i < j
          PROVE  IF s[i][1] = s[j][1]
                 THEN Position(Qualities, s[i][2]) < Position(Qualities, s[j][2])
                 ELSE Position(Codecs, s[i][1]) < Position(Codecs, s[j][1])
      <4>1. Less(s[i], s[j])
        BY <3>4, <3>5
      <4>2. s[i][1] \in ToSet(Codecs)
        <5>1. s[i] \in Variant
          BY <3>1, <3>4 DEF ToSet
        <5> HIDE DEF s
        <5> QED BY <5>1 DEF Variant, Codec
      <4>3. Position(Codecs, s[i][1]) \in Int
        BY <4>2, LadderAssumption, PositionOf
      <4> HIDE DEF s
      <4> QED BY <4>1, <4>3 DEF Less
    <3>6. ASSUME NEW c \in Codec \ Optional, NEW q \in ToSet(Qualities), Applicable(q)
          PROVE  <<c, q>> \in V
      <4>1. PICK i \in DOMAIN results : results[i][1] = c
        BY <1>7
      <4>2. results[i] \in made
        BY <1>6, <2>2, <3>6, <4>1 DEF Fatal
      <4>3. <<c, q>> \in Rungs(c)
        BY <3>6 DEF Rungs
      <4> QED BY <4>1, <4>2, <4>3
    <3> HIDE DEF s, V
    <3>7. LadderInOrder'
      BY <1>1, <3>2, <3>3, <3>4, <3>5 DEF LadderInOrder, Rungs, Applicable
    <3>8. MandatoryEncoded'
      BY <1>1, <3>3, <3>4, <3>6 DEF MandatoryEncoded, Applicable
    <3> QED BY <3>7, <3>8
  <2> QED BY <2>1, <2>2
<1> QED BY <1>3, <1>4, <1>5, <1>8 DEF IInv

LEMMA OthersKeep ==
    ASSUME IInv, SetEncoded \/ Cancel \/ UNCHANGED vars
    PROVE  IInv'
<1> USE DEF encoders, parsers
<1>1. UNCHANGED <<height, timed, stage, proc, pipe, parser, read, line, hold, codecProgress,
                  results, outcome>>
  BY DEF SetEncoded, Cancel, vars
<1>2. /\ ctxDone' \in BOOLEAN
      /\ progress' = progress \/ (Returned /\ progress' = 65)
  BY DEF SetEncoded, Cancel, vars, Returned, IInv, TypeOK
<1>3. TypeOK'
  <2>1. progress' \in 15 .. 65
    <3>1. progress \in 15 .. 65
      BY DEF IInv, TypeOK
    <3> QED BY <1>2, <3>1
  <2> QED BY <1>1, <1>2, <2>1 DEF IInv, TypeOK
<1>4. \A c \in Codec : Stages(c)'
  BY <1>1 DEF IInv, Stages
<1>5. Told' /\ LadderInOrder' /\ MandatoryEncoded'
  BY <1>1, KeepsVerdict
<1>6. Concluded'
  BY <1>1, <1>2 DEF IInv, Concluded, Returned
<1> QED BY <1>3, <1>4, <1>5, <1>6 DEF IInv

LEMMA NextInv == IInv /\ [Next]_vars => IInv'
<1> SUFFICES ASSUME IInv, [Next]_vars PROVE IInv'
  OBVIOUS
<1>1. CASE \E c \in Codec : \/ FfmpegReports(c) \/ FfmpegExits(c) \/ FfmpegKilled(c)
                            \/ EncoderNext(c) \/ ParserNext(c)
  BY <1>1, FfmpegKeeps, EncoderKeeps, ParserKeeps
<1>2. CASE Return
  BY <1>2, ReturnKeeps
<1>3. CASE SetEncoded \/ Cancel \/ UNCHANGED vars
  BY <1>3, OthersKeep
<1> QED BY <1>1, <1>2, <1>3 DEF Next

(* The invariant holds in every reachable state.                           *)
THEOREM Invariant == Spec => []IInv
BY InitInv, NextInv, PTL DEF Spec

(* Types: the pipes hold no more than their size, the counters stay within *)
(* their bounds, a percentage is one, and the channel of the results has   *)
(* room for all.                                                           *)
THEOREM TypeCorrect == Spec => []TypeOK
<1>1. IInv => TypeOK
  BY DEF IInv
<1> QED BY Invariant, <1>1, PTL

(* The ladder TranscodeHLS returns: the qualities that fit, of exactly the *)
(* codecs whose ffmpeg ended well, in the configured order, whatever the   *)
(* order in which they ended.                                              *)
THEOREM LadderOfEncoded == Spec => []LadderInOrder
<1>1. IInv => LadderInOrder
  BY DEF IInv
<1> QED BY Invariant, <1>1, PTL

(* No codec that is not optional is left out of what is returned without   *)
(* an error, and an error names one that was not encoded.                  *)
THEOREM MandatoryCodecs == Spec => []MandatoryEncoded
<1>1. IInv => MandatoryEncoded
  BY DEF IInv
<1> QED BY Invariant, <1>1, PTL

(* No goroutine of the encoding records its percentage once TranscodeHLS   *)
(* has returned: the parser of a codec has ended before its result is      *)
(* sent.                                                                   *)
THEOREM ProgressFinal == Spec => ProgressSettles
<1>1. ASSUME IInv, [Next]_vars
      PROVE  IF Returned THEN progress' \in {progress, 65} ELSE progress' < 65
  <2>1. IInv'
    BY <1>1, NextInv
  <2>2. CASE Returned
    <3>1. ASSUME NEW c \in Codec PROVE hold[c] = None
      BY <1>1, <2>2 DEF IInv, Concluded, Stages
    <3>2. UNCHANGED progress \/ SetEncoded \/ \E c \in Codec : SetProgress(c)
      BY <1>1 DEF Next, vars, FfmpegReports, FfmpegExits, FfmpegKilled, EncoderNext,
                  CannotEncode, NothingToEncode, StartEncode, WaitReturns, Encoded,
                  ParserNext, Scan, ScanTooLong, ScanEnd, Return, Cancel
    <3>3. UNCHANGED progress \/ SetEncoded
      BY <3>1, <3>2 DEF SetProgress
    <3> QED BY <2>2, <3>3 DEF SetEncoded
  <2>3. CASE ~Returned /\ ~Returned'
    BY <2>1, <2>3 DEF IInv, Concluded
  <2>4. CASE ~Returned /\ Returned'
    <3>1. outcome' # outcome
      BY <2>4 DEF Returned
    <3>2. UNCHANGED progress
      BY <1>1, <3>1 DEF Next, vars, FfmpegReports, FfmpegExits, FfmpegKilled, EncoderNext,
                  CannotEncode, NothingToEncode, StartEncode, WaitReturns, Encoded,
                  ParserNext, Scan, ScanTooLong, ScanEnd, SetProgress, Return, Cancel, SetEncoded
    <3> QED BY <1>1, <2>4, <3>2 DEF IInv, Concluded
  <2> QED BY <2>2, <2>3, <2>4
<1> QED BY Invariant, <1>1, PTL DEF Spec, ProgressSettles
=============================================================================
