-------------------------- MODULE PowerReadingsProofs --------------------------
(***************************************************************************)
(* The fit finds what the station leaves out, whatever that is and at      *)
(* whatever rates the samples were taken, and is a least-squares fit of    *)
(* samples that contradict each other.                                     *)
(***************************************************************************)
EXTENDS PowerReadings, Recursion, TLAPS

-------------------------------------------------------------------------------
(* Sums *)

(* A sum is what the rounds of its loop add up to.                         *)
LEMMA SumRounds ==
  ASSUME NEW n \in Nat, n = Len(points), NEW of \in [1 .. n -> Int]
  PROVE  \E sum \in [0 .. n -> Int] :
           /\ sum[0] = 0 /\ \A i \in 1 .. n : sum[i] = sum[i - 1] + of[i]
           /\ Sum(of) = sum[n]
<1> DEFINE G == [i \in 1 .. n |-> [x \in Int |-> x + of[i]]]
           Defines(f) == f = [i \in 0 .. n |-> IF i = 0 THEN 0 ELSE f[i - 1] + of[i]]
           sum == CHOOSE f : Defines(f)
<1>1. G \in [1 .. n -> [Int -> Int]]
  OBVIOUS
<1>2. PICK f \in [0 .. n -> Int] : Iterates(f, n, 0, G)
  <2> DEFINE S == Int
  <2>1. 0 \in S /\ G \in [1 .. n -> [S -> S]]
    BY <1>1
  <2>2. \E f \in [0 .. n -> S] : Iterates(f, n, 0, G)
    <3> HIDE DEF G, S
    <3> QED BY <2>1, Recursion
  <2> QED BY <2>2
<1>3. Defines(f)
  <2>1. ASSUME NEW i \in 0 .. n PROVE f[i] = IF i = 0 THEN 0 ELSE f[i - 1] + of[i]
    <3>1. CASE i = 0
      BY <1>2, <3>1, IteratesSteps
    <3>2. CASE i \in 1 .. n
      <4>1. f[i] = G[i][f[i - 1]]
        <5> HIDE DEF G
        <5> QED BY <1>2, <3>2, IteratesSteps
      <4>2. f[i - 1] \in Int
        BY <3>2
      <4> QED BY <3>2, <4>1, <4>2
    <3> QED BY <3>1, <3>2
  <2> QED BY <2>1
<1>4. Defines(sum)
  <2> HIDE DEF Defines
  <2> QED BY <1>3
<1>5. Sum(of) = sum[n]
  BY DEF Sum
<1> HIDE DEF sum
<1>6. sum[0] = 0
  <2> 0 \in 0 .. n
    OBVIOUS
  <2> QED BY <1>4
<1>7. ASSUME NEW i \in 1 .. n PROVE sum[i] = sum[i - 1] + of[i]
  <2> i \in 0 .. n /\ i # 0
    OBVIOUS
  <2> QED BY <1>4
<1>8. \A i \in 0 .. n : sum[i] \in Int
  <2> DEFINE P == [i \in 0 .. n |-> Int]
  <2>1. sum[0] \in P[0]
    BY <1>6
  <2>2. ASSUME NEW i \in 1 .. n, sum[i - 1] \in P[i - 1] PROVE sum[i] \in P[i]
    <3> i - 1 \in 0 .. n /\ i \in 0 .. n /\ of[i] \in Int
      OBVIOUS
    <3> QED BY <1>7, <2>2
  <2>3. \A i \in 0 .. n : sum[i] \in P[i]
    <3> HIDE DEF P
    <3> QED BY <2>1, <2>2, Along
  <2> QED BY <2>3
<1>9. sum \in [0 .. n -> Int]
  <2> DOMAIN sum = 0 .. n /\ sum = [i \in 0 .. n |-> sum[i]]
    BY <1>4
  <2> QED BY <1>8
<1> QED BY <1>5, <1>6, <1>7, <1>9

LEMMA SumInt ==
  ASSUME NEW of \in [1 .. Len(points) -> Int], Len(points) \in Nat
  PROVE  Sum(of) \in Int
<1>1. PICK sum \in [0 .. Len(points) -> Int] : Sum(of) = sum[Len(points)]
  BY SumRounds
<1>2. Len(points) \in 0 .. Len(points)
  OBVIOUS
<1> QED BY <1>1, <1>2

(* Sums are linear.                                                        *)
Series == [1 .. Len(points) -> Int]
Combines(f, a, g, b, h) == \A i \in 1 .. Len(points) : f[i] = a * g[i] + b * h[i]

LEMMA SumLinear ==
  ASSUME Len(points) \in Nat, NEW a \in Int, NEW b \in Int,
         NEW f \in Series, NEW g \in Series, NEW h \in Series, Combines(f, a, g, b, h)
  PROVE  Sum(f) = a * Sum(g) + b * Sum(h)
<1> DEFINE n == Len(points)
<1>0. /\ n \in Nat /\ n = Len(points) /\ f \in [1 .. n -> Int] /\ g \in [1 .. n -> Int]
      /\ h \in [1 .. n -> Int] /\ \A i \in 1 .. n : f[i] = a * g[i] + b * h[i]
  BY DEF Series, Combines
<1> HIDE DEF n
<1>1. PICK sf \in [0 .. n -> Int] :
        /\ sf[0] = 0 /\ \A i \in 1 .. n : sf[i] = sf[i - 1] + f[i]
        /\ Sum(f) = sf[n]
  BY <1>0, SumRounds
<1>2. PICK sg \in [0 .. n -> Int] :
        /\ sg[0] = 0 /\ \A i \in 1 .. n : sg[i] = sg[i - 1] + g[i]
        /\ Sum(g) = sg[n]
  BY <1>0, SumRounds
<1>3. PICK sh \in [0 .. n -> Int] :
        /\ sh[0] = 0 /\ \A i \in 1 .. n : sh[i] = sh[i - 1] + h[i]
        /\ Sum(h) = sh[n]
  BY <1>0, SumRounds
<1> DEFINE P == [i \in 0 .. n |-> {a * sg[i] + b * sh[i]}]
<1>4. sf[0] \in P[0]
  BY <1>0, <1>1, <1>2, <1>3
<1>5. ASSUME NEW i \in 1 .. n, sf[i - 1] \in P[i - 1] PROVE sf[i] \in P[i]
  <2>1. i - 1 \in 0 .. n /\ i \in 0 .. n
    BY <1>0
  <2>2. sf[i - 1] = a * sg[i - 1] + b * sh[i - 1]
    BY <1>5, <2>1
  <2>3. \A c, u, v \in Int : c * (u + v) = c * u + c * v
    OBVIOUS
  <2>4. \A u, v \in Int : u * v \in Int
    OBVIOUS
  <2>5. \A t, u, v, w \in Int : (t + u) + (v + w) = (t + v) + (u + w)
    OBVIOUS
  <2>6. sf[i] = a * sg[i] + b * sh[i]
    <3>1. sg[i - 1] \in Int /\ sh[i - 1] \in Int /\ g[i] \in Int /\ h[i] \in Int
      BY <1>0, <2>1
    <3>2. /\ sf[i] = sf[i - 1] + f[i] /\ sg[i] = sg[i - 1] + g[i] /\ sh[i] = sh[i - 1] + h[i]
          /\ f[i] = a * g[i] + b * h[i]
      BY <1>0, <1>1, <1>2, <1>3
    <3>3. a * (sg[i - 1] + g[i]) = a * sg[i - 1] + a * g[i]
      BY <2>3, <3>1
    <3>4. b * (sh[i - 1] + h[i]) = b * sh[i - 1] + b * h[i]
      BY <2>3, <3>1
    <3>5. /\ a * sg[i - 1] \in Int /\ b * sh[i - 1] \in Int
          /\ a * g[i] \in Int /\ b * h[i] \in Int
      BY <2>4, <3>1
    <3>6. sf[i] = (a * sg[i - 1] + b * sh[i - 1]) + (a * g[i] + b * h[i])
      BY <2>2, <3>2
    <3>7. a * sg[i] + b * sh[i] = (a * sg[i - 1] + a * g[i]) + (b * sh[i - 1] + b * h[i])
      BY <3>2, <3>3, <3>4
    <3> QED BY <2>5, <3>5, <3>6, <3>7
  <2> QED BY <2>1, <2>6
<1>6. \A i \in 0 .. n : sf[i] \in P[i]
  <2> HIDE DEF P
  <2> QED BY <1>0, <1>4, <1>5, Along
<1>7. n \in 0 .. n
  BY <1>0
<1> QED BY <1>1, <1>2, <1>3, <1>6, <1>7

(* A sum of ones is the number of samples.                                 *)
LEMMA SumOnes ==
  ASSUME NEW n \in Nat, n = Len(points), NEW f, f = [i \in 1 .. n |-> 1]
  PROVE  f \in [1 .. n -> Int] /\ Sum(f) = n
<1>0. f \in [1 .. n -> Int] /\ \A i \in 1 .. n : f[i] = 1
  OBVIOUS
<1>1. PICK sf \in [0 .. n -> Int] :
        /\ sf[0] = 0 /\ \A i \in 1 .. n : sf[i] = sf[i - 1] + f[i]
        /\ Sum(f) = sf[n]
  BY <1>0, SumRounds
<1> DEFINE P == [i \in 0 .. n |-> {i}]
<1>2. sf[0] \in P[0]
  BY <1>1
<1>3. ASSUME NEW i \in 1 .. n, sf[i - 1] \in P[i - 1] PROVE sf[i] \in P[i]
  BY <1>0, <1>1, <1>3
<1>4. \A i \in 0 .. n : sf[i] \in P[i]
  <2> HIDE DEF P
  <2> QED BY <1>2, <1>3, Along
<1>5. n \in 0 .. n
  OBVIOUS
<1> QED BY <1>0, <1>1, <1>4, <1>5

(* A sum of naturals is one, and not zero unless they all are.             *)
LEMMA SumPositive ==
  ASSUME NEW n \in Nat, n = Len(points), NEW f \in [1 .. n -> Int], \A i \in 1 .. n : f[i] >= 0
  PROVE  Sum(f) >= 0 /\ \A j \in 1 .. n : f[j] > 0 => Sum(f) > 0
<1>1. PICK sf \in [0 .. n -> Int] :
        /\ sf[0] = 0 /\ \A i \in 1 .. n : sf[i] = sf[i - 1] + f[i]
        /\ Sum(f) = sf[n]
  BY SumRounds
<1> DEFINE P == [i \in 0 .. n |-> {x \in Nat : \A j \in 1 .. i : f[j] > 0 => x > 0}]
<1>2. sf[0] \in P[0]
  BY <1>1
<1>3. ASSUME NEW i \in 1 .. n, sf[i - 1] \in P[i - 1] PROVE sf[i] \in P[i]
  <2>1. sf[i - 1] \in Nat /\ \A j \in 1 .. i - 1 : f[j] > 0 => sf[i - 1] > 0
    BY <1>3
  <2>2. sf[i] = sf[i - 1] + f[i] /\ f[i] >= 0 /\ f[i] \in Int
    BY <1>1
  <2>3. sf[i] \in Nat
    BY <2>1, <2>2
  <2>4. ASSUME NEW j \in 1 .. i, f[j] > 0 PROVE sf[i] > 0
    <3>1. CASE j = i
      BY <2>1, <2>2, <2>4, <3>1
    <3>2. CASE j \in 1 .. i - 1
      BY <2>1, <2>2, <2>4, <3>2
    <3> QED BY <3>1, <3>2
  <2> QED BY <2>3, <2>4
<1>4. \A i \in 0 .. n : sf[i] \in P[i]
  <2> HIDE DEF P
  <2> QED BY <1>2, <1>3, Along
<1>5. n \in 0 .. n
  OBVIOUS
<1>6. sf[n] \in Nat /\ \A j \in 1 .. n : f[j] > 0 => sf[n] > 0
  BY <1>4, <1>5
<1> QED BY <1>1, <1>6

-------------------------------------------------------------------------------
(* The samples *)

(* A sample was taken while charging and has a figure of a meter; if no    *)
(* meter was off, its error is what the station leaves out.                *)
Samples(off) ==
  {s \in [charge : Rates \ {0}, outReported : Int, outTrue : Int \cup {None},
          inReported : Int, inTrue : Int \cup {None}] :
     /\ s.outTrue # None \/ s.inTrue # None
     /\ off \/ DoubleError(s) = 2 * Offset + (2 * Slope) * s.charge}

IInv ==
  /\ rate \in Rates \cup {0} /\ glitches \in BOOLEAN
  /\ points \in Seq(Samples(glitches))

(* What a sample taken now says (config_flow.py, async_step_add_sample).   *)
LEMMA SampleKind ==
  ASSUME rate \in Rates \ {0}, NEW pair \in (SUBSET {"out", "in"}) \ {{}}, NEW off \in Int
  PROVE  Sample(pair, off) \in Samples(off # 0)
<1> DEFINE s == Sample(pair, off)
           missing == Offset + Slope * rate
<1>1. rate \in Int /\ rate # 0 /\ Load \in Int /\ missing \in Int /\ OutReported = Load - missing
      /\ InReported = Load - missing + rate
  BY PowerAssumption DEF PowerAssumption, OutReported, InReported
<1>2. s \in [charge : Rates \ {0}, outReported : Int, outTrue : Int \cup {None},
             inReported : Int, inTrue : Int \cup {None}]
  BY <1>1 DEF Sample
<1>3. s.outTrue # None \/ s.inTrue # None
  <2> "out" \in pair \/ "in" \in pair
    OBVIOUS
  <2> QED BY <1>1, PowerAssumption DEF Sample, PowerAssumption
<1>4. ASSUME off = 0 PROVE DoubleError(s) = 2 * missing
  <2>1. Load - (Load - missing) = missing /\ (Load + rate) - (Load - missing + rate) = missing
    BY <1>1
  <2>2. s.outTrue # None => s.outTrue - s.outReported = missing
    BY <1>1, <1>4 DEF Sample
  <2>3. s.inTrue # None => s.inTrue - s.inReported = missing
    BY <1>1, <1>4 DEF Sample
  <2> QED BY <1>1, <1>3, <2>2, <2>3 DEF DoubleError
<1>5. s.charge = rate /\ 2 * missing = 2 * Offset + (2 * Slope) * rate
  BY <1>1, PowerAssumption DEF Sample, PowerAssumption
<1> QED BY <1>2, <1>3, <1>4, <1>5 DEF Samples

LEMMA GlitchAllows == \A s : s \in Seq(Samples(FALSE)) => s \in Seq(Samples(TRUE))
BY DEF Samples

LEMMA RemoveAtKeeps ==
  ASSUME NEW T, NEW s \in Seq(T), NEW i \in DOMAIN s
  PROVE  RemoveAt(s, i) \in Seq(T)
BY DEF RemoveAt

(* Samples are added and dropped, and the charge rate changes.             *)
LEMMA Step == IInv /\ [Next]_vars => IInv'
<1> SUFFICES ASSUME IInv, [Next]_vars PROVE IInv'
  OBVIOUS
<1>1. CASE AddSample
  <2>1. PICK pair \in (SUBSET {"out", "in"}) \ {{}}, off \in {0, Glitch} :
          points' = Append(points, Sample(pair, off)) /\ glitches' = (glitches \/ off # 0)
    BY <1>1 DEF AddSample
  <2>2. off \in Int /\ rate \in Rates \ {0} /\ rate' = rate
    BY <1>1, PowerAssumption DEF AddSample, Charging, IInv, PowerAssumption
  <2>3. Sample(pair, off) \in Samples(off # 0)
    BY <2>2, SampleKind
  <2>4. glitches' \in BOOLEAN
    BY <2>1
  <2>5. points \in Seq(Samples(glitches')) /\ Sample(pair, off) \in Samples(glitches')
    <3>1. CASE glitches'
      BY <2>3, <3>1, GlitchAllows DEF IInv, Samples
    <3>2. CASE ~glitches'
      <4> ~glitches /\ off = 0
        BY <2>1, <3>2
      <4> QED BY <2>3, <3>2 DEF IInv, Samples
    <3> QED BY <3>1, <3>2
  <2>6. points' \in Seq(Samples(glitches'))
    BY <2>1, <2>5
  <2> QED BY <2>2, <2>4, <2>6 DEF IInv, Samples, DoubleError
<1>2. CASE DropSample
  <2>1. CASE points' = <<>>
    BY <1>2, <2>1 DEF DropSample, IInv
  <2>2. CASE points' # <<>>
    <3>1. points' \in Seq(Samples(glitches)) /\ (glitches' <=> glitches)
      BY <1>2, <2>2, RemoveAtKeeps DEF DropSample, IInv
    <3> QED BY <1>2, <3>1 DEF DropSample, IInv
  <2> QED BY <2>1, <2>2
<1>3. CASE RateChanges
  BY <1>3 DEF RateChanges, IInv
<1>4. CASE UNCHANGED vars
  BY <1>4 DEF vars, IInv
<1> QED BY <1>1, <1>2, <1>3, <1>4 DEF Next

(* The invariant of the samples.                                           *)
THEOREM Inductive == Spec => []IInv
<1>1. Init => IInv
  <2> <<>> \in Seq(Samples(FALSE))
    OBVIOUS
  <2> QED BY DEF Init, IInv
<1> QED BY <1>1, Step, PTL DEF Spec

-------------------------------------------------------------------------------
(* What the fit finds *)

LEMMA SeriesKinds ==
  ASSUME IInv
  PROVE  /\ Len(points) \in Nat /\ DOMAIN points = 1 .. Len(points)
         /\ Charge \in [1 .. Len(points) -> Int] /\ Errors \in [1 .. Len(points) -> Int]
         /\ \A i \in 1 .. Len(points) : Charge[i] = points[i].charge
         /\ ~glitches => \A i \in 1 .. Len(points) :
                           Errors[i] = 2 * Offset + (2 * Slope) * Charge[i]
<1>1. Len(points) \in Nat /\ DOMAIN points = 1 .. Len(points)
  BY DEF IInv
<1>2. ASSUME NEW s \in Samples(glitches) PROVE s.charge \in Int /\ DoubleError(s) \in Int
  <2> s.charge \in Int
    <3>1. s.charge \in Rates
      BY DEF Samples
    <3>2. \A r \in Rates : r \in Int
      BY PowerAssumption DEF PowerAssumption
    <3> QED BY <3>1, <3>2
  <2>1. /\ s.outReported \in Int /\ s.inReported \in Int
        /\ s.outTrue \in Int \/ s.outTrue = None
        /\ s.inTrue \in Int \/ s.inTrue = None
        /\ s.outTrue # None \/ s.inTrue # None
    BY DEF Samples
  <2>2. CASE s.inTrue = None
    BY <2>1, <2>2 DEF DoubleError
  <2>3. CASE s.inTrue # None
    BY <2>1, <2>3 DEF DoubleError
  <2> QED BY <2>1, <2>2, <2>3
<1>3. \A i \in 1 .. Len(points) : points[i] \in Samples(glitches)
  BY DEF IInv
<1>4. ~glitches => \A i \in 1 .. Len(points) :
                     Errors[i] = 2 * Offset + (2 * Slope) * Charge[i]
  BY <1>1, <1>3 DEF Samples, Errors, Charge
<1> QED BY <1>1, <1>2, <1>3, <1>4 DEF Charge, Errors

LEMMA SumKinds ==
  ASSUME IInv
  PROVE  SumX \in Int /\ SumE \in Int /\ SumXX \in Int /\ SumXE \in Int /\ Spread \in Int
<1>1. SumX \in Int /\ SumE \in Int
  BY SeriesKinds, SumInt DEF SumX, SumE
<1>2. /\ [i \in DOMAIN points |-> Charge[i] * Charge[i]] \in [1 .. Len(points) -> Int]
      /\ [i \in DOMAIN points |-> Charge[i] * Errors[i]] \in [1 .. Len(points) -> Int]
  BY SeriesKinds
<1>3. SumXX \in Int /\ SumXE \in Int
  BY SeriesKinds, <1>2, SumInt DEF SumXX, SumXE
<1> QED BY <1>1, <1>3, SeriesKinds DEF Spread

(* If the errors are on a line, so are their sums.                         *)
LEMMA SumsOnTheLine ==
  ASSUME IInv, NEW a \in Int, NEW b \in Int,
         \A i \in 1 .. Len(points) : Errors[i] = a + b * Charge[i]
  PROVE  SumE = a * Len(points) + b * SumX /\ SumXE = a * SumX + b * SumXX
<1> DEFINE n    == Len(points)
           ones == [i \in 1 .. n |-> 1]
           xx   == [i \in DOMAIN points |-> Charge[i] * Charge[i]]
           xe   == [i \in DOMAIN points |-> Charge[i] * Errors[i]]
<1>1. /\ n \in Nat /\ DOMAIN points = 1 .. n
      /\ Charge \in [1 .. n -> Int] /\ Errors \in [1 .. n -> Int]
  BY SeriesKinds
<1>2. /\ ones \in Series /\ xx \in Series /\ xe \in Series
      /\ Charge \in Series /\ Errors \in Series
  BY <1>1 DEF Series
<1>3. Combines(Errors, a, ones, b, Charge)
  BY <1>1 DEF Combines
<1>4. Combines(xe, a, Charge, b, xx)
  <2>1. \A x, e \in Int : e = a + b * x => x * e = a * x + b * (x * x)
    OBVIOUS
  <2> QED BY <1>1, <2>1 DEF Combines
<1>5. Sum(ones) = n
  BY <1>1, SumOnes
<1> HIDE DEF n, ones, xx, xe
<1>6. Sum(Errors) = a * Sum(ones) + b * Sum(Charge)
  BY <1>1, <1>2, <1>3, SumLinear DEF n
<1>7. Sum(xe) = a * Sum(Charge) + b * Sum(xx)
  BY <1>1, <1>2, <1>4, SumLinear DEF n
<1> QED BY <1>5, <1>6, <1>7 DEF n, xx, xe, SumE, SumX, SumXE, SumXX

(* The fit of errors on a line is that line (calibration.py,               *)
(* fit_correction).                                                        *)
LEMMA FitFindsTheLine ==
  ASSUME IInv, NEW a \in Int, NEW b \in Int, SlopeResolved,
         \A i \in 1 .. Len(points) : Errors[i] = 2 * a + (2 * b) * Charge[i]
  PROVE  Fit.offset = a * Fit.over /\ Fit.slope = b * Fit.over /\ Fit.over \in Int
<1> DEFINE n == Len(points)
           slope == n * SumXE - SumX * SumE
<1>1. n \in Nat /\ SumX \in Int /\ SumXX \in Int /\ Spread \in Int
  BY SeriesKinds, SumKinds
<1>2. SumE = (2 * a) * n + (2 * b) * SumX /\ SumXE = (2 * a) * SumX + (2 * b) * SumXX
  BY SumsOnTheLine
<1>3. points # <<>>
  BY DEF SlopeResolved, DistinctRates
<1>4. /\ Fit.offset = SumE * Spread - slope * SumX /\ Fit.slope = n * slope
      /\ Fit.over = 2 * n * Spread
  BY <1>3 DEF Fit
<1>5. ASSUME NEW m \in Int, NEW x \in Int, NEW xx \in Int, NEW spread \in Int,
             spread = m * xx - x * x
      PROVE  m * ((2 * a) * x + (2 * b) * xx) - x * ((2 * a) * m + (2 * b) * x) = (2 * b) * spread
  <2>1. m * ((2 * a) * x + (2 * b) * xx) = (2 * a) * (m * x) + (2 * b) * (m * xx)
    OBVIOUS
  <2>2. x * ((2 * a) * m + (2 * b) * x) = (2 * a) * (m * x) + (2 * b) * (x * x)
    OBVIOUS
  <2>3. (2 * b) * spread = (2 * b) * (m * xx) - (2 * b) * (x * x)
    BY <1>5
  <2> QED BY <2>1, <2>2, <2>3
<1>6. slope = (2 * b) * Spread
  <2>1. Spread = n * SumXX - SumX * SumX
    BY DEF Spread
  <2> QED BY <1>1, <1>2, <1>5, <2>1
<1>7. ASSUME NEW m \in Int, NEW x \in Int, NEW spread \in Int
      PROVE  /\ ((2 * a) * m + (2 * b) * x) * spread - ((2 * b) * spread) * x = a * (2 * m * spread)
             /\ m * ((2 * b) * spread) = b * (2 * m * spread)
             /\ 2 * m * spread \in Int
  OBVIOUS
<1>8. /\ Fit.offset = ((2 * a) * n + (2 * b) * SumX) * Spread - ((2 * b) * Spread) * SumX
      /\ Fit.slope = n * ((2 * b) * Spread)
  BY <1>2, <1>4, <1>6
<1> HIDE DEF n, slope
<1> QED BY <1>1, <1>4, <1>7, <1>8

(* Samples that share a rate: the mean error, which is the error there.    *)
LEMMA FitFindsTheError ==
  ASSUME IInv, NEW e \in Int, ~SlopeResolved, points # <<>>,
         \A i \in 1 .. Len(points) : Errors[i] = 2 * e
  PROVE  Fit.offset = e * Fit.over /\ Fit.slope = 0 /\ Fit.over \in Int
<1>1. SumE = (2 * e) * Len(points) + 0 * SumX
  <2> \A i \in 1 .. Len(points) : Errors[i] = 2 * e + 0 * Charge[i]
    BY SeriesKinds
  <2> QED BY SumsOnTheLine
<1>2. Fit.offset = SumE /\ Fit.slope = 0 /\ Fit.over = 2 * Len(points)
  BY DEF Fit
<1>3. Len(points) \in Nat /\ SumX \in Int
  BY SeriesKinds, SumKinds
<1>4. \A n, x \in Int : (2 * e) * n + 0 * x = e * (2 * n)
  OBVIOUS
<1> QED BY <1>1, <1>2, <1>3, <1>4

(* Hence the corrected readings are the true ones.                         *)
LEMMA Truth == IInv => ShowsTheTruth
<1> SUFFICES ASSUME IInv, ~glitches, rate \in DistinctRates \cup {0} \/ SlopeResolved
             PROVE  /\ Corrected(OutReported, Fit) = Load * Fit.over
                    /\ Corrected(InReported, Fit)  = (Load + rate) * Fit.over
  BY DEF ShowsTheTruth
<1> DEFINE missing == Offset + Slope * rate
<1>1. rate \in Nat /\ Offset \in Int /\ Slope \in Int /\ Load \in Int /\ missing \in Int
  BY PowerAssumption DEF IInv, PowerAssumption
<1>2. CASE rate = 0
  <2>1. Fit.over \in {1, 2 * Len(points), 2 * Len(points) * Spread}
    BY DEF Fit
  <2>2. Len(points) \in Int /\ Spread \in Int
    BY SeriesKinds, SumKinds
  <2>3. Fit.over \in Int
    BY <2>1, <2>2
  <2> QED BY <1>1, <1>2, <2>3 DEF Corrected, Watts, OutReported, InReported
<1>3. ASSUME rate # 0, Fit.over \in Int, Fit.offset + Fit.slope * rate = missing * Fit.over
      PROVE  /\ Corrected(OutReported, Fit) = Load * Fit.over
             /\ Corrected(InReported, Fit)  = (Load + rate) * Fit.over
  <2>1. \A load, m, r, over \in Int : /\ (load - m) * over + m * over = load * over
                                      /\ (load - m + r) * over + m * over = (load + r) * over
    OBVIOUS
  <2>2. Watts(Fit) = missing * Fit.over /\ OutReported = Load - missing
        /\ InReported = Load - missing + rate
    BY <1>1, <1>3 DEF Watts, OutReported, InReported
  <2> QED BY <1>1, <1>3, <2>1, <2>2 DEF Corrected
<1>4. CASE rate # 0 /\ SlopeResolved
  <2>1. Fit.offset = Offset * Fit.over /\ Fit.slope = Slope * Fit.over /\ Fit.over \in Int
    BY <1>1, <1>4, SeriesKinds, FitFindsTheLine
  <2>2. \A o, s, r, over \in Int : o * over + (s * over) * r = (o + s * r) * over
    OBVIOUS
  <2> QED BY <1>1, <1>3, <1>4, <2>1, <2>2
<1>5. CASE rate # 0 /\ rate \in DistinctRates /\ ~SlopeResolved
  <2>1. \A i \in 1 .. Len(points) : Charge[i] = rate
    BY <1>5, SeriesKinds DEF SlopeResolved, DistinctRates
  <2>2. \A i \in 1 .. Len(points) : Errors[i] = 2 * missing
    BY <1>1, <2>1, SeriesKinds
  <2>3. points # <<>>
    BY <1>5 DEF DistinctRates
  <2>4. Fit.offset = missing * Fit.over /\ Fit.slope = 0 /\ Fit.over \in Int
    BY <1>1, <1>5, <2>2, <2>3, FitFindsTheError
  <2> QED BY <1>1, <1>3, <1>5, <2>4
<1> QED BY <1>2, <1>4, <1>5

-------------------------------------------------------------------------------
(* The fit is the best one *)

LeftOf(offset, slope, over)   == [i \in DOMAIN points |-> Left(i, offset, slope, over)]
LeftRate(offset, slope, over) == [i \in DOMAIN points |-> Left(i, offset, slope, over) * Charge[i]]

LEMMA ConcreteSeries ==
  ASSUME IInv
  PROVE  /\ Len(points) \in Nat /\ Charge \in Series /\ Errors \in Series
         /\ [i \in DOMAIN points |-> Charge[i] * Charge[i]] \in Series
         /\ [i \in DOMAIN points |-> Charge[i] * Errors[i]] \in Series
         /\ \A i \in 1 .. Len(points) :
              Charge[i] \in Int /\ Errors[i] \in Int /\ i \in DOMAIN points
BY SeriesKinds DEF Series

(* What a line leaves, summed, and times the rates.                        *)
LEMMA LeftSums ==
  ASSUME IInv, NEW a \in Int, NEW b \in Int, NEW over \in Int
  PROVE  /\ LeftOf(a, b, over) \in Series /\ LeftRate(a, b, over) \in Series
         /\ Sum(LeftOf(a, b, over)) = over * SumE + ((-2 * a) * Len(points) + (-2 * b) * SumX)
         /\ Sum(LeftRate(a, b, over)) = over * SumXE + ((-2 * a) * SumX + (-2 * b) * SumXX)
<1> DEFINE n    == Len(points)
           ones == [i \in 1 .. n |-> 1]
           xx   == [i \in DOMAIN points |-> Charge[i] * Charge[i]]
           xe   == [i \in DOMAIN points |-> Charge[i] * Errors[i]]
           line == [i \in DOMAIN points |-> (-2 * a) * ones[i] + (-2 * b) * Charge[i]]
           rise == [i \in DOMAIN points |-> (-2 * a) * Charge[i] + (-2 * b) * xx[i]]
<1>1. /\ n \in Nat /\ Charge \in Series /\ Errors \in Series /\ DOMAIN points = 1 .. n
      /\ xx \in Series /\ xe \in Series
      /\ \A i \in 1 .. n : Charge[i] \in Int /\ Errors[i] \in Int
  BY ConcreteSeries, SeriesKinds
<1>2. ones \in Series /\ Sum(ones) = n
  BY <1>1, SumOnes DEF Series
<1>3. \A u, v \in Int : u * v \in Int /\ u + v \in Int /\ u - v \in Int
  OBVIOUS
<1>4. line \in Series /\ rise \in Series
  <2>1. \A i \in 1 .. n : ones[i] \in Int /\ xx[i] \in Int
    BY <1>1, <1>2 DEF Series
  <2>2. \A i \in 1 .. n : line[i] \in Int /\ rise[i] \in Int
    BY <1>1, <1>3, <2>1
  <2> QED BY <1>1, <2>2 DEF Series
<1>5. LeftOf(a, b, over) \in Series /\ LeftRate(a, b, over) \in Series
  <2>1. \A i \in 1 .. n : Left(i, a, b, over) \in Int
    BY <1>1, <1>3 DEF Left
  <2> QED BY <1>1, <1>3, <2>1 DEF LeftOf, LeftRate, Series
<1>6. Combines(line, -2 * a, ones, -2 * b, Charge) /\ Combines(rise, -2 * a, Charge, -2 * b, xx)
  BY <1>1 DEF Combines
<1>7. Combines(LeftOf(a, b, over), over, Errors, 1, line)
  <2>1. ASSUME NEW x \in Int, NEW e \in Int
        PROVE  e * over - 2 * (a + b * x) = over * e + 1 * ((-2 * a) * 1 + (-2 * b) * x)
    OBVIOUS
  <2> QED BY <1>1, <2>1 DEF Combines, LeftOf, Left
<1>8. Combines(LeftRate(a, b, over), over, xe, 1, rise)
  <2>1. ASSUME NEW x \in Int, NEW e \in Int
        PROVE  (e * over - 2 * (a + b * x)) * x
                 = over * (x * e) + 1 * ((-2 * a) * x + (-2 * b) * (x * x))
    OBVIOUS
  <2> QED BY <1>1, <2>1 DEF Combines, LeftRate, Left
<1>9. Sum(xx) = SumXX /\ Sum(xe) = SumXE /\ Sum(Charge) = SumX /\ Sum(Errors) = SumE
  BY DEF SumXX, SumXE, SumX, SumE
<1> HIDE DEF n, ones, xx, xe, line, rise
<1>10. -2 * a \in Int /\ -2 * b \in Int /\ 1 \in Int /\ Len(points) \in Nat
  BY <1>1 DEF n
<1>11. /\ Sum(line) = (-2 * a) * Sum(ones) + (-2 * b) * Sum(Charge)
       /\ Sum(rise) = (-2 * a) * Sum(Charge) + (-2 * b) * Sum(xx)
  BY <1>1, <1>2, <1>4, <1>6, <1>10, SumLinear
<1>12. /\ Sum(LeftOf(a, b, over)) = over * Sum(Errors) + 1 * Sum(line)
       /\ Sum(LeftRate(a, b, over)) = over * Sum(xe) + 1 * Sum(rise)
  BY <1>1, <1>4, <1>5, <1>7, <1>8, <1>10, SumLinear
<1>13. 1 * Sum(line) = Sum(line) /\ 1 * Sum(rise) = Sum(rise)
  BY <1>4, <1>10, SumInt DEF Series
<1> QED BY <1>2, <1>5, <1>9, <1>11, <1>12, <1>13 DEF n

(* A line whose remains add up to nothing, by themselves and times the     *)
(* rates, is the nearest to the samples; among those of its slope, one     *)
(* whose remains add up to nothing is.                                     *)
LEMMA NoNearer ==
  ASSUME IInv, NEW a \in Int, NEW b \in Int, NEW over \in Int, NEW c \in Int, NEW d \in Int,
         Sum(LeftOf(a, b, over)) = 0, d = b \/ Sum(LeftRate(a, b, over)) = 0
  PROVE  Residuals(a, b, over) <= Residuals(c, d, over)
<1> DEFINE n     == Len(points)
           p     == c - a
           q     == d - b
           left  == LeftOf(a, b, over)
           rates == LeftRate(a, b, over)
           sq    == [i \in DOMAIN points |-> Left(i, a, b, over) * Left(i, a, b, over)]
           other == [i \in DOMAIN points |-> Left(i, c, d, over) * Left(i, c, d, over)]
           cross == [i \in DOMAIN points |-> (-4 * p) * left[i] + (-4 * q) * rates[i]]
           mid   == [i \in DOMAIN points |-> 1 * sq[i] + 1 * cross[i]]
           dev   == [i \in DOMAIN points |-> (p + q * Charge[i]) * (p + q * Charge[i])]
<1>1. /\ n \in Nat /\ n = Len(points) /\ DOMAIN points = 1 .. n /\ Series = [1 .. n -> Int]
      /\ \A i \in 1 .. n : Charge[i] \in Int /\ Errors[i] \in Int
  BY SeriesKinds DEF Series
<1>2. left \in Series /\ rates \in Series /\ p \in Int /\ q \in Int
  BY LeftSums
<1>3. \A u, v \in Int : u * v \in Int /\ u + v \in Int /\ u - v \in Int
  OBVIOUS
<1>4. ASSUME NEW i \in 1 .. n
      PROVE  /\ Left(i, a, b, over) \in Int /\ Left(i, c, d, over) \in Int
             /\ left[i] = Left(i, a, b, over) /\ rates[i] = Left(i, a, b, over) * Charge[i]
             /\ left[i] \in Int /\ rates[i] \in Int
  <2>1. Left(i, a, b, over) \in Int /\ Left(i, c, d, over) \in Int
    <3>1. \A e, x, r, s \in Int : e * over - 2 * (r + s * x) \in Int
      OBVIOUS
    <3>2. Charge[i] \in Int /\ Errors[i] \in Int
      BY <1>1
    <3> QED BY <3>1, <3>2 DEF Left
  <2>2. left[i] = Left(i, a, b, over) /\ rates[i] = Left(i, a, b, over) * Charge[i]
    BY <1>1 DEF LeftOf, LeftRate
  <2>3. left[i] \in Int /\ rates[i] \in Int
    BY <1>1, <1>2
  <2> QED BY <2>1, <2>2, <2>3
<1>5. sq \in Series /\ other \in Series
  BY <1>1, <1>3, <1>4
<1>6. cross \in Series /\ dev \in Series
  <2>1. \A i \in 1 .. n : cross[i] \in Int /\ dev[i] \in Int
    BY <1>1, <1>2, <1>3, <1>4
  <2> QED BY <1>1, <2>1
<1>7. mid \in Series
  <2>1. \A i \in 1 .. n : sq[i] \in Int /\ cross[i] \in Int
    BY <1>1, <1>5, <1>6
  <2> HIDE DEF sq, cross
  <2> QED BY <1>1, <1>3, <2>1
<1>8. Combines(cross, -4 * p, left, -4 * q, rates) /\ Combines(mid, 1, sq, 1, cross)
  BY <1>1 DEF Combines
<1>9. Combines(other, 1, mid, 4, dev)
  <2>1. ASSUME NEW l \in Int, NEW x \in Int
        PROVE  (l - 2 * (p + q * x)) * (l - 2 * (p + q * x))
                 = 1 * (1 * (l * l) + 1 * ((-4 * p) * l + (-4 * q) * (l * x)))
                     + 4 * ((p + q * x) * (p + q * x))
    <3> DEFINE y == p + q * x
    <3>1. q * x \in Int /\ y \in Int /\ y = p + q * x
      BY <1>2, <1>3
    <3>2. (-4 * p) * l + (-4 * q) * (l * x) = -4 * (l * y)
      BY <1>2
    <3> HIDE DEF y
    <3>3. (l - 2 * y) * (l - 2 * y) = l * l - 4 * (l * y) + 4 * (y * y)
      BY <3>1
    <3> QED BY <3>1, <3>2, <3>3
  <2>2. ASSUME NEW i \in 1 .. n
        PROVE  Left(i, c, d, over) = Left(i, a, b, over) - 2 * (p + q * Charge[i])
    <3>1. \A e, x \in Int : e * over - 2 * (c + d * x)
                              = (e * over - 2 * (a + b * x)) - 2 * ((c - a) + (d - b) * x)
      OBVIOUS
    <3> QED BY <1>1, <3>1 DEF Left
  <2>3. ASSUME NEW i \in 1 .. n PROVE other[i] = 1 * mid[i] + 4 * dev[i]
    <3> DEFINE l == Left(i, a, b, over)
               x == Charge[i]
    <3>1. l \in Int /\ x \in Int
      BY <1>1, <1>4
    <3>2. mid[i] = 1 * (l * l) + 1 * ((-4 * p) * l + (-4 * q) * (l * x))
      BY <1>1, <1>4
    <3>3. other[i] = (l - 2 * (p + q * x)) * (l - 2 * (p + q * x))
      BY <1>1, <2>2
    <3>4. dev[i] = (p + q * x) * (p + q * x)
      BY <1>1
    <3> HIDE DEF l, x, mid, other, dev, p, q
    <3> QED BY <2>1, <3>1, <3>2, <3>3, <3>4
  <2> QED BY <1>1, <2>3 DEF Combines
<1>10. Residuals(a, b, over) = Sum(sq) /\ Residuals(c, d, over) = Sum(other)
  BY DEF Residuals
<1>11. Sum(dev) >= 0
  <2>1. \A y \in Int : y * y >= 0
    OBVIOUS
  <2>2. \A i \in 1 .. n : dev[i] >= 0
    BY <1>1, <1>2, <1>3, <2>1
  <2> HIDE DEF n, dev
  <2> QED BY <1>1, <1>6, <2>2, SumPositive
<1> HIDE DEF n, left, rates, sq, other, cross, mid, dev
<1>12. -4 * p \in Int /\ -4 * q \in Int /\ 1 \in Int /\ 4 \in Int /\ Len(points) \in Nat
  BY <1>1, <1>2
<1> HIDE DEF p, q
<1>13. Sum(cross) = (-4 * p) * Sum(left) + (-4 * q) * Sum(rates)
  BY <1>2, <1>6, <1>8, <1>12, SumLinear
<1>14. Sum(mid) = 1 * Sum(sq) + 1 * Sum(cross)
  BY <1>5, <1>6, <1>7, <1>8, <1>12, SumLinear
<1>15. Sum(other) = 1 * Sum(mid) + 4 * Sum(dev)
  BY <1>5, <1>6, <1>7, <1>9, <1>12, SumLinear
<1>16. Sum(sq) \in Int /\ Sum(rates) \in Int /\ Sum(dev) \in Int
  BY <1>1, <1>2, <1>5, <1>6, SumInt
<1>17. Sum(cross) = 0
  <2>1. Sum(left) = 0 /\ (q = 0 \/ Sum(rates) = 0)
    BY DEF left, rates, q
  <2> QED BY <1>2, <1>13, <1>16, <2>1
<1> QED BY <1>10, <1>11, <1>14, <1>15, <1>16, <1>17

(* Rates that differ are spread: the denominator of the slope is positive. *)
LEMMA SpreadPositive ==
  ASSUME IInv, SlopeResolved
  PROVE  Len(points) > 0 /\ Spread > 0
<1> DEFINE n    == Len(points)
           ones == [i \in 1 .. n |-> 1]
           xx   == [i \in DOMAIN points |-> Charge[i] * Charge[i]]
           u    == -2 * n * SumX
           v    == SumX * SumX
           w    == n * n
           flat == [i \in DOMAIN points |-> u * Charge[i] + v * ones[i]]
           dev  == [i \in DOMAIN points |-> (n * Charge[i] - SumX) * (n * Charge[i] - SumX)]
<1>1. /\ n \in Nat /\ n = Len(points) /\ DOMAIN points = 1 .. n /\ Series = [1 .. n -> Int]
      /\ Charge \in Series /\ xx \in Series /\ SumX \in Int /\ SumXX \in Int
      /\ \A i \in 1 .. n : Charge[i] \in Int /\ Charge[i] = points[i].charge
  BY SeriesKinds, ConcreteSeries, SumKinds DEF Series
<1>2. PICK i \in 1 .. n, j \in 1 .. n : Charge[i] # Charge[j]
  BY <1>1 DEF SlopeResolved, DistinctRates
<1>3. ones \in Series /\ Sum(ones) = n
  BY <1>1, SumOnes
<1>4. \A x, y \in Int : x * y \in Int /\ x + y \in Int /\ x - y \in Int
  OBVIOUS
<1>5. flat \in Series /\ dev \in Series
  <2>1. \A k \in 1 .. n : flat[k] \in Int /\ dev[k] \in Int
    BY <1>1, <1>4
  <2> QED BY <1>1, <2>1
<1>6. Combines(flat, u, Charge, v, ones)
  BY <1>1 DEF Combines
<1>7. Combines(dev, w, xx, 1, flat)
  <2>1. ASSUME NEW m \in Int, NEW s \in Int, NEW x \in Int
        PROVE  (m * x - s) * (m * x - s)
                 = (m * m) * (x * x) + 1 * ((-2 * m * s) * x + (s * s) * 1)
    OBVIOUS
  <2> QED BY <1>1, <2>1 DEF Combines
<1>8. \A k \in 1 .. n : dev[k] >= 0 /\ (n * Charge[k] # SumX => dev[k] > 0)
  <2>1. \A y \in Int : y * y >= 0 /\ (y # 0 => y * y > 0)
    OBVIOUS
  <2>2. \A k \in 1 .. n : n * Charge[k] \in Int /\ n * Charge[k] - SumX \in Int
                            /\ (n * Charge[k] # SumX => n * Charge[k] - SumX # 0)
    BY <1>1, <1>4
  <2> QED BY <1>1, <2>1, <2>2
<1>9. n > 0
  BY <1>1, <1>2
<1>10. n * Charge[i] # SumX \/ n * Charge[j] # SumX
  <2>1. \A m, x, y \in Int : m > 0 /\ x # y => m * x # m * y
    OBVIOUS
  <2>2. n \in Int /\ Charge[i] \in Int /\ Charge[j] \in Int
    BY <1>1
  <2> HIDE DEF n
  <2>3. n * Charge[i] # n * Charge[j]
    BY <1>2, <1>9, <2>1, <2>2
  <2> QED BY <2>3
<1>11. Sum(dev) > 0
  <2> HIDE DEF n, dev
  <2> QED BY <1>1, <1>5, <1>8, <1>10, SumPositive
<1>12. Sum(xx) = SumXX /\ Sum(Charge) = SumX
  BY DEF SumXX, SumX
<1> HIDE DEF ones, xx, flat, dev
<1>13. u \in Int /\ v \in Int /\ w \in Int /\ 1 \in Int /\ Len(points) \in Nat
  BY <1>1, <1>4
<1>14. Charge \in Series /\ ones \in Series /\ xx \in Series /\ flat \in Series /\ dev \in Series
  BY <1>1, <1>3, <1>5
<1> HIDE DEF n, u, v, w
<1>15. Sum(flat) = u * Sum(Charge) + v * Sum(ones)
  BY <1>6, <1>13, <1>14, SumLinear
<1>16. Sum(dev) = w * Sum(xx) + 1 * Sum(flat)
  BY <1>7, <1>13, <1>14, SumLinear
<1>17. Sum(dev) = n * Spread
  <2>1. ASSUME NEW m \in Int, NEW s \in Int, NEW x \in Int
        PROVE  (m * m) * x + 1 * ((-2 * m * s) * s + (s * s) * m) = m * (m * x - s * s)
    OBVIOUS
  <2>2. Spread = n * SumXX - SumX * SumX
    BY <1>1 DEF Spread
  <2> QED BY <1>1, <1>3, <1>12, <1>15, <1>16, <2>1, <2>2 DEF u, v, w
<1>18. Spread \in Int
  BY SumKinds
<1> QED BY <1>1, <1>9, <1>11, <1>17, <1>18

(* The sums of what the fitted line leaves: nothing, and nothing times the *)
(* rates if they differ (calibration.py, fit_correction).                  *)
LEMMA FitBalances ==
  ASSUME IInv
  PROVE  /\ Fit.offset \in Int /\ Fit.slope \in Int /\ Fit.over \in Int /\ Fit.over > 0
         /\ Sum(LeftOf(Fit.offset, Fit.slope, Fit.over)) = 0
         /\ SlopeResolved => Sum(LeftRate(Fit.offset, Fit.slope, Fit.over)) = 0
         /\ ~SlopeResolved => Fit.slope = 0
<1> DEFINE n     == Len(points)
           slope == n * SumXE - SumX * SumE
<1>1. /\ n \in Nat /\ SumX \in Int /\ SumE \in Int /\ SumXX \in Int /\ SumXE \in Int
      /\ Spread \in Int /\ Spread = n * SumXX - SumX * SumX
  BY SeriesKinds, SumKinds DEF Spread
<1>2. \A u, v \in Int : u * v \in Int /\ u + v \in Int /\ u - v \in Int
  OBVIOUS
<1>3. CASE SlopeResolved
  <2>1. points # <<>> /\ n > 0 /\ Spread > 0
    <3>1. points # <<>>
      BY <1>3 DEF SlopeResolved, DistinctRates
    <3> QED BY <1>3, <3>1, SpreadPositive
  <2>2. /\ Fit.offset = SumE * Spread - slope * SumX /\ Fit.slope = n * slope
        /\ Fit.over = 2 * n * Spread
    BY <1>3, <2>1 DEF Fit
  <2>3. slope \in Int /\ SumE * Spread - slope * SumX \in Int /\ n * slope \in Int
        /\ 2 * n * Spread \in Int
    BY <1>1, <1>2
  <2>4. 2 * n * Spread > 0
    <3>1. \A m, s \in Int : m > 0 /\ s > 0 => 2 * m * s > 0
      OBVIOUS
    <3> QED BY <1>1, <2>1, <3>1
  <2>5. ASSUME NEW m \in Int, NEW x \in Int, NEW e \in Int, NEW xx \in Int, NEW xe \in Int,
               NEW s \in Int, NEW sl \in Int, s = m * xx - x * x, sl = m * xe - x * e
        PROVE  /\ (2 * m * s) * e + ((-2 * (e * s - sl * x)) * m + (-2 * (m * sl)) * x) = 0
               /\ (2 * m * s) * xe + ((-2 * (e * s - sl * x)) * x + (-2 * (m * sl)) * xx) = 0
    <3>1. (2 * m * s) * e + ((-2 * (e * s - sl * x)) * m + (-2 * (m * sl)) * x) = 0
      OBVIOUS
    <3>2. (2 * m * s) * xe + ((-2 * (e * s - sl * x)) * x + (-2 * (m * sl)) * xx)
            = 2 * (s * (m * xe - x * e)) - 2 * (sl * (m * xx - x * x))
      OBVIOUS
    <3>3. s * (m * xe - x * e) = sl * (m * xx - x * x)
      BY <2>5
    <3>4. s * (m * xe - x * e) \in Int
      OBVIOUS
    <3> QED BY <3>1, <3>2, <3>3, <3>4
  <2>6. /\ (2 * n * Spread) * SumE
             + ((-2 * (SumE * Spread - slope * SumX)) * n + (-2 * (n * slope)) * SumX) = 0
        /\ (2 * n * Spread) * SumXE
             + ((-2 * (SumE * Spread - slope * SumX)) * SumX + (-2 * (n * slope)) * SumXX) = 0
    <3>1. n \in Int /\ slope = n * SumXE - SumX * SumE
      BY <1>1
    <3> HIDE DEF n, slope
    <3> QED BY <1>1, <2>3, <2>5, <3>1
  <2>7. Fit.offset \in Int /\ Fit.slope \in Int /\ Fit.over \in Int /\ Fit.over > 0
    <3> HIDE DEF n, slope
    <3> QED BY <2>2, <2>3, <2>4, Zenon
  <2>8. /\ Fit.over * SumE + ((-2 * Fit.offset) * n + (-2 * Fit.slope) * SumX) = 0
        /\ Fit.over * SumXE + ((-2 * Fit.offset) * SumX + (-2 * Fit.slope) * SumXX) = 0
    <3> HIDE DEF n, slope
    <3> QED BY <2>2, <2>6, Zenon
  <2>9. /\ Sum(LeftOf(Fit.offset, Fit.slope, Fit.over)) = 0
        /\ Sum(LeftRate(Fit.offset, Fit.slope, Fit.over)) = 0
    BY <2>7, <2>8, LeftSums, Zenon
  <2> QED BY <1>3, <2>7, <2>9, Zenon
<1>4. CASE ~SlopeResolved /\ points = <<>>
  <2>1. Fit.offset = 0 /\ Fit.slope = 0 /\ Fit.over = 1 /\ n = 0
    BY <1>4 DEF Fit
  <2>2. SumE = 0
    <3>1. PICK sum \in [0 .. n -> Int] : sum[0] = 0 /\ Sum(Errors) = sum[n]
      BY <1>1, SeriesKinds, SumRounds
    <3> QED BY <2>1, <3>1 DEF SumE
  <2>3. Sum(LeftOf(0, 0, 1)) = 1 * SumE + ((-2 * 0) * n + (-2 * 0) * SumX)
    BY LeftSums
  <2>4. Sum(LeftOf(0, 0, 1)) = 0
    BY <1>1, <2>1, <2>2, <2>3
  <2>5. ~SlopeResolved
    BY <1>4
  <2>6. Fit.offset \in Int /\ Fit.slope \in Int /\ Fit.over \in Int /\ Fit.over > 0
    BY <2>1
  <2>7. Fit.offset = 0 /\ Fit.slope = 0 /\ Fit.over = 1
    BY <2>1
  <2>8. Sum(LeftOf(Fit.offset, Fit.slope, Fit.over)) = 0
    BY <2>4, <2>7, Zenon
  <2> QED BY <2>5, <2>6, <2>7, <2>8, Zenon
<1>5. CASE ~SlopeResolved /\ points # <<>>
  <2>1. Fit.offset = SumE /\ Fit.slope = 0 /\ Fit.over = 2 * n /\ n > 0
    <3> n # 0
      BY <1>5 DEF IInv
    <3> QED BY <1>1, <1>5 DEF Fit
  <2>2. Sum(LeftOf(SumE, 0, 2 * n)) = (2 * n) * SumE + ((-2 * SumE) * n + (-2 * 0) * SumX)
    BY <1>1, LeftSums
  <2>3. \A m, e, x \in Int : (2 * m) * e + ((-2 * e) * m + (-2 * 0) * x) = 0
    OBVIOUS
  <2> QED BY <1>1, <1>5, <2>1, <2>2, <2>3
<1> QED BY <1>3, <1>4, <1>5

(* A line and its balance are the same in smaller units.                   *)
LEMMA Scaled ==
  ASSUME IInv, NEW a \in Int, NEW b \in Int, NEW over \in Int, NEW part \in Int
  PROVE  /\ Sum(LeftOf(a, b, over)) = 0 => Sum(LeftOf(a * part, b * part, over * part)) = 0
         /\ Sum(LeftRate(a, b, over)) = 0 => Sum(LeftRate(a * part, b * part, over * part)) = 0
<1>1. a * part \in Int /\ b * part \in Int /\ over * part \in Int
  OBVIOUS
<1>2. Len(points) \in Int /\ SumX \in Int /\ SumE \in Int /\ SumXX \in Int /\ SumXE \in Int
  BY SeriesKinds, SumKinds
<1> DEFINE n  == Len(points)
           x  == SumX
           e  == SumE
           xx == SumXX
           xe == SumXE
<1>3. n \in Int /\ x \in Int /\ e \in Int /\ xx \in Int /\ xe \in Int
  BY <1>2
<1>4. /\ Sum(LeftOf(a * part, b * part, over * part))
             = (over * part) * SumE + ((-2 * (a * part)) * Len(points) + (-2 * (b * part)) * SumX)
      /\ Sum(LeftRate(a * part, b * part, over * part))
             = (over * part) * SumXE + ((-2 * (a * part)) * SumX + (-2 * (b * part)) * SumXX)
  BY <1>1, LeftSums, Zenon
<1>5. /\ Sum(LeftOf(a, b, over)) = over * SumE + ((-2 * a) * Len(points) + (-2 * b) * SumX)
      /\ Sum(LeftRate(a, b, over)) = over * SumXE + ((-2 * a) * SumX + (-2 * b) * SumXX)
  BY LeftSums, Zenon
<1>6. /\ (over * part) * e + ((-2 * (a * part)) * n + (-2 * (b * part)) * x)
             = part * (over * e + ((-2 * a) * n + (-2 * b) * x))
      /\ (over * part) * xe + ((-2 * (a * part)) * x + (-2 * (b * part)) * xx)
             = part * (over * xe + ((-2 * a) * x + (-2 * b) * xx))
  <2> HIDE DEF n, x, e, xx, xe
  <2> QED BY <1>3
<1>7. /\ Sum(LeftOf(a * part, b * part, over * part)) = part * Sum(LeftOf(a, b, over))
      /\ Sum(LeftRate(a * part, b * part, over * part)) = part * Sum(LeftRate(a, b, over))
  BY <1>4, <1>5, <1>6, Zenon
<1>8. part * 0 = 0
  OBVIOUS
<1> QED BY <1>7, <1>8, Zenon

LEMMA Best == IInv => BestFit
<1> SUFFICES ASSUME IInv PROVE BestFit
  OBVIOUS
<1> SUFFICES ASSUME NEW part \in 1 .. Parts,
                    NEW slope \in IF SlopeResolved THEN -Window .. Window ELSE {0},
                    NEW offset \in -Window .. Window
             PROVE  Residuals(Fit.offset * part, Fit.slope * part, Fit.over * part)
                      <= Residuals(offset * Fit.over, slope * Fit.over, Fit.over * part)
  BY FitBalances DEF BestFit
<1> DEFINE a == Fit.offset
           b == Fit.slope
           v == Fit.over
<1>1. /\ slope \in Int /\ offset \in Int /\ part \in Int
      /\ a \in Int /\ b \in Int /\ v \in Int
  BY PowerAssumption, FitBalances DEF PowerAssumption
<1>2. Sum(LeftOf(a, b, v)) = 0 /\ (SlopeResolved => Sum(LeftRate(a, b, v)) = 0)
  BY FitBalances
<1>3. ~SlopeResolved => slope = 0 /\ b = 0
  BY FitBalances
<1> HIDE DEF a, b, v
<1>4. /\ a * part \in Int /\ b * part \in Int /\ v * part \in Int
      /\ slope * v \in Int /\ offset * v \in Int
  <2> \A y, z \in Int : y * z \in Int
    OBVIOUS
  <2> QED BY <1>1
<1>5. Sum(LeftOf(a * part, b * part, v * part)) = 0
  <2>1. Sum(LeftOf(a, b, v)) = 0
    BY <1>2
  <2> QED BY <1>1, <2>1, Scaled, ZenonT(30)
<1>6. slope * v = b * part \/ Sum(LeftRate(a * part, b * part, v * part)) = 0
  <2>1. CASE SlopeResolved
    BY <1>1, <1>2, <2>1, Scaled, Zenon
  <2>2. CASE ~SlopeResolved
    BY <1>1, <1>3, <2>2
  <2> QED BY <2>1, <2>2
<1>7. Residuals(a * part, b * part, v * part) <= Residuals(offset * v, slope * v, v * part)
  BY <1>4, <1>5, <1>6, NoNearer
<1> QED BY <1>7 DEF a, b, v

-------------------------------------------------------------------------------
(* Theorems *)

(* Every variable holds a value of its kind, and no sample was taken while *)
(* the station did not charge (config_flow.py, async_step_add_sample).     *)
THEOREM TypeCorrect == Spec => []TypeOK
<1>1. IInv => TypeOK
  <2> DEFINE Kinds == [charge : Rates \ {0}, outReported : Int, outTrue : Int \cup {None},
                       inReported : Int, inTrue : Int \cup {None}]
  <2>1. Samples(glitches) \subseteq Kinds
    BY DEF Samples
  <2>2. points \in Seq(Samples(glitches)) => points \in Seq(Kinds)
    <3> HIDE DEF Kinds
    <3> QED BY <2>1
  <2> QED BY <2>2 DEF IInv, TypeOK
<1> QED BY <1>1, Inductive, PTL

(* Whatever the station leaves out, and whatever samples were taken and    *)
(* dropped, the corrected sensors show the true powers (calibration.py,    *)
(* fit_correction, CorrectionModel.watts).                                 *)
THEOREM TruthShown == Spec => []ShowsTheTruth
BY Truth, Inductive, PTL

(* However the meters contradict each other, no line of whatever Window    *)
(* and Parts, and so none with a rational offset and slope, is nearer to   *)
(* the samples than the fit, and nothing is divided by zero                *)
(* (calibration.py, fit_correction).                                       *)
THEOREM LeastSquares == Spec => []BestFit
BY Best, Inductive, PTL
===============================================================================
