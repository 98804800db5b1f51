----------------------------- MODULE PowerReadings -----------------------------
(***************************************************************************)
(* The correction of the power readings: sydpower/calibration.py, the      *)
(* samples the options flow feeds it (config_flow.py) and the sensors it   *)
(* corrects (sensor.py).                                                   *)
(*                                                                         *)
(* The station reports its output, and the total input it derives from it, *)
(* too low while it charges.  Here it does so by Offset + Slope * rate,    *)
(* and Offset, Slope are what the fit is to find.  Powers are whole watts; *)
(* what the code computes in floating point is a fraction, given by its    *)
(* numerators over a common denominator.                                   *)
(*                                                                         *)
(* A definition commented "Slip" is a variant of the one after it with a   *)
(* plausible mistake, and not part of the model.                           *)
(***************************************************************************)
EXTENDS Integers, Sequences, SequencesExt

CONSTANTS Rates,          \* charge powers, 0 when not charging
          Load,           \* the true output power
          Offset, Slope,  \* what the station leaves out while it charges
          Glitch,         \* how far a meter may be off
          MaxPoints,      \* bound: samples stored
          Window, Parts,  \* bounds: the lines a fit is compared with
          None            \* Python's None

PowerAssumption ==
  /\ Rates \subseteq Nat /\ Load \in Nat /\ MaxPoints \in Nat
  /\ Window \in Nat /\ Parts \in Nat \ {0}
  /\ Offset \in Int /\ Slope \in Int /\ Glitch \in Nat /\ None \notin Int
ASSUME PowerAssumption

VARIABLES
  rate,     \* input register 3, the charge power, which is accurate
  points,   \* the samples in the options
  glitches  \* history: the meter was off for one of them

vars == <<rate, points, glitches>>

Init == rate = 0 /\ points = <<>> /\ glitches = FALSE

(* Input registers 39 and 6: output, and input as output plus charge.      *)
OutReported == IF rate = 0 THEN Load ELSE Load - (Offset + Slope * rate)
InReported  == OutReported + rate

-------------------------------------------------------------------------------
(* fit_correction *)

(* CalibrationSample.error, twice: the mean of one or two differences.     *)
DoubleError(s) ==
  LET out == s.outTrue - s.outReported
      in  == s.inTrue - s.inReported
  IN IF s.inTrue = None THEN 2 * out ELSE IF s.outTrue = None THEN 2 * in ELSE out + in

(* sum(of[i] for i in samples)                                             *)
Sum(of) ==
  LET sum[i \in 0 .. Len(points)] == IF i = 0 THEN 0 ELSE sum[i - 1] + of[i]
  IN sum[Len(points)]

Charge == [i \in DOMAIN points |-> points[i].charge]
Errors == [i \in DOMAIN points |-> DoubleError(points[i])]

SumX  == Sum(Charge)
SumE  == Sum(Errors)
SumXX == Sum([i \in DOMAIN points |-> Charge[i] * Charge[i]])
SumXE == Sum([i \in DOMAIN points |-> Charge[i] * Errors[i]])

Spread == Len(points) * SumXX - SumX * SumX

DistinctRates == {points[i].charge : i \in DOMAIN points}

(* Slip: several samples are enough for a slope.                           *)
ResolvedByCount == Len(points) >= 2

SlopeResolved == \E x, y \in DistinctRates : x # y

(* Slip: the offset is the mean error, whatever the slope.                 *)
FitAroundTheMean ==
  IF points = <<>> THEN [offset |-> 0, slope |-> 0, over |-> 1]
  ELSE IF ~SlopeResolved THEN [offset |-> SumE, slope |-> 0, over |-> 2 * Len(points)]
  ELSE [offset |-> SumE * Spread,
        slope  |-> Len(points) * (Len(points) * SumXE - SumX * SumE),
        over   |-> 2 * Len(points) * Spread]

(* The model: offset and slope, both to be divided by over.                *)
Fit ==
  IF points = <<>> THEN [offset |-> 0, slope |-> 0, over |-> 1]
  ELSE IF ~SlopeResolved THEN [offset |-> SumE, slope |-> 0, over |-> 2 * Len(points)]
  ELSE LET slope == Len(points) * SumXE - SumX * SumE
       IN [offset |-> SumE * Spread - slope * SumX,
           slope  |-> Len(points) * slope,
           over   |-> 2 * Len(points) * Spread]

(* Slip: the correction applies when the station does not charge, too.     *)
WattsAlways(fit) == fit.offset + fit.slope * rate

(* CorrectionModel.watts, times over.                                      *)
Watts(fit) == IF rate <= 0 THEN 0 ELSE fit.offset + fit.slope * rate

(* native_value of a corrected sensor, times over.                         *)
Corrected(reported, fit) == reported * fit.over + Watts(fit)

-------------------------------------------------------------------------------
(* Slip: the readings are copied from the sensors.                         *)
AsShown(pair, off) ==
  [charge |-> rate,
   outReported |-> Corrected(OutReported, Fit) \div Fit.over,
   outTrue |-> IF "out" \in pair THEN Load + off ELSE None,
   inReported |-> Corrected(InReported, Fit) \div Fit.over,
   inTrue |-> IF "in" \in pair THEN Load + rate + off ELSE None]

(* The registers, uncorrected, and what the meters say: the output's, the  *)
(* input's, or both.                                                       *)
Sample(pair, off) ==
  [charge |-> rate,
   outReported |-> OutReported,
   outTrue |-> IF "out" \in pair THEN Load + off ELSE None,
   inReported |-> InReported,
   inTrue |-> IF "in" \in pair THEN Load + rate + off ELSE None]

(* Slip: a sample may be taken in pass-through.                            *)
AnyState == TRUE

Charging == rate # 0

(* async_step_add_sample: refused without a meter's figure, or while the   *)
(* station does not charge.                                                *)
AddSample ==
  /\ Charging /\ Len(points) < MaxPoints
  /\ \E pair \in (SUBSET {"out", "in"}) \ {{}}, off \in {0, Glitch} :
       /\ points' = Append(points, Sample(pair, off))
       /\ glitches' = (glitches \/ off # 0)
  /\ UNCHANGED rate

(* async_step_review_samples: one is dropped, or all are cleared.          *)
DropSample ==
  /\ \/ \E i \in DOMAIN points : points' = RemoveAt(points, i)
     \/ points' = <<>>
  /\ glitches' = (glitches /\ points' # <<>>)
  /\ UNCHANGED rate

RateChanges == rate' \in Rates /\ UNCHANGED <<points, glitches>>

Next == AddSample \/ DropSample \/ RateChanges

Spec == Init /\ [][Next]_vars

-------------------------------------------------------------------------------
(* Properties *)

(* Every variable holds a value of its kind, and samples are taken at a    *)
(* charge rate: one at zero would anchor the fit there and flatten it.     *)
TypeOK ==
  /\ rate \in Rates \cup {0} /\ glitches \in BOOLEAN
  /\ points \in Seq([charge : Rates \ {0}, outReported : Int, outTrue : Int \cup {None},
                     inReported : Int, inTrue : Int \cup {None}])

(* The sensors show the true powers, at every rate once the samples have   *)
(* two rates, at theirs if they have one, and when the station does not    *)
(* charge; whatever was added and dropped, by whichever meter, and though  *)
(* earlier samples were correcting the sensors when later ones were taken. *)
ShowsTheTruth ==
  ~glitches /\ (rate \in DistinctRates \cup {0} \/ SlopeResolved) =>
    LET fit == Fit
    IN /\ Corrected(OutReported, fit) = Load * fit.over
       /\ Corrected(InReported, fit)  = (Load + rate) * fit.over

(* What a line leaves of the errors, times 2 * over, squared and summed.   *)
Left(i, offset, slope, over) == Errors[i] * over - 2 * (offset + slope * Charge[i])

Residuals(offset, slope, over) ==
  Sum([i \in DOMAIN points |-> Left(i, offset, slope, over) * Left(i, offset, slope, over)])

(* "Least-squares fit": of the lines whose offset and slope are fractions  *)
(* -Window / part .. Window / part, for a part of 1 .. Parts, none is      *)
(* nearer to the samples, and of those without a slope none if the samples *)
(* share a rate; and the denominator is not zero.                          *)
BestFit ==
  LET fit    == Fit
      slopes == IF SlopeResolved THEN -Window .. Window ELSE {0}
  IN /\ fit.over > 0
     /\ \A part \in 1 .. Parts :
          \A least \in {Residuals(fit.offset * part, fit.slope * part, fit.over * part)} :
            \A slope \in slopes, offset \in -Window .. Window :
              least <= Residuals(offset * fit.over, slope * fit.over, fit.over * part)
===============================================================================
