---------------------------- MODULE DriverProofs ----------------------------
(*****************************************************************************)
(* Settings and samples of libmsisdr, each of four components by itself.     *)
(*                                                                           *)
(* What msisdr_set_tuner_gain sets is what msisdr_get_tuner_gain answers,    *)
(* and tuning leaves it alone, for every gain, every frequency plan and every *)
(* history of other calls (Tuner).  What the converters decode is what the   *)
(* device sends, and the registers give the rate, for every rate and every   *)
(* width of the fraction (SampleRate).                                       *)
(*                                                                           *)
(* The samples reach the user complete and in order, for every block         *)
(* length and every sequence of transfers (FeedAsync).  However many         *)
(* packets are lost and whenever the stream is restarted, no more than three *)
(* times the number of transfers are handed on without samples in a row      *)
(* (SyncLoss).                                                               *)
(*****************************************************************************)
EXTENDS Tuner, SampleRate, FeedAsync, SyncLoss, TLAPS

-----------------------------------------------------------------------------
(* Tuner.                                                                    *)

\* The first AM input is in no frequency plan: its 18 dB, instead of 24, would
\* make the sum wrong.
TunerInv == GainTypeOK /\ band \in {"AM2", "VHF", "3", "45", "L"}

USE TunerAssumption
USE DEF TunerInv, GainTypeOK, gainVars

LEMMA TunerInit == Init => TunerInv
BY DEF Init

\* The functions of soft.c change the band and leave the gains alone.
LEMMA SoftKeeps ==
  ASSUME TunerInv, SetSoft, UNCHANGED <<gain, gainVars>> PROVE TunerInv'
BY DEF SetSoft, BandAt

\* msisdr_set_tuner_gain, whoever calls it.
LEMMA TunerGainKeeps ==
  ASSUME TunerInv, NEW g \in Int, SetTunerGain(g)
  PROVE  TunerInv' /\ (gain' >= 0 => GetTunerGain' = gain')
<1>1. gain' = Clamped(g) /\ band' = band
  BY DEF SetTunerGain
<1>2. CASE g < 0
  BY <1>1, <1>2 DEF SetTunerGain, Clamped
<1>3. CASE g >= 0
  <2>1. Parts(Clamped(g)) /\ Clamped(g) \in 0 .. 102
    BY <1>3 DEF SetTunerGain, Clamped
  <2>2. CASE Clamped(g) >= 43
    BY <1>1, <2>1, <2>2 DEF Parts, GetTunerGain
  <2>3. CASE Clamped(g) < 43 /\ Clamped(g) >= 19
    BY <1>1, <2>1, <2>3 DEF Parts, GetTunerGain
  <2>4. CASE Clamped(g) < 19
    BY <1>1, <2>1, <2>4 DEF Parts, GetTunerGain
  <2> QED
    BY <2>1, <2>2, <2>3, <2>4
<1> QED
  BY <1>2, <1>3

LEMMA PartKeeps ==
  ASSUME TunerInv, NEW g \in PartGains,
         SetMixerGain(g) \/ SetMixbufferGain(g) \/ SetLnaGain(g) \/ SetBasebandGain(g)
  PROVE  TunerInv' /\ gain' = gain
BY DEF SetMixerGain, SetMixbufferGain, SetLnaGain, SetBasebandGain, Part

\* Every step keeps the invariant and shows the gain it sets.
LEMMA TunerStep ==
  ASSUME TunerInv, [Next]_vars
  PROVE  TunerInv' /\ (gain' # gain /\ gain' >= 0 => GetTunerGain' = gain')
<1>1. ASSUME NEW f \in Freqs, SetCenterFreq(f) PROVE TunerInv' /\ gain' = gain
  BY <1>1, SoftKeeps DEF SetCenterFreq
<1>2. ASSUME NEW k \in {0, 450, 1620, 2048}, SetIfFreq(k) PROVE TunerInv' /\ gain' = gain
  BY <1>2, SoftKeeps DEF SetIfFreq
<1>3. ASSUME NEW bw, NEW fast, SetBandwidth(bw, fast) PROVE TunerInv' /\ gain' = gain
  BY <1>3, SoftKeeps DEF SetBandwidth
<1>4. ASSUME NEW on, SetOffsetTuning(on) PROVE TunerInv' /\ gain' = gain
  BY <1>4, SoftKeeps DEF SetOffsetTuning
<1>5. ASSUME NEW g \in TunerGains, SetTunerGain(g) \/ SetGainByIndex(g)
      PROVE  TunerInv' /\ (gain' >= 0 => GetTunerGain' = gain')
  BY <1>5, TunerGainKeeps DEF SetGainByIndex
<1>6. ASSUME NEW percent \in Nat, SetGainByPerc(percent)
      PROVE  TunerInv' /\ (gain' >= 0 => GetTunerGain' = gain')
  <2> DEFINE k == (percent * 103) \div 100
  <2>1. (IF k >= 103 THEN 102 ELSE k) \in Int
    OBVIOUS
  <2> QED
    BY <1>6, <2>1, TunerGainKeeps DEF SetGainByPerc
<1>7. CASE UNCHANGED vars
  BY <1>7 DEF vars
<1> HIDE DEF TunerInv
<1> QED
  BY <1>1, <1>2, <1>3, <1>4, <1>5, <1>6, <1>7, PartKeeps DEF Next

\* The reductions stay in the range of their registers.
THEOREM GainTypes == Spec => []GainTypeOK
<1>1. TunerInv => GainTypeOK
  OBVIOUS
<1> HIDE DEF TunerInv, GainTypeOK
<1>2. TunerInv /\ [Next]_vars => TunerInv'
  BY TunerStep
<1> QED
  BY <1>1, <1>2, TunerInit, PTL DEF Spec

\* A gain that is set is read back, whatever was called before.
THEOREM GainIsRead == Spec => GainTakesEffect
<1> HIDE DEF TunerInv
<1>1. TunerInv /\ [Next]_vars =>
        TunerInv' /\ [gain' # gain /\ gain' >= 0 => GetTunerGain' = gain']_vars
  BY TunerStep
<1> QED
  BY <1>1, TunerInit, PTL DEF Spec, GainTakesEffect

-----------------------------------------------------------------------------
(* Retuning.                                                               *)

\* The modes that set a band; the other is left out, as its band depends on the
\* one before.
Modes == {"AM", "VHF", "B3", "B45", "BL"}

BandOf(mode) ==
  CASE mode = "AM" -> "AM2" [] mode = "VHF" -> "VHF" [] mode = "B3" -> "3"
    [] mode = "B45" -> "45" [] OTHER -> "L"

\* The frequency of msisdr_setup is in the fourth segment of either plan.
LEMMA StartsInVHF == Segment(90 * MHz).mode = "VHF"
<1> DEFINE In(k) == /\ 90 * MHz >= Plan[k].cut * MHz
                    /\ k = Len(Plan) \/ 90 * MHz < Plan[k + 1].cut * MHz
<1>1. /\ Len(Plan) = 9 /\ DOMAIN Plan = 1 .. 9
      /\ Plan[4].mode = "VHF" /\ Plan[4].cut = 50
      /\ Plan[2].cut <= 50 /\ Plan[3].cut <= 50
      /\ Plan[2].cut \in Nat /\ Plan[3].cut \in Nat
      /\ \A k \in 5 .. 9 : Plan[k].cut \in Nat /\ Plan[k].cut >= 108
  BY DEF Plan, Entry
<1>2. In(4)
  BY <1>1
<1>3. ASSUME NEW k \in 1 .. 9, In(k) PROVE k = 4
  <2>1. CASE k \in 1 .. 3
    BY <1>1, <1>3, <2>1
  <2>2. CASE k \in 5 .. 9
    BY <1>1, <1>3, <2>2
  <2> QED
    BY <2>1, <2>2
<1>4. (CHOOSE k \in DOMAIN Plan : In(k)) = 4
  BY <1>1, <1>2, <1>3
<1> QED
  BY <1>1, <1>4 DEF Segment

\* What is written follows what is remembered.
Retuned ==
  /\ soft.mode = Segment(freq).mode /\ soft.mode \in Modes
  /\ band = BandOf(soft.mode)
  /\ reg1 = GainRegister(band, lna, mixbuffer, mixer, baseband)

\* The gain that the chip applies when the LNA and the mixbuffer are set alike.
GainOfParts ==
  TunerInv /\ Retuned /\ mixbuffer = 3 * lna =>
    ChipGain = 59 - baseband + (IF lna = 0 THEN 24 ELSE 0) + (IF mixer = 0 THEN 19 ELSE 0)

LEMMA PartsTell == GainOfParts
BY DEF GainOfParts, Retuned, ChipGain, GainRegister, BandOf, Modes

LEMMA SoftRetunes ==
  ASSUME TunerInv, Retuned, SetSoft, UNCHANGED <<gain, gainVars>>,
         Segment(freq').mode \in Modes,
         SetGain \/ (freq' = freq /\ reg1' = reg1)
  PROVE  Retuned'
<1>1. soft'.mode = Segment(freq').mode /\ band' = BandAt(freq')
  BY DEF SetSoft
<1>2. band' = BandOf(soft'.mode)
  BY <1>1 DEF BandAt, BandOf, Modes
<1>3. reg1' = GainRegister(band', lna', mixbuffer', mixer', baseband')
  BY <1>1, <1>2 DEF SetGain, Retuned
<1> QED
  BY <1>1, <1>2, <1>3 DEF Retuned

LEMMA GainRetunes ==
  ASSUME TunerInv, Retuned, UNCHANGED <<freq, band, soft>>,
         SetGain \/ UNCHANGED <<gainVars, reg1>>
  PROVE  Retuned'
BY DEF Retuned, SetGain

\* If the segment without a band is not tuned to, tuning leaves the gain alone: for
\* every frequency plan, all other calls and every order of them.
THEOREM TuningKeepsGain ==
  ASSUME \A f \in Freqs : Segment(f).mode \in Modes
  PROVE  Spec => RetuneKeepsGain
<1> DEFINE IInv == TunerInv /\ Retuned
           Kept == soft' # soft /\ mixbuffer = 3 * lna => ChipGain' = ChipGain
<1>1. Init => IInv
  BY TunerInit, StartsInVHF DEF Init, Retuned, BandOf, Modes
<1>2. ASSUME IInv, [Next]_vars
      PROVE  Retuned' /\ (UNCHANGED soft \/ UNCHANGED gainVars)
  <2>1. ASSUME NEW f \in Freqs, SetCenterFreq(f)
        PROVE  Retuned' /\ UNCHANGED gainVars
    BY <1>2, <2>1, SoftRetunes DEF SetCenterFreq
  <2>2. Segment(freq).mode \in Modes
    BY <1>2 DEF Retuned
  <2>3. ASSUME NEW k, SetIfFreq(k) PROVE Retuned' /\ UNCHANGED gainVars
    BY <1>2, <2>2, <2>3, SoftRetunes DEF SetIfFreq
  <2>4. ASSUME NEW bw, NEW fast, SetBandwidth(bw, fast)
        PROVE  Retuned' /\ UNCHANGED gainVars
    BY <1>2, <2>2, <2>4, SoftRetunes DEF SetBandwidth
  <2>5. ASSUME NEW on, SetOffsetTuning(on) PROVE Retuned' /\ UNCHANGED gainVars
    BY <1>2, <2>2, <2>5, SoftRetunes DEF SetOffsetTuning
  <2>6. ASSUME NEW g, SetTunerGain(g) PROVE Retuned' /\ UNCHANGED soft
    BY <1>2, <2>6, GainRetunes DEF SetTunerGain
  <2>7. ASSUME NEW g, SetGainByIndex(g) \/ SetGainByPerc(g)
        PROVE  Retuned' /\ UNCHANGED soft
    BY <2>6, <2>7 DEF SetGainByIndex, SetGainByPerc
  <2>8. ASSUME NEW g, SetMixerGain(g) \/ SetMixbufferGain(g) \/ SetLnaGain(g)
                      \/ SetBasebandGain(g)
        PROVE  Retuned' /\ UNCHANGED soft
    BY <1>2, <2>8, GainRetunes
       DEF SetMixerGain, SetMixbufferGain, SetLnaGain, SetBasebandGain, Part
  <2>9. CASE UNCHANGED vars
    BY <1>2, <2>9, GainRetunes DEF vars
  <2> HIDE DEF TunerInv, gainVars
  <2> QED
    BY <1>2, <2>1, <2>3, <2>4, <2>5, <2>6, <2>7, <2>8, <2>9 DEF Next
<1>3. GainOfParts /\ GainOfParts'
  BY PartsTell, PTL
<1>4. ASSUME IInv, [Next]_vars PROVE IInv' /\ Kept
  <2>1. TunerInv' /\ Retuned'
    BY <1>2, <1>4, TunerStep
  <2>2. CASE UNCHANGED gainVars
    BY <1>3, <1>4, <2>1, <2>2 DEF GainOfParts
  <2> QED
    BY <1>2, <1>4, <2>1, <2>2
<1>5. IInv /\ [Next]_vars => IInv' /\ [Kept]_vars
  BY <1>4
<1> HIDE DEF IInv
<1> QED
  BY <1>1, <1>5, PTL DEF Spec, RetuneKeepsGain

-----------------------------------------------------------------------------
(* SampleRate.                                                               *)

HIDE DEF TunerInv, GainTypeOK, gainVars
USE RateAssumption

\* What the calls leave in rate, format_auto and format.
Asked == rate \in Nat /\ auto \in BOOLEAN /\ format \in Formats

\* As the program never sets a format while it streams, what is remembered is what
\* was written, whether the stream runs or not.
Remembered == format = registers.format /\ addr = Pairs[format] + 2

Written ==
  \E r \in Nat, a \in BOOLEAN, f \in Formats : SetHard(r, a, f)

LEMMA LimitedFits ==
  ASSUME NEW r \in Nat
  PROVE  Limited(r) \in Nat /\ MinRate <= Limited(r) /\ Limited(r) <= MaxRate
BY SMT DEF Limited, MinRate, MaxRate

LEMMA AutoFormatIsFormat == ASSUME NEW r \in Nat PROVE AutoFormat(r) \in Formats
BY SMT DEF AutoFormat, Formats

LEMMA WrittenKeeps == Written => Asked' /\ Remembered'
<1> SUFFICES ASSUME NEW r \in Nat, NEW a \in BOOLEAN, NEW f \in Formats, SetHard(r, a, f)
             PROVE  Asked' /\ Remembered'
  BY DEF Written
<1>1. rate' \in Nat
  BY LimitedFits DEF SetHard
<1>2. format' \in Formats
  BY <1>1, AutoFormatIsFormat DEF SetHard
<1> QED
  BY <1>1, <1>2 DEF SetHard, Asked, Remembered

\* A step writes the registers or leaves them alone, and the format with them.
LEMMA StepForms ==
  ASSUME Asked, [RateNext]_rateVars
  PROVE  /\ Asked'
         /\ \/ Written
            \/ /\ UNCHANGED <<addr, registers>>
               /\ FormatAnyTime \/ format' = format
<1> DEFINE Goal == /\ Asked'
                   /\ \/ Written
                      \/ /\ UNCHANGED <<addr, registers>>
                         /\ FormatAnyTime \/ format' = format
<1>1. ASSUME NEW r \in Nat, NEW a \in BOOLEAN, NEW f \in Formats, SetHard(r, a, f)
      PROVE  Goal
  BY <1>1, WrittenKeeps DEF Written
<1>2. ASSUME NEW r \in Nat, NEW a \in BOOLEAN, NEW f \in Formats, PauseFails(r, a, f),
             FormatAnyTime \/ f = format
      PROVE  Goal
  BY <1>2 DEF PauseFails, Asked
<1>3. ASSUME NEW r \in Rates, SetSampleRate(r) PROVE Goal
  BY <1>1, <1>2, <1>3 DEF SetSampleRate, Asked
<1>4. ASSUME NEW f \in Formats, SetSampleFormat(f) PROVE Goal
  <2>1. CASE PauseFails(rate, FALSE, f)
    BY <1>2, <1>4, <2>1 DEF SetSampleFormat, FormatTime, PauseFails, Asked
  <2> QED
    BY <1>1, <1>4, <2>1 DEF SetSampleFormat, Asked
<1>5. CASE SetSampleFormatAuto
  BY <1>1, <1>2, <1>5 DEF SetSampleFormatAuto, Asked
<1>6. CASE UnsupportedFormat
  BY <1>6 DEF UnsupportedFormat, Asked
<1>7. CASE Stream
  BY <1>7 DEF Stream, Asked
<1>8. CASE UNCHANGED rateVars
  BY <1>8 DEF rateVars, Asked
<1> QED
  BY <1>3, <1>4, <1>5, <1>6, <1>7, <1>8 DEF RateNext

LEMMA InitAsks == RateInit => Asked /\ Remembered
BY SMT DEF RateInit, Asked, Remembered, Formats, Pairs

\* If the format is set before the stream only, as openAsync does, the callback
\* decodes by the format the device sends, whatever fails in between.
THEOREM DecodesByRegister ==
  ASSUME ~FormatAnyTime PROVE RateSpec => []DecodesWhatIsSent
<1> DEFINE IInv == Asked /\ Remembered
<1>1. RateInit => IInv
  BY InitAsks
<1>2. IInv /\ [RateNext]_rateVars => IInv'
  BY StepForms, WrittenKeeps DEF Remembered
<1>3. IInv => DecodesWhatIsSent
  BY DEF Remembered, DecodesWhatIsSent
<1> QED
  BY <1>1, <1>2, <1>3, PTL DEF RateSpec

-----------------------------------------------------------------------------
(* The registers.                                                          *)

Dividers == {4, 6, 8, 10, 12, 14}

\* Within the range of the device the divider is one of its six, and makes an
\* oscillator between 202 and 720 MHz.
LEMMA DividerFits ==
  ASSUME NEW r \in Nat, MinRate <= r, r <= MaxRate
  PROVE  /\ Divider(r) \in Dividers
         /\ Oscillator(r) \in Nat
         /\ 202000000 <= Oscillator(r) /\ Oscillator(r) <= 720000000
<1> DEFINE Slow(n) == r * n * 12 < 202000000
           First(n) == /\ ~Slow(n) \/ n = 14
                       /\ \A j \in Dividers : j < n => Slow(j)
<1>1. 1300000 <= r /\ r <= 15000000
  BY SMT DEF MinRate, MaxRate
<1>2. \E n \in Dividers : First(n)
  <2> HIDE DEF Slow
  <2>1. CASE ~Slow(4)
    BY SMT, <2>1 DEF Dividers
  <2>2. CASE Slow(4) /\ ~Slow(6)
    BY SMT, <2>2 DEF Dividers
  <2>3. CASE Slow(4) /\ Slow(6) /\ ~Slow(8)
    BY SMT, <2>3 DEF Dividers
  <2>4. CASE Slow(4) /\ Slow(6) /\ Slow(8) /\ ~Slow(10)
    BY SMT, <2>4 DEF Dividers
  <2>5. CASE Slow(4) /\ Slow(6) /\ Slow(8) /\ Slow(10) /\ ~Slow(12)
    BY SMT, <2>5 DEF Dividers
  <2>6. CASE Slow(4) /\ Slow(6) /\ Slow(8) /\ Slow(10) /\ Slow(12)
    BY SMT, <2>6 DEF Dividers
  <2> QED
    BY SMT, <2>1, <2>2, <2>3, <2>4, <2>5, <2>6
<1>3. Divider(r) = CHOOSE n \in Dividers : First(n)
  <2>1. \A n \in Dividers : r * n * 12 \in Int
    BY SMT, <1>1 DEF Dividers
  <2> QED
    BY SMT, <2>1 DEF Divider, Dividers
<1>4. Divider(r) \in Dividers /\ First(Divider(r))
  BY SMT, <1>2, <1>3
<1>5. ASSUME NEW n \in Dividers, First(n)
      PROVE  /\ r * n * 12 \in Nat
             /\ 202000000 <= r * n * 12 /\ r * n * 12 <= 720000000
  BY SMT, <1>1, <1>5 DEF Dividers
<1> QED
  BY SMT, <1>4, <1>5 DEF Oscillator

LEMMA DivisionFacts ==
  ASSUME NEW a \in Nat, NEW b \in Nat \ {0}
  PROVE  /\ a \div b \in Nat /\ a % b \in Nat
         /\ a = b * (a \div b) + (a % b) /\ a % b < b
BY SMT

\* A number below the divisor is its own remainder.
LEMMA SmallRemainder ==
  ASSUME NEW a \in Nat, NEW b \in Nat \ {0}, a < b
  PROVE  a % b = a
BY SMT

LEMMA QuotientBounds ==
  ASSUME NEW a \in Nat, NEW b \in Nat \ {0}
  PROVE  b * (a \div b) <= a /\ a < b * (a \div b) + b
BY SMT, DivisionFacts

LEMMA FactorLess ==
  ASSUME NEW k \in Nat \ {0}, NEW a \in Int, NEW b \in Int, k * a < k * b
  PROVE  a < b
BY SMT

\* A quotient is below every number whose product exceeds the dividend.
LEMMA QuotientLess ==
  ASSUME NEW a \in Nat, NEW b \in Nat \ {0}, NEW c \in Nat, a < b * c
  PROVE  a \div b < c
<1>1. b * (a \div b) < b * c
  BY SMT, DivisionFacts
<1> QED
  BY SMT, <1>1, DivisionFacts, FactorLess

\* What is lost when m, of M, is kept as a number of steps, of S.
LEMMA FractionLoses ==
  ASSUME NEW S \in Nat \ {0}, NEW M \in Nat \ {0}, NEW m \in Nat, m < M,
         NEW f \in Nat, f = (S * m) \div M,
         NEW q \in Nat, q = (f * M) \div S
  PROVE  /\ f < S
         /\ 0 <= m - q /\ m - q <= M \div S + 1
<1>1. S * m \in Nat /\ f * M \in Nat
  BY SMT
<1>2. M * f <= S * m /\ S * m < M * f + M
  BY <1>1, QuotientBounds
<1>3. S * q <= M * f /\ M * f < S * q + S
  <2>1. S * q <= f * M /\ f * M < S * q + S
    BY <1>1, QuotientBounds
  <2>2. f * M = M * f
    BY SMT
  <2> QED
    BY <2>1, <2>2
<1>4. f < S
  <2>1. S * m < M * S
    BY SMT
  <2> QED
    BY SMTT(30), <1>1, <2>1, QuotientLess
<1>5. q <= m
  <2>1. S * q < S * (m + 1)
    BY SMT, <1>2, <1>3
  <2> QED
    BY SMT, <2>1, FactorLess
<1>6. m - q < M \div S + 2
  <2>1. M \div S \in Nat /\ M < S * (M \div S) + S
    BY SMT, DivisionFacts
  <2>2. S * (m - q) < S + M
    BY SMT, <1>2, <1>3
  <2>3. S * (m - q) < S * (M \div S + 2)
    BY SMT, <2>1, <2>2
  <2> QED
    BY SMT, <2>1, <2>3, FactorLess
<1> QED
  BY SMT, <1>4, <1>5, <1>6, DivisionFacts

\* What is written for a rate within the range gives it.
LEMMA RegisterGives ==
  ASSUME NEW r \in Nat, MinRate <= r, r <= MaxRate
  PROVE  Gives(Register(r), r) /\ Register(r).n \in 4 .. 15
<1> DEFINE F == Oscillator(r)
           n == F \div 48000000
           m == F % 48000000
           f == (RateSteps * m) \div 48000000
           q == (f * 48000000) \div RateSteps
<1>1. /\ F \in Nat /\ 202000000 <= F /\ F <= 720000000
      /\ r * (2 * ((Divider(r) \div 2 - 1) % 8) + 2) * 12 = F
  BY SMT, DividerFits DEF Oscillator, Dividers
<1>2. n \in 4 .. 15 /\ m \in Nat /\ m < 48000000 /\ F = 48000000 * n + m
  BY SMT, <1>1
<1>3. f \in Nat /\ q \in Nat
  <2>1. RateSteps * m \in Nat
    BY SMT, <1>2
  <2>2. f \in Nat
    BY SMT, <2>1, DivisionFacts
  <2>3. f * 48000000 \in Nat
    BY SMT, <2>2
  <2> QED
    BY SMT, <2>2, <2>3, DivisionFacts
<1>4. f < RateSteps /\ 0 <= m - q /\ m - q <= 48000000 \div RateSteps + 1
  <2> HIDE DEF m
  <2>1. f = (RateSteps * m) \div 48000000 /\ q = (f * 48000000) \div RateSteps
    BY SMT
  <2> HIDE DEF f, q
  <2>2. PICK M \in Nat \ {0} : M = 48000000
    BY SMT
  <2>3. m < M /\ f = (RateSteps * m) \div M /\ q = (f * M) \div RateSteps
    BY SMT, <1>2, <2>1, <2>2
  <2>4. f < RateSteps /\ 0 <= m - q /\ m - q <= M \div RateSteps + 1
    <3>1. m \in Nat
      BY SMT, <1>2
    <3> QED
      BY <1>3, <2>3, <3>1, FractionLoses
  <2> QED
    BY SMT, <2>2, <2>4
<1>5. n % 16 = n /\ f % RateSteps = f
  <2> HIDE DEF F, n, m, f, q
  <2>1. n \in Nat /\ n < 16
    BY SMT, <1>2
  <2>2. RateSteps \in Nat \ {0}
    BY RateAssumption
  <2> QED
    BY <1>3, <1>4, <2>1, <2>2, SmallRemainder
<1>6. /\ Register(r).divider = (Divider(r) \div 2 - 1) % 8
      /\ Register(r).n = n /\ Register(r).fract = f
  BY SMT, <1>5 DEF Register
<1>7. 48000000 \div RateSteps \in Nat
  BY SMT, DivisionFacts
<1> HIDE DEF F, n, m, f, q
<1>8. F - n * 48000000 - q = m - q
  BY SMT, <1>1, <1>2
<1>9. F - n * 48000000 - q \in 0 .. 48000000 \div RateSteps + 1
  BY SMT, <1>2, <1>3, <1>4, <1>7, <1>8
<1> QED
  BY SMT, <1>1, <1>2, <1>6, <1>9 DEF Gives, q

LEMMA AutoFormatCarries ==
  ASSUME NEW r \in Nat PROVE Carries(AutoFormat(r), r)
BY SMT DEF Carries, AutoFormat, Formats, Pairs

\* Whenever the registers are written they give the rate that is remembered, for
\* every rate that is asked for and every width of the fraction.
THEOREM RegistersFollowRate == RateSpec => RegistersGiveRate
<1> DEFINE Right == /\ Gives(registers'.rate, rate')
                    /\ registers'.rate.n \in 4 .. 15
                    /\ auto' => Carries(format', rate')
<1>1. Written => Right
  <2> SUFFICES ASSUME NEW r \in Nat, NEW a \in BOOLEAN, NEW f \in Formats, SetHard(r, a, f)
               PROVE  Right
    BY DEF Written
  <2>1. rate' \in Nat /\ MinRate <= rate' /\ rate' <= MaxRate
    BY LimitedFits DEF SetHard
  <2>2. registers'.rate = Register(rate') /\ (auto' => format' = AutoFormat(rate'))
    BY DEF SetHard
  <2> QED
    BY <2>1, <2>2, RegisterGives, AutoFormatCarries
<1>2. Asked /\ [RateNext]_rateVars => [registers' # registers => Right]_rateVars
  BY <1>1, StepForms
<1>3. RateInit => Asked
  BY InitAsks
<1>4. Asked /\ [RateNext]_rateVars => Asked'
  BY StepForms
<1> QED
  BY <1>2, <1>3, <1>4, PTL DEF RateSpec, RegistersGiveRate

-----------------------------------------------------------------------------
(* FeedAsync.                                                                *)

USE FeedAssumption
USE DEF Buffers, Sample

LEMMA FeedStart == FeedInit => FeedInv
BY DEF FeedInit, FeedInv, FeedTypeOK, RestWaits, LoopInv

\* One step for each case of the function.
LEMMA FeedStep == FeedInv /\ [FeedNext]_feedVars => FeedInv'
<1> SUFFICES ASSUME FeedInv, [FeedNext]_feedVars PROVE FeedInv'
  OBVIOUS
<1> USE DEF FeedInv, FeedTypeOK, RestWaits, LoopInv
<1>1. ASSUME NEW n \in 1 .. MaxBytes, Feed(n) PROVE FeedInv'
  <2>1. CASE Direct(n)
    BY <2>1 DEF Direct, Received, HandOn
  <2>2. CASE Exact(n)
    BY <2>2 DEF Exact, Received, HandOn
  <2>3. CASE Short(n)
    BY <2>3 DEF Short, Received, Stored
  <2>4. CASE Completes(n)
    BY <2>4 DEF Completes, Received, HandOnBuffer, Stored
  <2>5. CASE Long(n)
    BY <2>5 DEF Long, Received
  <2>6. CASE CompletesMore(n)
    BY <2>6 DEF CompletesMore, Received, HandOnBuffer, Stored
  <2> QED
    BY <1>1, <2>1, <2>2, <2>3, <2>4, <2>5, <2>6 DEF Feed
<1>2. CASE LoopBlock
  BY <1>2 DEF LoopBlock, HandOn
<1>3. CASE LoopRest
  <2>1. outLen > 0 /\ i <= bytes /\ i + outLen > bytes /\ pc' = "idle"
    BY <1>3 DEF LoopRest
  <2>2. CASE bytes > i
    <3>1. pos' = bytes - i /\ buf' = Stored(0, fed - bytes, i, bytes - i)
      BY <1>3, <2>2 DEF LoopRest
    <3>2. \A k \in 0 .. pos' - 1 : buf'[k] = taken' + k
      <4>1. taken' = fed - bytes + i /\ bytes - i < outLen
        BY <1>3, <2>1 DEF LoopRest
      <4>2. ASSUME NEW k \in 0 .. bytes - i - 1 PROVE buf'[k] = fed - bytes + i + k
        <5>1. k \in 0 .. outLen - 1
          BY <4>1
        <5>2. buf'[k] = (fed - bytes) + (i + k - 0)
          BY <3>1, <5>1 DEF Stored
        <5> QED
          BY <5>2
      <4> QED
        BY <3>1, <4>1, <4>2
    <3>3. FeedTypeOK'
      <4>1. outLen' = outLen /\ fed' = fed /\ taken' = taken /\ i' = 0 /\ bytes' = 0
        BY <1>3 DEF LoopRest
      <4>2. buf' \in [0 .. outLen - 1 -> Int]
        BY <2>1, <3>1 DEF Stored
      <4> QED
        BY <2>1, <2>2, <3>1, <4>1, <4>2
    <3> QED
      BY <1>3, <2>1, <2>2, <3>1, <3>2, <3>3 DEF LoopRest
  <2>3. CASE ~(bytes > i)
    BY <1>3, <2>1, <2>3 DEF LoopRest
  <2> QED
    BY <2>2, <2>3
<1>4. CASE Restart
  BY <1>4 DEF Restart
<1>5. CASE UNCHANGED feedVars
  BY <1>5 DEF feedVars
<1> HIDE DEF FeedInv
<1> QED
  BY <1>1, <1>2, <1>3, <1>4, <1>5 DEF FeedNext

\* The cutting of the stream keeps its books in every reachable state.
THEOREM FeedInvariant == FeedSpec => []FeedInv
BY FeedStart, FeedStep, PTL DEF FeedSpec

\* Between two transfers no byte is missing and less than a block waits.
THEOREM RestWaitsTheorem == FeedSpec => []RestWaits
<1>1. FeedInv => RestWaits
  BY DEF FeedInv
<1> QED
  BY <1>1, FeedInvariant, PTL

\* Every byte is handed on once and in order.
THEOREM BytesInOrder == FeedSpec => NextBytes
<1>1. FeedInv /\ [FeedNext]_feedVars =>
        [taken' > taken /\ ~Restart =>
           block' = [k \in 0 .. taken' - taken - 1 |-> taken + k]]_feedVars
  <2> SUFFICES ASSUME FeedInv, FeedNext, ~Restart, taken' > taken
               PROVE  block' = [k \in 0 .. taken' - taken - 1 |-> taken + k]
    OBVIOUS
  <2> USE DEF FeedInv, FeedTypeOK, RestWaits, LoopInv
  <2>1. ASSUME NEW n \in 1 .. MaxBytes, Feed(n)
        PROVE  block' = [k \in 0 .. taken' - taken - 1 |-> taken + k]
    <3>1. CASE Direct(n)
      BY <3>1 DEF Direct, Received, HandOn
    <3>2. CASE Exact(n)
      BY <3>2 DEF Exact, Received, HandOn
    <3>3. CASE Short(n)
      BY <3>3 DEF Short
    <3>4. CASE Completes(n)
      BY <3>4 DEF Completes, Received, HandOnBuffer, Stored
    <3>5. CASE Long(n)
      BY <3>5 DEF Long
    <3>6. CASE CompletesMore(n)
      BY <3>6 DEF CompletesMore, Received, HandOnBuffer, Stored
    <3> QED
      BY <2>1, <3>1, <3>2, <3>3, <3>4, <3>5, <3>6 DEF Feed
  <2>2. CASE LoopBlock
    BY <2>2 DEF LoopBlock, HandOn
  <2>3. CASE LoopRest
    BY <2>3 DEF LoopRest
  <2> QED
    BY <2>1, <2>2, <2>3 DEF FeedNext
<1> QED
  BY <1>1, FeedInvariant, PTL DEF FeedSpec, NextBytes

-----------------------------------------------------------------------------
(* SyncLoss.                                                                 *)

HIDE DEF Buffers, Sample
USE SyncAssumption
USE DEF Transfers

LEMMA SyncStart == SyncInit => SyncInv
<1> SUFFICES ASSUME SyncInit PROVE SyncInv
  OBVIOUS
<1>1. InOrder \in Seq(Transfers) /\ Len(InOrder) = N
  BY DEF InOrder
<1>2. SyncTypeOK
  BY <1>1 DEF SyncInit, SyncTypeOK
<1> QED
  BY <1>2 DEF SyncInit, SyncInv

\* What the queue is after the first transfer has been submitted again.
LEMMA Resubmitted ==
  ASSUME SyncTypeOK, Resubmit(Head(queue))
  PROVE  /\ Head(queue) \in Transfers /\ Head(queue) = queue[1]
         /\ queue' \in Seq(Transfers) /\ Len(queue') = N
         /\ queue'[N] = Head(queue)
         /\ \A p \in 1 .. N - 1 : queue'[p] = queue[p + 1]
<1>1. queue \in Seq(Transfers) /\ Len(queue) = N /\ N >= 2 /\ queue # <<>>
  BY DEF SyncTypeOK
<1>2. Head(queue) \in Transfers /\ Head(queue) = queue[1]
  BY <1>1
<1>3. /\ Tail(queue) \in Seq(Transfers) /\ Len(Tail(queue)) = N - 1
      /\ \A p \in 1 .. N - 1 : Tail(queue)[p] = queue[p + 1]
  BY <1>1
<1>4. queue' = Append(Tail(queue), Head(queue))
  BY DEF Resubmit
<1> HIDE DEF Transfers
<1> QED
  BY <1>1, <1>2, <1>3, <1>4

\* A loss leaves the counts behind, whatever the position.
LEMMA Forgets ==
  ASSUME SyncTypeOK', bad' = 0 PROVE SyncInv'
<1>1. count' \in 1 - N .. N /\ N \in Nat
  BY DEF SyncTypeOK
<1>2. \A c \in 1 - N .. N : 0 < c + N
  OBVIOUS
<1>3. bad' < count' + N
  <2>1. 0 < count' + N
    BY <1>1, <1>2
  <2> QED
    BY <2>1, bad' = 0
<1>4. bad' <= 3 * N
  BY <1>1
<1> QED
  BY <1>3, <1>4 DEF SyncInv

LEMMA CompleteKeeps ==
  ASSUME SyncInv, NEW lost \in 0 .. 2, Complete(lost),
         disturbances' \in 0 .. MaxDisturbances
  PROVE  SyncInv'
<1> DEFINE x == Head(queue)
           losses == IF InSync THEN count ELSE count + 1
<1>1. SyncTypeOK
  BY DEF SyncInv
<1>2. Resubmit(x) /\ Count(x, losses)
  BY DEF Complete
<1>3. /\ x \in Transfers /\ x = queue[1]
      /\ queue' \in Seq(Transfers) /\ Len(queue') = N
      /\ queue'[N] = x
      /\ \A p \in 1 .. N - 1 : queue'[p] = queue[p + 1]
  BY <1>1, <1>2, Resubmitted
<1>4. losses \in Int /\ losses <= N + 1 /\ losses >= 1 - N
  BY <1>1 DEF SyncTypeOK
<1>5. count' \in 1 - N .. N /\ length' \in [Transfers -> {"full", "short"}]
  <2>1. length \in [Transfers -> {"full", "short"}]
    BY <1>1 DEF SyncTypeOK
  <2> HIDE DEF losses, x, Transfers
  <2>2. CASE losses > N
    BY <1>2, <1>4, <2>1, <2>2 DEF Count
  <2>3. CASE losses <= N
    BY <1>2, <1>4, <2>1, <2>3 DEF Count
  <2> QED
    BY <1>4, <2>2, <2>3
<1>6. half' \in 0 .. 1 /\ expected' \in BOOLEAN /\ bad' \in Nat
  BY <1>1 DEF Complete, SyncTypeOK
<1>7. SyncTypeOK'
  BY <1>3, <1>5, <1>6 DEF SyncTypeOK
<1>8. CASE bad' = 0
  BY <1>1, <1>7, <1>8, Forgets
<1>9. CASE bad' # 0
  <2>1. lost = 0 /\ half = 1 /\ bad' = bad + 1 /\ losses = count + 1
    BY <1>1, <1>9 DEF Complete, SyncTypeOK, InSync
  <2>2. half' = IF length[x] = "short" THEN 0 ELSE 1
    BY <2>1 DEF Complete
  <2>3. bad' <= 3 * N
    BY <1>1, <2>1 DEF SyncInv, SyncTypeOK
  <2>4. CASE losses > N /\ bad < count + N
    <3>1. bad' <= 3 * N - N
      BY <1>1, <2>1, <2>4 DEF SyncTypeOK
    <3>2. length'[queue'[N]] = "short"
      BY <1>1, <1>2, <1>3, <2>4 DEF Count, SyncTypeOK
    <3> QED
      BY <1>7, <2>3, <3>1, <3>2 DEF SyncInv
  <2>5. CASE losses <= N /\ bad < count + N
    <3>1. count' = count + 1
      BY <1>2, <2>1, <2>5, <1>4 DEF Count
    <3>2. bad' < count' + N
      BY <1>1, <2>1, <2>5, <3>1 DEF SyncTypeOK
    <3> QED
      BY <1>7, <2>3, <3>2 DEF SyncInv
  <2>6. ASSUME NEW p \in Transfers, length[queue[p]] = "short", bad <= 3 * N - p
        PROVE  SyncInv'
    <3>1. CASE p = 1
      BY <1>3, <1>7, <2>2, <2>3, <2>6, <3>1 DEF SyncInv
    <3>2. CASE p # 1 /\ (queue[p] # x \/ losses > N)
      <4>1. p - 1 \in 1 .. N - 1 /\ queue'[p - 1] = queue[p] /\ queue[p] \in Transfers
        BY SMTT(30), <1>1, <1>3, <2>6, <3>2 DEF SyncTypeOK
      <4>2. length'[queue'[p - 1]] = "short"
        BY SMTT(30), <1>1, <1>2, <1>3, <2>6, <3>2, <4>1 DEF Count, SyncTypeOK
      <4>3. bad' <= 3 * N - (p - 1)
        BY <1>1, <2>1, <2>6 DEF SyncTypeOK
      <4>4. p - 1 \in Transfers
        BY <4>1
      <4> QED
        BY <1>7, <2>3, <4>2, <4>3, <4>4 DEF SyncInv
    <3>3. CASE queue[p] = x
      BY <1>7, <2>2, <2>3, <2>6, <3>3 DEF SyncInv
    <3> QED
      BY <3>1, <3>2, <3>3
  <2> QED
    BY <1>4, <2>1, <2>4, <2>5, <2>6 DEF SyncInv
<1> QED
  BY <1>8, <1>9

LEMMA SyncStep == SyncInv /\ [SyncNext]_syncVars => SyncInv'
<1> SUFFICES ASSUME SyncInv, [SyncNext]_syncVars PROVE SyncInv'
  OBVIOUS
<1>1. SyncTypeOK
  BY DEF SyncInv
<1>2. CASE Filled
  BY <1>1, <1>2, CompleteKeeps DEF Filled, SyncTypeOK
<1>3. ASSUME NEW packets \in 1 .. 2, Lose(packets) PROVE SyncInv'
  <2>1. half' \in 0 .. 1 /\ disturbances' \in 0 .. MaxDisturbances
    BY <1>1, <1>3 DEF SyncTypeOK, Lose, Disturbance
  <2>2. expected' \in BOOLEAN
    BY <1>3, Zenon DEF Lose
  <2>3. SyncTypeOK'
    BY <1>1, <1>3, <2>1, <2>2 DEF SyncTypeOK, Lose
  <2> QED
    BY <1>1, <1>3, <2>3, Forgets DEF Lose
<1>4. ASSUME NEW packets \in 1 .. 2, LoseWithin(packets) PROVE SyncInv'
  BY <1>1, <1>4, CompleteKeeps DEF LoseWithin, Disturbance, SyncTypeOK
<1>5. ASSUME NEW packets \in 0 .. 1, Fail(packets) PROVE SyncInv'
  <2>1. queue' \in Seq(Transfers) /\ Len(queue') = N
    BY <1>1, <1>5, Resubmitted DEF Fail
  <2>2. SyncTypeOK'
    BY <1>1, <1>5, <2>1 DEF SyncTypeOK, Fail, Disturbance
  <2> QED
    BY <1>1, <1>5, <2>2, Forgets DEF Fail
<1>6. CASE StreamRestart
  <2>1. InOrder \in Seq(Transfers) /\ Len(InOrder) = N
    BY DEF InOrder
  <2>2. SyncTypeOK'
    BY <1>1, <1>6, <2>1 DEF SyncTypeOK, StreamRestart, Disturbance
  <2> QED
    BY <1>1, <1>6, <2>2, Forgets DEF StreamRestart
<1>7. CASE UNCHANGED syncVars
  BY <1>7 DEF syncVars, SyncInv, SyncTypeOK
<1> QED
  BY <1>2, <1>3, <1>4, <1>5, <1>6, <1>7 DEF SyncNext

\* In every state, transfers without samples are counted or about to be repaired.
THEOREM SyncInvariant == SyncSpec => []SyncInv
BY SyncStart, SyncStep, PTL DEF SyncSpec

\* A loss is repaired within three times the number of transfers, for every number.
THEOREM LossIsRepaired == SyncSpec => []GarbageBounded
<1>1. SyncInv => GarbageBounded
  BY DEF SyncInv, SyncTypeOK, GarbageBounded
<1> QED
  BY <1>1, SyncInvariant, PTL

=============================================================================
