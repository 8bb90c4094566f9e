------------------------------- MODULE Tuner -------------------------------
(***************************************************************************)
(* soft.c and gain.c: what the driver remembers of the tuner and what it   *)
(* has last written to its registers.  Every function of soft.c rewrites   *)
(* the band, filter and synthesizer registers from what is remembered, and *)
(* most rewrite the gain register as well, because what is written there   *)
(* depends on the band.                                                    *)
(*                                                                         *)
(* Frequencies are in any unit of which MHz make a megahertz, and the two  *)
(* fractions of the synthesizer have Steps steps, so that a model can be   *)
(* coarser than the device (MHz = 10^6 and Steps = 4096).                  *)
(***************************************************************************)
EXTENDS Integers, Sequences

CONSTANTS
  MHz, Steps,
  Flavour,    \* p->hw_flavour: "default" or "sdrplay"
  Freqs,      \* the frequencies that are set
  TunerGains, \* the gains that are set as a whole ...
  PartGains   \* ... and part by part

ASSUME TunerAssumption ==
  /\ MHz \in Nat \ {0} /\ Steps \in Nat \ {0, 1, 2}
  /\ Flavour \in {"default", "sdrplay"}
  /\ Freqs \subseteq Nat /\ TunerGains \subseteq Int /\ PartGains \subseteq 0 .. 59

VARIABLES
  freq, band,           \* p->freq, p->band
  ifreq, bandwidth,     \* p->if_freq in kHz, p->bandwidth in kHz
  gain,                 \* p->gain
  lna, mixbuffer, mixer, baseband,   \* p->gain_reduction_...
  soft,                 \* the registers written by msisdr_set_soft
  reg1                  \* the gain register

gainVars == <<lna, mixbuffer, mixer, baseband>>

vars == <<freq, band, ifreq, bandwidth, gain, gainVars, soft, reg1>>

-----------------------------------------------------------------------------
(* The frequency plans.                                                    *)

Entry(cut, mode, div) == [cut |-> cut, mode |-> mode, div |-> div]

\* Mode 6 of the code is VHF and B3 at once.
Both == "VHF+B3"

Plan ==
  IF Flavour = "default"
    THEN <<Entry(0, "AM", 16), Entry(12, "AM", 16), Entry(30, "AM", 16),
           Entry(50, "VHF", 32), Entry(108, "B3", 16), Entry(250, "B3", 16),
           Entry(259, Both, 8), Entry(330, "B45", 4), Entry(960, "BL", 2)>>
    ELSE <<Entry(0, "AM", 16), Entry(12, "AM", 16), Entry(30, "AM", 16),
           Entry(50, "VHF", 32), Entry(112, "B3", 16), Entry(250, "B3", 16),
           Entry(261, Both, 8), Entry(404, "B45", 4), Entry(1000, "BL", 2)>>

\* The last entry that starts at or below f.
Segment(f) ==
  LET k == CHOOSE k \in DOMAIN Plan :
             /\ f >= Plan[k].cut * MHz
             /\ k = Len(Plan) \/ f < Plan[k + 1].cut * MHz
  IN Plan[k]

\* Both is none of the cases of the code: the band stays what it was.
BandAt(f) ==
  CASE Segment(f).mode = "AM"  -> "AM2"
    [] Segment(f).mode = "VHF" -> "VHF"
    [] Segment(f).mode = "B3"  -> "3"
    [] Segment(f).mode = "B45" -> "45"
    [] Segment(f).mode = "BL"  -> "L"
    [] OTHER -> band

-----------------------------------------------------------------------------
(* The synthesizer: 96 MHz * (n + (frac + afc / Steps) / thresh) / div.    *)

Ref == 96 * MHz

Offset(f) == IF Segment(f).mode = "AM" THEN 120 * MHz ELSE 0

Gcd[x \in Nat, y \in Nat] == IF x = 0 THEN y ELSE Gcd[y % x, x]

\* Division to the nearest.
Rounded(x, by) == (x + by \div 2) \div by

\* A mutant of Fraction: a fraction that was rounded up is not taken back.
FractionUp(f, n, thresh, frac) == frac

\* The fine steps can only add to the fraction: one that was rounded up is
\* taken back.
Fraction(f, n, thresh, frac) ==
  LET div == Segment(f).div
      reached == (Ref * (n * thresh * Steps + frac * Steps)) \div (thresh * Steps * div)
  IN IF f + Offset(f) < reached THEN frac - 1 ELSE frac

Synthesizer(f) ==
  LET div  == Segment(f).div
      fvco == (f + Offset(f)) * div
      n    == fvco \div Ref
      \* thresh and frac in lowest terms, and reduced to the width of a register
      t    == Ref \div div
      r    == (fvco % Ref) \div div
      g    == Gcd[t, r]
      by   == (t \div g + Steps - 2) \div (Steps - 1)
      thresh == Rounded(t \div g, by)
      frac == Fraction(f, n, thresh, Rounded(r \div g, by))
      coarse == (Ref * (n * thresh * Steps + frac * Steps)) \div (thresh * Steps * div)
      afc  == ((f + Offset(f) - coarse) * thresh * Steps * div) \div Ref
  IN [n |-> n % 64, thresh |-> thresh % Steps, frac |-> frac % Steps, afc |-> afc % Steps]

-----------------------------------------------------------------------------
(* What is written to the registers.                                       *)

\* msisdr_set_soft, with the new values of what is remembered.
SetSoft ==
  /\ band' = BandAt(freq')
  /\ soft' = [mode |-> Segment(freq').mode, ifreq |-> ifreq', bandwidth |-> bandwidth',
              synth |-> Synthesizer(freq')]

\* The mixbuffer is only on the AM inputs, the LNA only on the others.
GainRegister(b, l, mb, mx, bb) ==
  [baseband  |-> bb,
   mixer     |-> mx,
   lna       |-> IF b \in {"AM1", "AM2"} THEN 0 ELSE l,
   mixbuffer |-> CASE b = "AM1" -> mb % 4
                   [] b = "AM2" -> IF mb = 0 THEN 0 ELSE 3
                   [] OTHER -> 0]

\* msisdr_set_gain
SetGain == reg1' = GainRegister(band', lna', mixbuffer', mixer', baseband')

\* msisdr_setup
Init ==
  /\ freq = 90 * MHz /\ band = "VHF"
  /\ ifreq = 0 /\ bandwidth = 8000
  /\ gain = 43
  /\ lna = 0 /\ mixbuffer = 0 /\ mixer = 0 /\ baseband = 43
  /\ soft = [mode |-> "VHF", ifreq |-> 0, bandwidth |-> 8000, synth |-> Synthesizer(90 * MHz)]
  /\ reg1 = GainRegister("VHF", 0, 0, 0, 43)

-----------------------------------------------------------------------------
(* soft.c                                                                  *)

\* A mutant of SetCenterFreq: the gain register is not written.
SetCenterFreqOnly(f) ==
  /\ freq' = f
  /\ UNCHANGED <<ifreq, bandwidth, gain, gainVars, reg1>>
  /\ SetSoft

SetCenterFreq(f) ==
  /\ freq' = f
  /\ UNCHANGED <<ifreq, bandwidth, gain, gainVars>>
  /\ SetSoft /\ SetGain

SetIfFreq(k) ==
  /\ ifreq' = k
  /\ UNCHANGED <<freq, bandwidth, gain, gainVars>>
  /\ SetSoft /\ SetGain

\* fast: p->rate >= 5000000
SetBandwidth(bw, fast) ==
  /\ bandwidth' = bw
  /\ ifreq' = CASE bw <= 600 -> 450
                [] bw = 1536 /\ fast -> 1620
                [] OTHER -> ifreq
  /\ UNCHANGED <<freq, gain, gainVars>>
  /\ SetSoft /\ SetGain

SetOffsetTuning(on) ==
  /\ ifreq' = IF on THEN 450 ELSE 0
  /\ UNCHANGED <<freq, bandwidth, gain, gainVars, reg1>>
  /\ SetSoft

-----------------------------------------------------------------------------
(* gain.c                                                                  *)

Clamped(g) == IF g > 102 THEN 102 ELSE g

\* A mutant of Parts: the mixer comes in one too late.
PartsLate(g) ==
  /\ lna' = IF g >= 43 THEN 0 ELSE 1
  /\ mixbuffer' = IF g >= 43 THEN 0 ELSE 3
  /\ mixer' = IF g > 19 THEN 0 ELSE 1
  /\ baseband' = 59 - (IF g >= 43 THEN g - 43 ELSE IF g >= 19 THEN g - 19 ELSE g)

\* The parts of a gain: the LNA (on the AM inputs the mixbuffer) adds 24 dB, the
\* mixer 19, the baseband 0 to 59.
Parts(g) ==
  /\ lna' = IF g >= 43 THEN 0 ELSE 1
  /\ mixbuffer' = IF g >= 43 THEN 0 ELSE 3
  /\ mixer' = IF g >= 19 THEN 0 ELSE 1
  /\ baseband' = 59 - (IF g >= 43 THEN g - 43 ELSE IF g >= 19 THEN g - 19 ELSE g)

\* A negative gain asks for the automatic mode, which does nothing.
SetTunerGain(g) ==
  /\ gain' = Clamped(g)
  /\ UNCHANGED <<freq, band, ifreq, bandwidth, soft>>
  /\ IF g < 0 THEN UNCHANGED <<gainVars, reg1>> ELSE Parts(Clamped(g)) /\ SetGain

\* msisdrdevice.c: the index-th of the 103 gains, or a percentage of them.
SetGainByIndex(k) == k < 103 /\ SetTunerGain(k)

SetGainByPerc(percent) ==
  LET k == (percent * 103) \div 100 IN SetTunerGain(IF k >= 103 THEN 102 ELSE k)

Part == UNCHANGED <<freq, band, ifreq, bandwidth, gain, soft>> /\ SetGain

SetMixerGain(g) ==
  /\ mixer' = IF g # 0 THEN 0 ELSE 1
  /\ UNCHANGED <<lna, mixbuffer, baseband>> /\ Part

SetMixbufferGain(g) ==
  /\ mixbuffer' = 3 - (IF g > 18 THEN 18 ELSE g) \div 6
  /\ UNCHANGED <<lna, mixer, baseband>> /\ Part

SetLnaGain(g) ==
  /\ lna' = IF g # 0 THEN 0 ELSE 1
  /\ UNCHANGED <<mixbuffer, mixer, baseband>> /\ Part

\* Without a check of the range, which is the caller's business.
SetBasebandGain(g) ==
  /\ baseband' = 59 - g
  /\ UNCHANGED <<lna, mixbuffer, mixer>> /\ Part

\* msisdr_get_tuner_gain
GetTunerGain ==
  IF gain < 0 THEN -1
  ELSE 59 - baseband
       + (CASE band = "AM1" -> 18 - 6 * mixbuffer
            [] band = "AM2" -> IF mixbuffer = 0 THEN 24 ELSE 0
            [] OTHER -> IF lna = 0 THEN 24 ELSE 0)
       + (IF mixer = 0 THEN 19 ELSE 0)

Next ==
  \/ \E f \in Freqs : SetCenterFreq(f)
  \/ \E k \in {0, 450, 1620, 2048} : SetIfFreq(k)
  \/ \E bw \in {200, 300, 600, 1536, 5000, 6000, 7000, 8000, 14000}, fast \in BOOLEAN :
       SetBandwidth(bw, fast)
  \/ \E on \in BOOLEAN : SetOffsetTuning(on)
  \/ \E g \in TunerGains : SetTunerGain(g) \/ (g >= 0 /\ SetGainByIndex(g))
  \/ \E percent \in {g \in TunerGains : g >= 0} : SetGainByPerc(percent)
  \/ \E g \in PartGains :
       SetMixerGain(g) \/ SetMixbufferGain(g) \/ SetLnaGain(g) \/ SetBasebandGain(g)

Spec == Init /\ [][Next]_vars

-----------------------------------------------------------------------------

GainTypeOK ==
  /\ gain \in Int /\ gain <= 102
  /\ lna \in 0 .. 1 /\ mixbuffer \in 0 .. 3 /\ mixer \in 0 .. 1 /\ baseband \in 0 .. 59

\* What the chip makes of its gain register: the bits are reductions, of the LNA
\* or, on the AM inputs, of the mixbuffer (gain.c, lines 29-36 and 216-221).
ChipGain ==
  59 - reg1.baseband
  + (IF soft.mode = "AM" THEN IF reg1.mixbuffer = 0 THEN 24 ELSE 0
                         ELSE IF reg1.lna = 0 THEN 24 ELSE 0)
  + (IF reg1.mixer = 0 THEN 19 ELSE 0)

\* A gain that is set is what is read back, and what the chip applies if the band
\* it is told matches its mode (msisdr_set_tuner_gain and its two callers).
GainTakesEffect == [][gain' # gain /\ gain' >= 0 => GetTunerGain' = gain']_vars

\* Tuning does not change the gain, as long as the LNA and its equivalent on the
\* AM inputs are set alike: "restore gain" in soft.c, lines 367, 401 and 497.
RetuneKeepsGain == [][soft' # soft /\ mixbuffer = 3 * lna => ChipGain' = ChipGain]_vars

\* The registers tune to the frequency that was asked for: at most one fine step
\* below it or one unit above.
TunedClose ==
  LET s == soft.synth
      div == Segment(freq).div
      unit == s.thresh * Steps * div
      missing == (freq + Offset(freq)) * unit
                 - Ref * (s.n * s.thresh * Steps + s.frac * Steps + s.afc)
  IN missing > -unit /\ missing <= Ref

=============================================================================
