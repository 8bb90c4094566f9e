----------------------------- MODULE SampleRate -----------------------------
(***************************************************************************)
(* hard.c: the sample rate, the format it is sent in, and the registers    *)
(* they are written to.  While samples are streamed the stream is paused   *)
(* for it, which may fail before anything is written, and resumed, which   *)
(* may fail after it.  AsyncEngine says how.                               *)
(*                                                                         *)
(* The fraction of a register has RateSteps steps (2^21 in the device).    *)
(***************************************************************************)
EXTENDS Integers

CONSTANTS
  Rates,         \* the rates that are asked for
  RateSteps,
  FormatAnyTime  \* a format is also set while samples are streamed, which the program does not do

ASSUME RateAssumption ==
  Rates \subseteq Nat /\ RateSteps \in Nat \ {0} /\ FormatAnyTime \in BOOLEAN

VARIABLES
  rate, auto, format,  \* p->rate, p->format_auto, p->format
  addr,                \* p->addr, which tells how many samples are in a block
  registers,           \* what is written to registers 3, 4 and 7
  streaming            \* the stream is running

rateVars == <<rate, auto, format, addr, registers, streaming>>

MinRate == 1300000
MaxRate == 15000000

\* The formats, and the pairs of samples in a block of each.
Formats == {"252_S16", "336_S16", "384_S16", "504_S16", "504_S8"}

Pairs == [f \in Formats |-> IF f = "252_S16" THEN 252
                          ELSE IF f = "336_S16" THEN 336
                          ELSE IF f = "384_S16" THEN 384 ELSE 504]

-----------------------------------------------------------------------------

Limited(r) == IF r > MaxRate THEN MaxRate ELSE IF r < MinRate THEN MinRate ELSE r

\* The smallest format whose blocks carry the rate: 24000 of them in a second.
AutoFormat(r) ==
  IF r <= 6048000 THEN "252_S16"
  ELSE IF r <= 8064000 THEN "336_S16"
  ELSE IF r <= 9216000 THEN "384_S16" ELSE "504_S16"

\* The oscillator runs at 12 * i times the rate, for the first i that makes it fast
\* enough, or the last.
Divider(r) ==
  CHOOSE i \in {4, 6, 8, 10, 12, 14} :
    /\ r * i * 12 >= 202000000 \/ i = 14
    /\ \A j \in {4, 6, 8, 10, 12, 14} : j < i => r * j * 12 < 202000000

Oscillator(r) == r * Divider(r) * 12

\* n and fract have 4 and 21 bits, the divider 3.
Register(r) ==
  [divider |-> (Divider(r) \div 2 - 1) % 8,
   n       |-> (Oscillator(r) \div 48000000) % 16,
   fract   |-> ((RateSteps * (Oscillator(r) % 48000000)) \div 48000000) % RateSteps]

\* A mutant of SetHard: the registers are written for the rate that is asked for.
SetHardUnlimited(r, a, f) ==
  /\ auto' = a
  /\ rate' = Limited(r)
  /\ format' = IF a THEN AutoFormat(r) ELSE f
  /\ addr' = Pairs[format'] + 2
  /\ registers' = [rate |-> Register(r), format |-> format']
  /\ streaming' \in {FALSE, streaming}

\* msisdr_set_hard, with what is remembered of rate, format_auto and format.
SetHard(r, a, f) ==
  /\ auto' = a
  /\ rate' = Limited(r)
  /\ format' = IF a THEN AutoFormat(rate') ELSE f
  /\ addr' = Pairs[format'] + 2
  /\ registers' = [rate |-> Register(rate'), format |-> format']
  /\ streaming' \in {FALSE, streaming}

\* A mutant of PauseFails: the format is chosen before the stream is paused.
PauseFailsLate(r, a, f) ==
  /\ streaming
  /\ rate' = r /\ auto' = a /\ format' = IF a THEN AutoFormat(r) ELSE f
  /\ streaming' \in BOOLEAN
  /\ UNCHANGED <<addr, registers>>

\* The stream cannot be paused: what was asked for is remembered and not limited.
PauseFails(r, a, f) ==
  /\ streaming
  /\ rate' = r /\ auto' = a /\ format' = f
  /\ streaming' \in BOOLEAN
  /\ UNCHANGED <<addr, registers>>

SetSampleRate(r) == SetHard(r, auto, format) \/ PauseFails(r, auto, format)

FormatTime == streaming => FormatAnyTime

SetSampleFormatAuto ==
  FormatTime /\ (SetHard(rate, TRUE, format) \/ PauseFails(rate, TRUE, format))

SetSampleFormat(f) ==
  FormatTime /\ (SetHard(rate, FALSE, f) \/ PauseFails(rate, FALSE, f))

\* Another name: the automatic choice is switched off all the same.
UnsupportedFormat ==
  FormatTime /\ auto' = FALSE /\ UNCHANGED <<rate, format, addr, registers, streaming>>

\* msisdr_read_async starts and ends.
Stream == streaming' = ~streaming /\ UNCHANGED <<rate, auto, format, addr, registers>>

\* msisdr_setup
RateInit ==
  /\ rate = 2000000 /\ auto = TRUE /\ format = "252_S16" /\ addr = 254
  /\ registers = [rate |-> Register(2000000), format |-> "252_S16"]
  /\ streaming = FALSE

RateNext ==
  \/ \E r \in Rates : SetSampleRate(r)
  \/ \E f \in Formats : SetSampleFormat(f)
  \/ SetSampleFormatAuto \/ UnsupportedFormat \/ Stream

RateSpec == RateInit /\ [][RateNext]_rateVars

-----------------------------------------------------------------------------

\* What is sent is what the converters are told: they go by p->format (async.c,
\* lines 104 to 200), the device by its register, also when a pause has failed.
DecodesWhatIsSent == streaming => format = registers.format /\ addr = Pairs[format] + 2

\* The rate that the registers stand for, at most a fine step below r.
Gives(reg, r) ==
  r * (2 * reg.divider + 2) * 12 - reg.n * 48000000 - (reg.fract * 48000000) \div RateSteps
    \in 0 .. 48000000 \div RateSteps + 1

\* The format is the smallest that carries rate r (the maximum of each: hard.c,
\* lines 72 to 97), up to the maximum of the last.
Carries(f, r) ==
  /\ r <= 24000 * 504 => r <= 24000 * Pairs[f]
  /\ \A g \in Formats : Pairs[g] < Pairs[f] => r > 24000 * Pairs[g]

\* When registers are written they give the rate that is remembered, their n is
\* one the device takes ("from the previous calculation N is at least 4", hard.c,
\* line 133; it has 4 bits), and an automatic format carries the rate.
RegistersGiveRate ==
  [][registers' # registers =>
       /\ Gives(registers'.rate, rate')
       /\ registers'.rate.n \in 4 .. 15
       /\ auto' => Carries(format', rate')]_rateVars

=============================================================================
