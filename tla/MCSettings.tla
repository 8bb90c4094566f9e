----------------------------- MODULE MCSettings -----------------------------
(***************************************************************************)
(* The instances of Tuner and SampleRate for TLC.  A setting of one never  *)
(* touches what the other keeps (msisdr_set_bandwidth reads the rate; here *)
(* it takes any), so each is followed from where msisdr_setup leaves the   *)
(* device, with the other one untouched.  Frequencies are in units of      *)
(* 100 kHz.                                                                *)
(***************************************************************************)
EXTENDS Tuner, SampleRate

\* The first and the last frequency of every segment of the default plan except
\* the one from 259 to 330 MHz, and one or two in the last segments for which the
\* fraction of the synthesizer is rounded up.
MCFreqs == {0, 499, 500, 1079, 1080, 2589, 3302, 9599, 9604, 23999}

\* The thresholds of the three ranges of gain, and what is outside of them.
MCGains == {-1, 18, 19, 42, 43, 200}

\* Around every threshold of hard.c and where the divider changes, rates that the
\* applications offer, and rates below and above the range.
MCRates ==
  UNION {{r - 1, r, r + 1} : r \in {1300000, 1402778, 1683334, 2104167, 2805556, 4208334,
                                    6048000, 8064000, 9216000, 12096000, 15000000}}
  \union {0, 1536000, 2048000, 5000000, 7654321, 10660000, 20000000}

SettingsInit == Init /\ RateInit

\* RateInit and Init say here that nothing has happened to the other one.
SettingsNext ==
  \/ RateInit /\ Next /\ UNCHANGED rateVars
  \/ Init /\ RateNext /\ UNCHANGED vars

SettingsSpec == SettingsInit /\ [][SettingsNext]_<<vars, rateVars>>

=============================================================================
