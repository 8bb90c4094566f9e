SPECIFICATION SettingsSpec
CONSTANTS
  MHz = 10
  Steps = 64
  Flavour = "default"
  Freqs <- MCFreqs
  TunerGains <- MCGains
  PartGains = {0, 19}
  Rates <- MCRates
  RateSteps = 32
  FormatAnyTime = FALSE
INVARIANTS TunedClose DecodesWhatIsSent
PROPERTIES GainTakesEffect RetuneKeepsGain RegistersGiveRate
