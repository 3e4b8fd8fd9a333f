\* Two demodulator threads, four blocks.
CONSTANTS
  LINEAR_DEMOD = LINEAR_DEMOD
  FM_DEMOD = FM_DEMOD
  Demods <- MCDemods
  FirstDemod = FM_DEMOD
  MaxBlock = 4
SPECIFICATION Spec
INVARIANTS
  NoLostWakeup
  SafeWhenOnTime
PROPERTIES
  BlocksTaken
  ImplementsMailbox
