\* Two files: the two names may be absent, apart, or links of one file.
CONSTANTS
  IqNames <- MCIqNames
  Files = 2
SPECIFICATION Spec
INVARIANT OnlyHardLinksRefused
PROPERTY RecordingKeptApart
