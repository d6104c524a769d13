\* All manuscripts of up to three lines from six, two voices not yet downloaded, two
\* requests at a time, three faults.
CONSTANTS
  Requests = {r1, r2}
  Startup = startup
  Voices <- TwoVoices
  Registry <- VoiceRegistry
  MaxFaults = 3
  NoVoice = NoVoice
  Nothing = Nothing
  Header = Header
  Silence = Silence
  Texts <- UpTo3Lines
SPECIFICATION Spec
INVARIANT SegmentsFaithful
INVARIANT CutModelHeals
INVARIANT DramaFaithful
INVARIANT GapsBetween
\* Nothing is left to do once the drama is assembled.
CHECK_DEADLOCK FALSE
