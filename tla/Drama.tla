-------------------------------- MODULE Drama --------------------------------
(***************************************************************************)
(* The content of a job from the manuscript to the audio: Segments,        *)
(* VoiceModels and WavAssembly put together.  Pipeline takes the tasks of  *)
(* a job as given and a chunk as a name.                                   *)
(*                                                                         *)
(* Who may claim a task, and how often, is the matter of Pipeline, who may *)
(* synthesise a text of SynthesisCache.  A request stands for the thread   *)
(* of the TTS service and for the worker that waits for its answer.        *)
(***************************************************************************)
EXTENDS VoiceModels, Segments, WavAssembly

CONSTANT Texts  \* manuscripts

\* VOICE_REGISTRY.get(speaker, VOICE_REGISTRY["default"])
VoiceOf(speaker) ==
  Registry[IF speaker \in DOMAIN Registry THEN speaker ELSE "default"]

\* What is heard of a segment.
Frame(s) == [voice |-> VoiceOf(s.speaker), text |-> s.text]

\* The silence between two chunks is told from a header and from what is spoken.
ASSUME DramaAssumption ==
  /\ Header # Silence
  /\ \A t \in Texts :
       /\ t \in Seq(Range(t))
       /\ \A i \in DOMAIN ParseSegments(t) : Frame(ParseSegments(t)[i]) # Silence

VARIABLES
  text,      \* the manuscript; gone once it is parsed
  segments,  \* the TTS tasks by chunk_index + 1: speaker and chunk_text
  chunk,     \* chunk[x]: the task a worker waits for at request x; 0 for none
  cache,     \* audio objects by content hash
  audio,     \* audio[i]: the object of task i
  kept,      \* ghost: the tasks that were DONE when the drama was assembled
  final      \* the assembled drama

content == <<segments, cache, audio>>
result == <<kept, final>>
vars == <<modelVars, text, content, chunk, result>>

Init ==
  /\ file = [v \in Voices |-> [part \in Parts |-> "absent"]]
  /\ at = [x \in Threads |-> "idle"]
  /\ voice = [x \in Threads |-> NoVoice]
  /\ ahead = DOMAIN Registry
  /\ overlapped = {} /\ faults = 0
  /\ text \in Texts
  /\ segments = <<>> /\ audio = <<>>
  /\ chunk = [x \in Requests |-> 0]
  /\ cache = {}
  /\ kept = {} /\ final = <<>>

Parse ==
  /\ segments = <<>> /\ ParseSegments(text) # <<>>
  /\ segments' = ParseSegments(text)
  /\ audio' = [i \in DOMAIN ParseSegments(text) |-> <<>>]
  /\ text' = <<>>
  /\ UNCHANGED <<modelVars, chunk, cache, result>>

\* Variant: the hash is of the text alone.
HashText(i) == segments[i].text

\* input_hash.
Hash(i) == <<segments[i].speaker, segments[i].text>>

\* The task is not done and no worker is at it.
Waiting(i) == audio[i] = <<>> /\ i \notin {chunk[x] : x \in Requests}

CacheHit(i) ==
  /\ Waiting(i)
  /\ \E c \in cache : c.hash = Hash(i) /\ audio' = [audio EXCEPT ![i] = c.object]
  /\ UNCHANGED <<modelVars, text, segments, cache, chunk, result>>

\* POST /synthesise.
Ask(x, i) ==
  /\ Serving /\ Waiting(i)
  /\ \A c \in cache : c.hash # Hash(i)
  /\ Enter(x, VoiceOf(segments[i].speaker))
  /\ chunk' = [chunk EXCEPT ![x] = i]
  /\ UNCHANGED <<ahead, text, content, result>>

\* piper reads both files and speaks; the answer is uploaded and cached.
Speak(x) ==
  LET i == chunk[x]
      object == <<Header, [voice |-> voice[x], text |-> segments[i].text]>>
  IN
  /\ at[x] = "piper" /\ Whole(voice[x]) /\ i # 0
  /\ audio' = [audio EXCEPT ![i] = object]
  /\ cache' = cache \cup {[hash |-> Hash(i), object |-> object]}
  /\ Leave(x)
  /\ chunk' = [chunk EXCEPT ![x] = 0]
  /\ UNCHANGED <<file, ahead, overlapped, faults, text, segments, result>>

\* piper fails, as it does on a file that is not whole, or takes more than 30 s; or
\* nobody waits for the answer any more.
Mute(x) ==
  /\ at[x] = "piper"
  /\ Leave(x)
  /\ chunk' = [chunk EXCEPT ![x] = 0]
  /\ UNCHANGED <<file, ahead, overlapped, faults, text, content, result>>

\* The 60 s of the worker are over, or it dies.  The thread goes on.
GiveUp(x) ==
  /\ chunk[x] # 0
  /\ faults < MaxFaults /\ faults' = faults + 1
  /\ chunk' = [chunk EXCEPT ![x] = 0]
  /\ UNCHANGED <<file, thread, ahead, overlapped, text, content, result>>

\* A step of _ensure_model; if it fails, the worker has a 503.
EnsureModel(x) ==
  /\ Ensure(x)
  /\ chunk' = [y \in Requests |-> IF y = x /\ at'[x] = "idle" THEN 0 ELSE chunk[y]]
  /\ UNCHANGED <<text, content, result>>

StartNext == StartupNext /\ UNCHANGED <<text, content, chunk, result>>

Die ==
  /\ ServiceDies
  /\ chunk' = [x \in Requests |-> 0]
  /\ UNCHANGED <<text, content, result>>

\* The stitch handler reads the tasks that are DONE: all of them, or those that no
\* stale handler has overwritten since.
Stitch ==
  /\ segments # <<>> /\ final = <<>>
  /\ \A i \in DOMAIN audio : audio[i] # <<>>
  /\ kept' \in (SUBSET DOMAIN audio) \ {{}}
  /\ final' = StitchChunks([k \in 1 .. Cardinality(kept') |->
       LET i == InOrder(kept')[k] IN [index |-> i - 1, object |-> audio[i]]])
  /\ UNCHANGED <<modelVars, text, content, chunk>>

Next ==
  \/ Parse \/ Stitch \/ StartNext \/ Die
  \/ \E x \in Threads : EnsureModel(x)
  \/ \E i \in DOMAIN segments : CacheHit(i) \/ \E x \in Requests : Ask(x, i)
  \/ \E x \in Requests : Speak(x) \/ Mute(x) \/ GiveUp(x)

Spec == Init /\ [][Next]_vars

-----------------------------------------------------------------------------
\* A manuscript whose labels all have words becomes its labelled lines, one segment
\* each, in order, with their own speakers; one without labels becomes its lines,
\* spoken by the narrator.  A bare label costs no more than the line behind it: every
\* other labelled line has its own segment and speaker, and no labelled line goes unheard.
SegmentsFaithful ==
  LET heard == ParseSegments(text)
      labelled == Picked(text, {i \in DOMAIN text : Labelled(text[i])})
      spoken == FlattenSeq([i \in DOMAIN heard |-> heard[i].text])
      Words(s) == [i \in DOMAIN s |-> s[i].words]
  IN
  /\ (\A i \in DOMAIN text : ~IsBare(text[i])) =>
       IF labelled # <<>>
       THEN heard = [i \in DOMAIN labelled |->
              Segment(labelled[i].label, <<Line(Nothing, labelled[i].words)>>)]
       ELSE /\ spoken = Picked(text, {i \in DOMAIN text : ~Blank(text[i])})
            /\ \A i \in DOMAIN heard : heard[i].speaker = "NARRATOR"
  /\ labelled # <<>> =>
       \E I \in SUBSET DOMAIN spoken : Words(labelled) = Words(Picked(spoken, I))
  /\ \A i \in DOMAIN text : Labelled(text[i]) /\ ~AfterBare(text, i) =>
       Segment(text[i].label, <<Line(Nothing, text[i].words)>>) \in Range(heard)

\* What sounds in the drama, behind its header.
Frames == Picked(final, {k \in DOMAIN final : k > 1 /\ final[k] # Silence})

\* Every chunk that is in the drama is heard once, in its place, in the voice of its
\* speaker, whichever task the audio was made for.
DramaFaithful ==
  final # <<>> =>
    Frames = [k \in 1 .. Cardinality(kept) |-> Frame(segments[InOrder(kept)[k]])]

\* Silence stands only between two chunks, and between any two when none is missing.
GapsBetween ==
  LET silent == {k \in DOMAIN final : final[k] = Silence} IN
  /\ \A k \in silent : k # Len(final) /\ k + 1 \notin silent /\ k > 2
  /\ final # <<>> /\ kept = DOMAIN segments => Cardinality(silent) = Len(segments) - 1

=============================================================================
