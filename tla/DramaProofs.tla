----------------------------- MODULE DramaProofs -----------------------------
(***************************************************************************)
(* Which broken downloads heal, that the audio of a task is always the audio*)
(* of its own speaker and text, and that the drama is made of just these, in*)
(* order, with silence only between them.                                  *)
(***************************************************************************)
EXTENDS Drama, SegmentsProofs

-----------------------------------------------------------------------------
(***************************************************************************)
(* The model files.                                                        *)
(***************************************************************************)

Content == {"absent", "cut", "whole"}
Labels == {"idle", "ensure", "piper"} \cup Fetching

FileType == file \in [Voices -> [Parts -> Content \cup Threads]]
ThreadType == at \in [Threads -> Labels] /\ voice = [x \in Threads |-> voice[x]]

Fetches(x, v) == at[x] \in Fetching /\ voice[x] = v

\* A file that is being written has its writer.
WritersKnown ==
  \A v \in Voices, part \in Parts, x \in Threads :
    file[v][part] = x => at[x] = part /\ voice[x] = v

\* Between its check and its last write a thread that is alone with the voice finds it
\* as it has left it; and a config is not there before its model is whole.
InOrderAlone(v) ==
  /\ \A x, y \in Threads : Fetches(x, v) /\ Fetches(y, v) => x = y
  /\ \A x \in Threads : Fetches(x, v) =>
       /\ at[x] = "get model" => file[v]["config"] = "absent"
       /\ at[x] = "model" => file[v]["model"] = x
       /\ at[x] = "get config" => file[v]["model"] = "whole"
  /\ file[v]["config"] # "absent" => file[v]["model"] = "whole"

Orderly == \A v \in Voices \ overlapped : InOrderAlone(v)

VoiceInv == FileType /\ ThreadType /\ WritersKnown /\ Orderly

LEMMA PartsFetched == Parts \subseteq Fetching
  BY DEF Parts, Fetching

LEMMA VoiceInit == Init => VoiceInv
  <1> SUFFICES ASSUME Init PROVE VoiceInv
    OBVIOUS
  <1>1. FileType /\ ThreadType
    BY DEF Init, FileType, ThreadType, Content, Labels
  <1>2. WritersKnown
    BY VoiceAssumption DEF Init, WritersKnown, Threads
  <1>3. ASSUME NEW v \in Voices PROVE InOrderAlone(v)
    <2>1. \A x \in Threads : ~Fetches(x, v)
      BY DEF Init, Fetches, Fetching
    <2>2. file[v]["config"] = "absent"
      BY DEF Init, Parts
    <2> QED BY <2>1, <2>2 DEF InOrderAlone
  <1> QED BY <1>1, <1>2, <1>3 DEF VoiceInv, Orderly

\* A voice is as it was when its files and its threads are.
LEMMA AloneKept ==
  ASSUME NEW v, InOrderAlone(v), UNCHANGED file,
         \A x \in Threads : Fetches(x, v)' => Fetches(x, v) /\ at'[x] = at[x]
  PROVE  InOrderAlone(v)'
  BY DEF InOrderAlone

\* Steps of a thread that neither fetches a voice nor begins to.
LEMMA NoWriter ==
  ASSUME VoiceInv, NEW x \in Threads, at[x] \notin Fetching,
         UNCHANGED <<file, overlapped>>, NEW label \in Labels \ Fetching, Move(x, label),
         NEW v, voice' = [voice EXCEPT ![x] = v] \/ UNCHANGED voice
  PROVE  VoiceInv'
  <1> USE DEF VoiceInv, Move
  <1>1. /\ FileType'
        /\ ThreadType'
    BY DEF FileType, ThreadType
  <1>2. \A y \in Threads : at'[y] \in Fetching =>
          at[y] = at'[y] /\ voice'[y] = voice[y]
    BY DEF ThreadType
  <1>3. \A y \in Threads : at[y] \in Fetching =>
          at[y] = at'[y] /\ voice'[y] = voice[y]
    BY DEF ThreadType
  <1>4. WritersKnown'
    BY <1>3, PartsFetched DEF WritersKnown
  <1>5. ASSUME NEW u \in Voices \ overlapped PROVE InOrderAlone(u)'
    <2>1. InOrderAlone(u)
      BY DEF Orderly
    <2>2. \A y \in Threads : Fetches(y, u)' => Fetches(y, u) /\ at'[y] = at[y]
      BY <1>2 DEF Fetches
    <2> QED BY <2>1, <2>2, AloneKept
  <1>6. Orderly'
    BY <1>5 DEF Orderly
  <1> QED BY <1>1, <1>4, <1>6

\* What a writer leaves behind.
LEMMA WrittenContent ==
  ASSUME VoiceInv, NEW x \in Threads, NEW part \in Parts, voice[x] \in Voices,
         NEW f \in Written(x, part)
  PROVE  /\ f \in Content \cup Threads /\ f # x
         /\ file[voice[x]][part] = x => f = "whole"
         /\ file[voice[x]][part] = "cut" => f \in {"cut", "whole"}
         /\ file[voice[x]][part] \notin {x, "cut"} => f = file[voice[x]][part]
  BY VoiceAssumption DEF VoiceInv, FileType, Written, Content, Threads

\* A thread goes on fetching its voice.
LEMMA MoveOn ==
  ASSUME VoiceInv, NEW x \in Threads, at[x] \in Fetching, NEW label \in Fetching, Move(x, label),
         UNCHANGED <<voice, overlapped>>,
         \A v \in Voices : v # voice[x] => file'[v] = file[v],
         label # "get model",
         \A v \in Voices \ overlapped : v = voice[x] =>
           /\ label = "model" => file'[v]["model"] = x
           /\ label = "get config" => file'[v]["model"] = "whole"
           /\ file'[v]["config"] # "absent" => file'[v]["model"] = "whole"
  PROVE  ThreadType' /\ Orderly'
  <1> USE DEF Move
  <1>1. ThreadType'
    BY DEF VoiceInv, ThreadType, Labels
  <1>2. at'[x] = label /\ \A y \in Threads \ {x} : at'[y] = at[y]
    BY DEF VoiceInv, ThreadType
  <1>3. ASSUME NEW v \in Voices \ overlapped PROVE InOrderAlone(v)'
    <2>1. InOrderAlone(v)
      BY DEF VoiceInv, Orderly
    <2>2. \A y \in Threads : Fetches(y, v)' <=> Fetches(y, v)
      BY <1>2 DEF Fetches
    <2>3. CASE v = voice[x]
      <3>1. Fetches(x, v)
        BY <2>3 DEF Fetches
      <3>2. \A y \in Threads : Fetches(y, v) => y = x
        BY <2>1, <3>1 DEF InOrderAlone
      <3> QED BY <1>2, <2>1, <2>2, <2>3, <3>2 DEF InOrderAlone
    <2>4. CASE v # voice[x]
      <3>1. file'[v] = file[v] /\ ~Fetches(x, v)
        BY <2>4 DEF Fetches
      <3> QED BY <1>2, <2>1, <2>2, <3>1 DEF InOrderAlone
    <2> QED BY <2>3, <2>4
  <1> QED BY <1>1, <1>3 DEF Orderly

LEMMA MissingStep == ASSUME VoiceInv, NEW x \in Threads, Missing(x) PROVE VoiceInv'
  <1> USE DEF VoiceInv, Missing, Move
  <1>1. FileType' /\ ThreadType'
    BY DEF FileType, ThreadType, Labels, Fetching
  <1>2. at'[x] = "get model" /\ \A y \in Threads \ {x} : at'[y] = at[y]
    BY DEF ThreadType
  <1>3. WritersKnown'
    <2>1. at[x] \notin Parts /\ UNCHANGED <<file, voice>> /\ WritersKnown
      BY DEF Parts
    <2> HIDE DEF Missing, VoiceInv
    <2> SUFFICES ASSUME NEW v \in Voices, NEW part \in Parts, NEW y \in Threads, file'[v][part] = y
                 PROVE  at'[y] = part /\ voice'[y] = v
      BY DEF WritersKnown
    <2>2. at[y] = part /\ voice[y] = v
      BY <2>1 DEF WritersKnown
    <2> QED BY <1>2, <2>1, <2>2
  <1>4. ASSUME NEW v \in Voices \ overlapped' PROVE InOrderAlone(v)'
    <2>1. InOrderAlone(v)
      BY DEF Orderly
    <2>2. voice[x] = v => \A y \in Threads : ~Fetches(y, v)
      BY DEF Fetches
    <2>3. \A y \in Threads \ {x} : Fetches(y, v)' <=> Fetches(y, v)
      BY <1>2 DEF Fetches
    <2>4. CASE voice[x] = v
      <3>1. file[v]["config"] = "absent"
        BY <2>1, <2>4 DEF InOrderAlone, Present, Parts
      <3> QED BY <1>2, <2>1, <2>2, <2>3, <2>4, <3>1 DEF InOrderAlone
    <2>5. CASE voice[x] # v
      <3>1. ~Fetches(x, v)'
        BY <2>5 DEF Fetches
      <3> QED BY <1>2, <2>1, <2>3, <3>1 DEF InOrderAlone
    <2> QED BY <2>4, <2>5
  <1> QED BY <1>1, <1>3, <1>4 DEF Orderly

LEMMA OpenModelStep == ASSUME VoiceInv, NEW x \in Threads, OpenModel(x) PROVE VoiceInv'
  <1>1. /\ at[x] = "get model" /\ Move(x, "model") /\ UNCHANGED <<voice, overlapped>>
        /\ file' = [file EXCEPT ![voice[x]]["model"] = x]
    BY DEF OpenModel, Open
  <1>2. \A v \in Voices : v # voice[x] => file'[v] = file[v]
    BY <1>1 DEF VoiceInv, FileType
  <1>3. \A v \in Voices : v = voice[x] =>
          file'[v]["model"] = x /\ file'[v]["config"] = file[v]["config"]
    BY <1>1 DEF VoiceInv, FileType, Parts
  <1>4. ASSUME NEW v \in Voices \ overlapped, v = voice[x] PROVE file[v]["config"] = "absent"
    <2>1. Fetches(x, v) /\ InOrderAlone(v)
      BY <1>1, <1>4 DEF Fetches, Fetching, VoiceInv, Orderly
    <2> QED BY <1>1, <2>1 DEF InOrderAlone
  <1>5. ThreadType' /\ Orderly'
    <2>1. "model" \in Fetching /\ at[x] \in Fetching
      BY <1>1 DEF Fetching
    <2> QED BY <1>1, <1>2, <1>3, <1>4, <2>1, MoveOn
  <1>6. FileType'
    BY <1>1 DEF VoiceInv, FileType, Parts
  <1>7. WritersKnown'
    <2>1. at'[x] = "model" /\ \A y \in Threads \ {x} : at'[y] = at[y]
      BY <1>1 DEF VoiceInv, ThreadType, Move
    <2> SUFFICES ASSUME NEW v \in Voices, NEW part \in Parts, NEW y \in Threads, file'[v][part] = y
                 PROVE  at'[y] = part /\ voice'[y] = v
      BY DEF WritersKnown
    <2>2. CASE v = voice[x] /\ part = "model"
      BY <2>1, <2>2, <1>1, <1>3
    <2>3. CASE ~(v = voice[x] /\ part = "model")
      <3>1. file[v][part] = y
        BY <2>3, <1>2, <1>3 DEF Parts
      <3>2. at[y] = part /\ voice[y] = v
        BY <3>1 DEF VoiceInv, WritersKnown
      <3>3. y # x
        BY <1>1, <3>2 DEF Parts
      <3> QED BY <1>1, <2>1, <3>2, <3>3
    <2> QED BY <2>2, <2>3
  <1> QED BY <1>5, <1>6, <1>7 DEF VoiceInv

LEMMA ModelFetchedStep == ASSUME VoiceInv, NEW x \in Threads, ModelFetched(x) PROVE VoiceInv'
  <1>1. /\ at[x] = "model" /\ Move(x, "get config") /\ UNCHANGED <<voice, overlapped>>
    BY DEF ModelFetched
  <1>2. PICK f \in Written(x, "model") : file' = [file EXCEPT ![voice[x]]["model"] = f]
    BY DEF ModelFetched
  <1>3. voice[x] \in Voices =>
          /\ f \in Content \cup Threads /\ f # x
          /\ file[voice[x]]["model"] = x => f = "whole"
          /\ f \in Threads => file[voice[x]]["model"] = f
    BY WrittenContent, VoiceAssumption DEF Parts, Content, Threads
  <1>4. \A v \in Voices : v # voice[x] => file'[v] = file[v]
    BY <1>2 DEF VoiceInv, FileType
  <1>5. \A v \in Voices : v = voice[x] =>
          file'[v]["model"] = f /\ file'[v]["config"] = file[v]["config"]
    BY <1>2 DEF VoiceInv, FileType, Parts
  <1>6. ASSUME NEW v \in Voices \ overlapped, v = voice[x] PROVE f = "whole"
    <2>1. Fetches(x, v) /\ InOrderAlone(v)
      BY <1>1, <1>6 DEF Fetches, Fetching, VoiceInv, Orderly
    <2>2. file[v]["model"] = x
      BY <1>1, <2>1 DEF InOrderAlone
    <2> QED BY <1>3, <1>6, <2>2
  <1>7. ThreadType' /\ Orderly'
    <2>1. "get config" \in Fetching /\ at[x] \in Fetching
      BY <1>1 DEF Fetching
    <2> QED BY <1>1, <1>4, <1>5, <1>6, <2>1, MoveOn
  <1>8. FileType'
    BY <1>2, <1>3, <1>4 DEF VoiceInv, FileType, Parts
  <1>9. WritersKnown'
    <2> SUFFICES ASSUME NEW v \in Voices, NEW part \in Parts, NEW y \in Threads, file'[v][part] = y
                 PROVE  at'[y] = part /\ voice'[y] = v
      BY DEF WritersKnown
    <2>1. file[v][part] = y
      BY <1>3, <1>4, <1>5 DEF Parts
    <2>2. at[y] = part /\ voice[y] = v
      BY <2>1 DEF VoiceInv, WritersKnown
    <2>3. y # x
      <3>1. CASE v = voice[x] /\ part = "model"
        BY <3>1, <1>3, <1>5
      <3>2. CASE ~(v = voice[x] /\ part = "model")
        BY <3>2, <2>2, <1>1
      <3> QED BY <3>1, <3>2
    <2> QED BY <1>1, <2>2, <2>3 DEF VoiceInv, ThreadType, Move
  <1> QED BY <1>7, <1>8, <1>9 DEF VoiceInv

LEMMA OpenConfigStep == ASSUME VoiceInv, NEW x \in Threads, OpenConfig(x) PROVE VoiceInv'
  <1>1. /\ at[x] = "get config" /\ Move(x, "config") /\ UNCHANGED <<voice, overlapped>>
        /\ file' = [file EXCEPT ![voice[x]]["config"] = x]
    BY DEF OpenConfig, Open
  <1>2. \A v \in Voices : v # voice[x] => file'[v] = file[v]
    BY <1>1 DEF VoiceInv, FileType
  <1>3. \A v \in Voices : v = voice[x] =>
          file'[v]["config"] = x /\ file'[v]["model"] = file[v]["model"]
    BY <1>1 DEF VoiceInv, FileType, Parts
  <1>4. ASSUME NEW v \in Voices \ overlapped, v = voice[x] PROVE file[v]["model"] = "whole"
    <2>1. Fetches(x, v) /\ InOrderAlone(v)
      BY <1>1, <1>4 DEF Fetches, Fetching, VoiceInv, Orderly
    <2> QED BY <1>1, <2>1 DEF InOrderAlone
  <1>5. ThreadType' /\ Orderly'
    <2>1. "config" \in Fetching /\ at[x] \in Fetching
      BY <1>1 DEF Fetching
    <2> QED BY <1>1, <1>2, <1>3, <1>4, <2>1, MoveOn
  <1>6. FileType'
    BY <1>1 DEF VoiceInv, FileType, Parts
  <1>7. WritersKnown'
    <2>1. at'[x] = "config" /\ \A y \in Threads \ {x} : at'[y] = at[y]
      BY <1>1 DEF VoiceInv, ThreadType, Move
    <2> SUFFICES ASSUME NEW v \in Voices, NEW part \in Parts, NEW y \in Threads, file'[v][part] = y
                 PROVE  at'[y] = part /\ voice'[y] = v
      BY DEF WritersKnown
    <2>2. CASE v = voice[x] /\ part = "config"
      BY <2>1, <2>2, <1>1, <1>3
    <2>3. CASE ~(v = voice[x] /\ part = "config")
      <3>1. file[v][part] = y
        BY <2>3, <1>2, <1>3 DEF Parts
      <3>2. at[y] = part /\ voice[y] = v
        BY <3>1 DEF VoiceInv, WritersKnown
      <3>3. y # x
        BY <1>1, <3>2 DEF Parts
      <3> QED BY <1>1, <2>1, <3>2, <3>3
    <2> QED BY <2>2, <2>3
  <1> QED BY <1>5, <1>6, <1>7 DEF VoiceInv

\* If x has been writing the file it is now whole or cut; nobody else's changes,
\* but that a cut file may turn out whole.
Settles(x, v, part) ==
  LET f == file[v][part]
      g == file'[v][part]
  IN
  /\ g # x
  /\ g = "absent" \/ g \in Threads => g = f
  /\ f \in {"whole", "absent"} \cup (Threads \ {x}) => g = f

\* A thread stops fetching.
LEMMA StopStep ==
  ASSUME VoiceInv, FileType', NEW x \in Threads, NEW label \in Labels \ Fetching, Move(x, label),
         NEW u, voice' = [voice EXCEPT ![x] = u] \/ UNCHANGED voice, UNCHANGED overlapped,
         \A v \in Voices, part \in Parts : Settles(x, v, part)
  PROVE  VoiceInv'
  <1> USE DEF VoiceInv, Move, Settles
  <1>1. ThreadType'
    BY DEF ThreadType
  <1>2. \A y \in Threads \ {x} : at'[y] = at[y] /\ voice'[y] = voice[y]
    BY DEF ThreadType
  <1>3. at'[x] = label
    BY DEF ThreadType
  <1>4. WritersKnown'
    BY <1>2 DEF WritersKnown
  <1>5. Orderly'
    <2> SUFFICES ASSUME NEW v \in Voices \ overlapped PROVE InOrderAlone(v)'
      BY DEF Orderly
    <2>1. InOrderAlone(v) /\ Settles(x, v, "model") /\ Settles(x, v, "config")
      BY DEF Orderly, Parts
    <2>2. \A y \in Threads : Fetches(y, v)' => Fetches(y, v) /\ y # x /\ at'[y] = at[y]
      BY <1>2, <1>3 DEF Fetches
    <2>3. file[v]["config"] = "absent" => file'[v]["config"] = "absent"
      BY <2>1
    <2>4. \A y \in Threads \ {x} : file[v]["model"] = y => file'[v]["model"] = y
      BY <2>1
    <2>5. file[v]["model"] = "whole" => file'[v]["model"] = "whole"
      BY <2>1
    <2> HIDE DEF Settles
    <2> QED BY <2>1, <2>2, <2>3, <2>4, <2>5 DEF InOrderAlone
  <1> QED BY <1>1, <1>4, <1>5

LEMMA FetchedStep == ASSUME VoiceInv, NEW x \in Threads, Fetched(x) PROVE VoiceInv'
  <1> USE DEF VoiceInv, Settles
  <1>1. PICK f \in Written(x, "config") : file' = [file EXCEPT ![voice[x]]["config"] = f]
    BY DEF Fetched
  <1>2. at[x] = "config" /\ UNCHANGED overlapped
    BY DEF Fetched
  <1>3. voice[x] \in Voices =>
          /\ f \in Content \cup Threads /\ f # x
          /\ file[voice[x]]["config"] = x => f = "whole"
          /\ file[voice[x]]["config"] = "cut" => f \in {"cut", "whole"}
          /\ file[voice[x]]["config"] \notin {x, "cut"} => f = file[voice[x]]["config"]
    BY WrittenContent DEF Parts
  <1>4. FileType'
    BY <1>1, <1>3 DEF FileType, Parts
  <1>5. \A v \in Voices, part \in Parts : Settles(x, v, part)
    <2> TAKE v \in Voices, part \in Parts
    <2>1. CASE v = voice[x] /\ part = "config"
      <3>1. file'[v][part] = f
        BY <2>1, <1>1 DEF FileType
      <3> QED BY <2>1, <3>1, <1>3, VoiceAssumption DEF Threads
    <2>2. CASE ~(v = voice[x] /\ part = "config")
      <3>1. file'[v][part] = file[v][part] /\ file[v][part] # x
        BY <2>2, <1>1, <1>2 DEF FileType, WritersKnown
      <3> QED BY <3>1
    <2> QED BY <2>1, <2>2
  <1>6. PICK label \in {"idle", "piper"} :
          /\ Move(x, label)
          /\ voice' = [voice EXCEPT ![x] = NoVoice] \/ UNCHANGED voice
    BY DEF Fetched, Leave
  <1>7. label \in Labels \ Fetching
    BY DEF Labels, Fetching
  <1> QED BY <1>2, <1>4, <1>5, <1>6, <1>7, StopStep

LEMMA DownloadFailsStep == ASSUME VoiceInv, NEW x \in Threads, DownloadFails(x) PROVE VoiceInv'
  <1> USE DEF VoiceInv
  <1>1. /\ Move(x, "idle") /\ voice' = [voice EXCEPT ![x] = NoVoice]
        /\ UNCHANGED overlapped
    BY DEF DownloadFails, Leave
  <1>2. "idle" \in Labels \ Fetching
    BY DEF Labels, Fetching
  <1>3. file' = [v \in Voices |-> [part \in Parts |->
                   IF file[v][part] \in {x} THEN "cut" ELSE file[v][part]]]
    BY DEF DownloadFails, Cut
  <1>4. FileType'
    BY <1>3 DEF FileType, Content
  <1>5. \A v \in Voices, part \in Parts :
          file'[v][part] = IF file[v][part] = x THEN "cut" ELSE file[v][part]
    BY <1>3
  <1>6. \A v \in Voices, part \in Parts : Settles(x, v, part)
    BY <1>5, VoiceAssumption DEF Threads, Settles
  <1> QED BY <1>1, <1>2, <1>4, <1>6, StopStep

LEMMA ServiceDiesStep == ASSUME VoiceInv, ServiceDies PROVE VoiceInv'
  <1> USE DEF VoiceInv
  <1>1. \A v \in Voices, part \in Parts :
          file'[v][part] = IF file[v][part] \in Threads THEN "cut" ELSE file[v][part]
    BY DEF ServiceDies, Cut
  <1>2. FileType'
    <2>1. file' = [v \in Voices |-> [part \in Parts |->
                     IF file[v][part] \in Threads THEN "cut" ELSE file[v][part]]]
      BY DEF ServiceDies, Cut
    <2> QED BY <2>1 DEF FileType, Content
  <1>3. ThreadType'
    BY DEF ServiceDies, ThreadType, Labels
  <1>4. \A x \in Threads : at'[x] = "idle"
    BY DEF ServiceDies
  <1>5. WritersKnown'
    BY <1>1, VoiceAssumption DEF WritersKnown, Threads
  <1>6. Orderly'
    <2>1. UNCHANGED overlapped /\ \A x \in Threads, v \in Voices : ~Fetches(x, v)'
      BY <1>4 DEF ServiceDies, Fetches, Fetching
    <2>2. \A v \in Voices \ overlapped : file'[v]["config"] # "absent" => file'[v]["model"] = "whole"
      BY <1>1, VoiceAssumption DEF Orderly, InOrderAlone, Parts, Threads
    <2> QED BY <2>1, <2>2 DEF Orderly, InOrderAlone
  <1> QED BY <1>2, <1>3, <1>5, <1>6

LEMMA EnterStep == ASSUME VoiceInv, NEW x \in Threads, NEW v, Enter(x, v) PROVE VoiceInv'
  BY NoWriter DEF Enter, Labels, Fetching

LEMMA FoundStep == ASSUME VoiceInv, NEW x \in Threads, Found(x) PROVE VoiceInv'
  <1>1. PICK label \in {"idle", "piper"} :
          /\ Move(x, label)
          /\ voice' = [voice EXCEPT ![x] = NoVoice] \/ UNCHANGED voice
    BY DEF Found, Leave
  <1>2. label \in Labels \ Fetching /\ at[x] \notin Fetching /\ UNCHANGED <<file, overlapped>>
    BY DEF Found, Labels, Fetching
  <1> QED BY <1>1, <1>2, NoWriter

LEMMA EnsureStep == ASSUME VoiceInv, NEW x \in Threads, Ensure(x) PROVE VoiceInv'
  BY FoundStep, MissingStep, OpenModelStep, ModelFetchedStep, OpenConfigStep, FetchedStep,
     DownloadFailsStep DEF Ensure

LEMMA LeaveStep ==
  ASSUME VoiceInv, NEW x \in Threads, at[x] = "piper", Leave(x), UNCHANGED <<file, overlapped>>
  PROVE  VoiceInv'
  BY NoWriter DEF Leave, Labels, Fetching

LEMMA VoiceStep == ASSUME VoiceInv, [Next]_vars PROVE VoiceInv'
  <1>1. ASSUME UNCHANGED <<file, at, voice, overlapped>> PROVE VoiceInv'
    <2>1. FileType' /\ ThreadType'
      BY <1>1 DEF VoiceInv, FileType, ThreadType
    <2>2. WritersKnown'
      BY <1>1 DEF VoiceInv, WritersKnown
    <2>3. ASSUME NEW v \in Voices \ overlapped PROVE InOrderAlone(v)'
      <3>1. InOrderAlone(v) /\ \A x \in Threads : Fetches(x, v)' => Fetches(x, v) /\ at'[x] = at[x]
        BY <1>1 DEF VoiceInv, Orderly, Fetches
      <3> QED BY <1>1, <3>1, AloneKept
    <2>4. Orderly'
      BY <1>1, <2>3 DEF Orderly
    <2> QED BY <2>1, <2>2, <2>4 DEF VoiceInv
  <1> USE DEF Threads
  <1>2. CASE Parse \/ Stitch \/ UNCHANGED vars
    <2>1. Parse \/ Stitch => UNCHANGED modelVars
      BY Zenon DEF Parse, Stitch
    <2> QED BY <1>1, <1>2, <2>1 DEF vars, modelVars, thread
  <1>3. CASE StartNext
    BY <1>3, EnterStep DEF StartNext, StartupNext
  <1>4. CASE Die
    BY <1>4, ServiceDiesStep DEF Die
  <1>5. ASSUME NEW x \in Threads, EnsureModel(x) PROVE VoiceInv'
    BY <1>5, EnsureStep DEF EnsureModel
  <1>6. ASSUME NEW i \in DOMAIN segments, CacheHit(i) PROVE VoiceInv'
    BY <1>1, <1>6 DEF CacheHit, modelVars, thread
  <1>7. ASSUME NEW i \in DOMAIN segments, NEW x \in Requests, Ask(x, i) PROVE VoiceInv'
    BY <1>7, EnterStep DEF Ask
  <1>8. ASSUME NEW x \in Requests, Speak(x) PROVE VoiceInv'
    BY <1>8, LeaveStep DEF Speak
  <1>9. ASSUME NEW x \in Requests, Mute(x) PROVE VoiceInv'
    BY <1>9, LeaveStep DEF Mute
  <1>10. ASSUME NEW x \in Requests, GiveUp(x) PROVE VoiceInv'
    BY <1>1, <1>10 DEF GiveUp, thread
  <1> QED BY <1>2, <1>3, <1>4, <1>5, <1>6, <1>7, <1>8, <1>9, <1>10 DEF Next

LEMMA VoiceHeals == VoiceInv => CutModelHeals
  <1> SUFFICES ASSUME VoiceInv, NEW v \in Voices, Present(v),
                      \A x \in Threads : ~(voice[x] = v /\ at[x] \in Parts)
               PROVE  \/ Whole(v)
                      \/ file[v]["config"] = "cut"
                      \/ file[v]["model"] = "cut" /\ v \in overlapped
    BY DEF CutModelHeals
  <1>1. \A part \in Parts : file[v][part] \in {"cut", "whole"}
    BY DEF VoiceInv, FileType, WritersKnown, Present, Content
  <1>2. v \notin overlapped => file[v]["model"] = "whole"
    BY DEF VoiceInv, Orderly, InOrderAlone, Present, Parts
  <1> QED BY <1>1, <1>2 DEF Whole, Parts

\* For any numbers of requests, voices and faults: a download that breaks off is made
\* good by the next request, unless it is that of a config file, or of a model that two
\* threads have been fetching at a time, from their checks on (_ensure_model of
\* tts-service/app.py).
THEOREM CutModelHealsAlways == Spec => []CutModelHeals
  <1>1. VoiceInv /\ [Next]_vars => VoiceInv'
    BY VoiceStep
  <1> QED BY VoiceInit, <1>1, VoiceHeals, PTL DEF Spec

-----------------------------------------------------------------------------
(***************************************************************************)
(* The audio of the tasks.                                                 *)
(***************************************************************************)

Spoken(speaker, words) == <<Header, [voice |-> VoiceOf(speaker), text |-> words]>>

\* The part of DramaFaithful that does not depend on how the chunks are put together.
AudioFaithful ==
  \A i \in DOMAIN audio :
    audio[i] # <<>> => audio[i] = Spoken(segments[i].speaker, segments[i].text)

\* What is found under a hash was spoken for it.
CacheFaithful == \A c \in cache : c.object = Spoken(c.hash[1], c.hash[2])

\* A thread somebody waits for has the voice of the speaker it was asked for.
AskedRight ==
  /\ chunk \in [Requests -> {0} \cup DOMAIN segments]
  /\ voice = [x \in Threads |-> voice[x]]
  /\ at = [x \in Threads |-> at[x]]
  /\ \A x \in Requests : chunk[x] # 0 => voice[x] = VoiceOf(segments[chunk[x]].speaker)

SpokenInv == AudioFaithful /\ CacheFaithful /\ AskedRight

LEMMA SpokenInit == Init => SpokenInv
  BY DEF Init, SpokenInv, AudioFaithful, CacheFaithful, AskedRight

LEMMA ParseSpoken == ASSUME SpokenInv, Parse PROVE SpokenInv'
  <1> USE DEF SpokenInv, Parse
  <1>1. AudioFaithful'
    BY DEF AudioFaithful
  <1>2. CacheFaithful'
    BY DEF CacheFaithful
  <1>3. \A x \in Requests : chunk[x] = 0
    BY DEF AskedRight
  <1>4. AskedRight'
    BY <1>3 DEF AskedRight, modelVars, thread
  <1> QED BY <1>1, <1>2, <1>4

LEMMA CacheHitSpoken ==
  ASSUME SpokenInv, NEW i \in DOMAIN segments, CacheHit(i) PROVE SpokenInv'
  <1> USE DEF SpokenInv
  <1>1. PICK c \in cache : c.hash = Hash(i) /\ audio' = [audio EXCEPT ![i] = c.object]
    BY DEF CacheHit
  <1>2. UNCHANGED <<file, at, voice, segments, cache, chunk>>
    BY DEF CacheHit, modelVars, thread
  <1>3. c.object = Spoken(segments[i].speaker, segments[i].text)
    BY <1>1 DEF CacheFaithful, Hash
  <1>4. AudioFaithful'
    BY <1>1, <1>2, <1>3 DEF AudioFaithful, Spoken
  <1> QED BY <1>2, <1>4 DEF CacheFaithful, AskedRight, Spoken

LEMMA SpeakSpoken == ASSUME SpokenInv, NEW x \in Requests, Speak(x) PROVE SpokenInv'
  <1> DEFINE i == chunk[x]
             object == <<Header, [voice |-> voice[x], text |-> segments[i].text]>>
  <1> USE DEF SpokenInv
  <1>1. /\ i # 0 /\ UNCHANGED segments
        /\ audio' = [audio EXCEPT ![i] = object]
        /\ cache' = cache \cup {[hash |-> Hash(i), object |-> object]}
        /\ at' = [at EXCEPT ![x] = "idle"] /\ voice' = [voice EXCEPT ![x] = NoVoice]
        /\ chunk' = [chunk EXCEPT ![x] = 0]
    BY DEF Speak, Leave, Move,
       Fetching
  <1>2. object = Spoken(segments[i].speaker, segments[i].text)
    BY <1>1 DEF AskedRight, Spoken
  <1>3. AudioFaithful'
    BY <1>1, <1>2 DEF AudioFaithful, Spoken
  <1>4. CacheFaithful'
    <2>1. Hash(i)[1] = segments[i].speaker /\ Hash(i)[2] = segments[i].text
      BY DEF Hash
    <2>2. ASSUME NEW c \in cache' PROVE c.object = Spoken(c.hash[1], c.hash[2])
      <3>1. CASE c \in cache
        BY <3>1 DEF CacheFaithful
      <3>2. CASE c = [hash |-> Hash(i), object |-> object]
        <4>1. c.hash = Hash(i) /\ c.object = object
          BY <3>2
        <4> QED BY <4>1, <1>2, <2>1
      <3> QED BY <1>1, <3>1, <3>2
    <2> QED BY <2>2 DEF CacheFaithful, Spoken
  <1>5. AskedRight'
    BY <1>1 DEF AskedRight, Threads
  <1> QED BY <1>3, <1>4, <1>5

\* The threads move; nobody waits for one that has changed its voice.
LEMMA MoveSpoken ==
  ASSUME SpokenInv, UNCHANGED <<segments, audio, cache>>,
         at' = [x \in Threads |-> at'[x]], voice' = [x \in Threads |-> voice'[x]],
         chunk' = [x \in Requests |-> chunk'[x]],
         \A x \in Requests : chunk'[x] = 0 \/ (chunk'[x] = chunk[x] /\ voice'[x] = voice[x])
  PROVE  SpokenInv'
  <1> USE DEF SpokenInv
  <1>1. AudioFaithful' /\ CacheFaithful'
    BY DEF AudioFaithful, CacheFaithful, Spoken
  <1>2. AskedRight'
    BY DEF AskedRight
  <1> QED BY <1>1, <1>2

LEMMA EnsureSpoken == ASSUME SpokenInv, NEW x \in Threads, EnsureModel(x) PROVE SpokenInv'
  <1>1. /\ UNCHANGED <<segments, audio, cache>>
        /\ chunk' = [y \in Requests |-> IF y = x /\ at'[x] = "idle" THEN 0 ELSE chunk[y]]
    BY DEF EnsureModel, content
  <1>2. PICK label \in {"idle", "piper"} \cup Fetching :
          /\ at' = [at EXCEPT ![x] = label]
          /\ \/ UNCHANGED voice
             \/ label = "idle" /\ voice' = [voice EXCEPT ![x] = NoVoice]
    BY DEF EnsureModel, Ensure, Found, Missing, OpenModel, ModelFetched,
       OpenConfig, Fetched, DownloadFails, Leave, Move,
       Fetching
  <1>3. /\ at' = [y \in Threads |-> at'[y]] /\ voice' = [y \in Threads |-> voice'[y]]
        /\ label = "idle" => at'[x] = "idle"
        /\ \A y \in Threads \ {x} : voice'[y] = voice[y]
    BY <1>2 DEF SpokenInv, AskedRight
  <1> QED BY <1>1, <1>2, <1>3, MoveSpoken DEF Threads

LEMMA AskSpoken ==
  ASSUME SpokenInv, NEW x \in Requests, NEW i \in DOMAIN segments, Ask(x, i) PROVE SpokenInv'
  <1> USE DEF SpokenInv
  <1>1. /\ UNCHANGED <<segments, audio, cache>>
        /\ at' = [at EXCEPT ![x] = "ensure"]
        /\ voice' = [voice EXCEPT ![x] = VoiceOf(segments[i].speaker)]
        /\ chunk' = [chunk EXCEPT ![x] = i]
    BY DEF Ask, Enter, Move, content
  <1>2. AudioFaithful' /\ CacheFaithful'
    BY <1>1 DEF AudioFaithful, CacheFaithful, Spoken
  <1>3. AskedRight'
    BY <1>1 DEF AskedRight, Threads
  <1> QED BY <1>2, <1>3

LEMMA SpokenStep == ASSUME SpokenInv, [Next]_vars PROVE SpokenInv'
  <1> USE DEF content
  <1>1. ASSUME UNCHANGED <<at, voice, segments, audio, cache, chunk>> PROVE SpokenInv'
    BY <1>1, MoveSpoken DEF SpokenInv, AskedRight
  <1>2. CASE Parse
    BY <1>2, ParseSpoken
  <1>3. CASE Stitch
    <2>1. UNCHANGED <<modelVars, text, content, chunk>>
      BY <1>3, Zenon DEF Stitch
    <2> QED BY <1>1, <2>1 DEF modelVars, thread
  <1>4. CASE UNCHANGED vars
    BY <1>1, <1>4 DEF vars, modelVars, thread
  <1>5. CASE StartNext
    <2>1. PICK name \in ahead : Enter(Startup, Registry[name])
      BY <1>5 DEF StartNext, StartupNext
    <2>2. /\ at' = [at EXCEPT ![Startup] = "ensure"] /\ voice' = [voice EXCEPT ![Startup] = Registry[name]]
          /\ UNCHANGED <<segments, audio, cache, chunk>>
      BY <1>5, <2>1 DEF StartNext, Enter, Move
    <2> QED BY <2>2, MoveSpoken, VoiceAssumption DEF SpokenInv, AskedRight, Threads
  <1>6. CASE Die
    BY <1>6, MoveSpoken DEF Die, ServiceDies
  <1>7. ASSUME NEW x \in Threads, EnsureModel(x) PROVE SpokenInv'
    BY <1>7, EnsureSpoken
  <1>8. ASSUME NEW i \in DOMAIN segments, CacheHit(i) PROVE SpokenInv'
    BY <1>8, CacheHitSpoken
  <1>9. ASSUME NEW i \in DOMAIN segments, NEW x \in Requests, Ask(x, i) PROVE SpokenInv'
    BY <1>9, AskSpoken
  <1>10. ASSUME NEW x \in Requests, Speak(x) PROVE SpokenInv'
    BY <1>10, SpeakSpoken
  <1>11. ASSUME NEW x \in Requests, Mute(x) \/ GiveUp(x) PROVE SpokenInv'
    <2>1. /\ UNCHANGED <<segments, audio, cache>> /\ chunk' = [chunk EXCEPT ![x] = 0]
          /\ \/ UNCHANGED <<at, voice>>
             \/ at' = [at EXCEPT ![x] = "idle"] /\ voice' = [voice EXCEPT ![x] = NoVoice]
      BY <1>11 DEF Mute, GiveUp, Leave, Move, thread
    <2> QED BY <2>1, MoveSpoken DEF SpokenInv, AskedRight, Threads
  <1> QED BY <1>2, <1>3, <1>4, <1>5, <1>6, <1>7, <1>8, <1>9, <1>10, <1>11 DEF Next

\* For every manuscript and registry, whatever the cache, the service and the workers
\* that wait for it do, a task's audio is its own words in the voice of its own speaker
\* (input_hash in parse.py, the cache in tts.py, /synthesise).
THEOREM AudioFaithfulAlways == Spec => []AudioFaithful
  <1>1. SpokenInv /\ [Next]_vars => SpokenInv'
    BY SpokenStep
  <1>2. SpokenInv => AudioFaithful
    BY DEF SpokenInv
  <1> QED BY SpokenInit, <1>1, <1>2, PTL DEF Spec

-----------------------------------------------------------------------------
(***************************************************************************)
(* The assembly, for any list of chunks.                                   *)
(***************************************************************************)

LEMMA IncreasingAbove ==
  ASSUME NEW n \in Nat, NEW idx \in [1 .. n -> Nat], \A i, j \in 1 .. n : i < j => idx[i] < idx[j]
  PROVE  \A i \in 1 .. n : idx[i] >= i - 1
  <1> DEFINE Good == {i \in Nat : i \in 1 .. n => idx[i] >= i - 1}
  <1>1. 0 \in Good
    OBVIOUS
  <1>2. ASSUME NEW i \in Nat, i \in Good PROVE i + 1 \in Good
    <2> SUFFICES ASSUME i + 1 \in 1 .. n PROVE idx[i + 1] >= (i + 1) - 1
      OBVIOUS
    <2>1. idx[i + 1] \in Nat
      OBVIOUS
    <2>2. CASE i # 0
      <3>1. i \in 1 .. n /\ idx[i] \in Nat /\ i < i + 1
        BY <2>2
      <3>2. idx[i] < idx[i + 1] /\ idx[i] >= i - 1
        BY <1>2, <3>1
      <3> QED BY <2>1, <3>1, <3>2
    <2> QED BY <2>1, <2>2
  <1>3. Nat \subseteq Good
    <2> HIDE DEF Good
    <2> QED BY <1>1, <1>2, Induct
  <1> QED BY <1>3

\* The gaps stand behind the first g chunks.
LEMMA GapsFirst ==
  ASSUME NEW n \in Nat \ {0}, NEW idx \in [1 .. n -> Nat],
         \A i, j \in 1 .. n : i < j => idx[i] < idx[j]
  PROVE  \E g \in 0 .. n - 1 :
           /\ \A k \in 1 .. n : idx[k] + 1 < n <=> k <= g
           /\ (\A k \in 1 .. n : idx[k] = k - 1) => g = n - 1
  <1> DEFINE S == {k \in Nat : k + 1 \in 1 .. n /\ ~(idx[k + 1] + 1 < n)}
  <1>1. n - 1 \in S
    <2>1. n - 1 \in Nat /\ (n - 1) + 1 = n /\ n \in 1 .. n /\ n \in Nat /\ idx[n] \in Nat
      OBVIOUS
    <2>2. idx[n] >= n - 1
      BY <2>1, IncreasingAbove
    <2> QED BY <2>1, <2>2
  <1>2. PICK g \in S : \A k \in S : g <= k
    BY <1>1, Least
  <1>3. g \in 0 .. n - 1 /\ ~(idx[g + 1] + 1 < n) /\ g + 1 \in 1 .. n /\ idx[g + 1] \in Nat
    BY <1>2
  <1>4. ASSUME NEW k \in 1 .. n PROVE idx[k] + 1 < n <=> k <= g
    <2>1. idx[k] \in Nat
      OBVIOUS
    <2>2. CASE k <= g
      <3>1. k - 1 \in Nat /\ (k - 1) + 1 = k /\ ~(g <= k - 1)
        BY <1>3, <2>2
      <3>2. k - 1 \notin S
        BY <1>2, <3>1
      <3> QED BY <2>2, <3>1, <3>2
    <2>3. CASE k = g + 1
      BY <1>3, <2>3
    <2>4. CASE k > g + 1
      <3>1. idx[g + 1] < idx[k]
        BY <1>3, <2>4
      <3> QED BY <1>3, <2>1, <2>4, <3>1
    <2> QED BY <1>3, <2>2, <2>3, <2>4
  <1>5. ASSUME \A k \in 1 .. n : idx[k] = k - 1 PROVE g = n - 1
    BY <1>3, <1>5
  <1> QED BY <1>3, <1>4, <1>5

\* Chunk k of a drama with g gaps sounds behind the header and what came before it.
Place(g, k) == IF k <= g THEN 2 * k ELSE k + g + 1

\* What is put together, and what that looks like after i chunks.
Pieced(T, n, fr, g, f, seqs) ==
  /\ n \in Nat \ {0} /\ g \in 0 .. n /\ fr \in [1 .. n -> T]
  /\ \A i \in 1 .. n :
       /\ seqs[i] \in Seq(T) /\ seqs[i][1] = fr[i]
       /\ IF i <= g THEN Len(seqs[i]) = 2 /\ seqs[i][2] = Silence ELSE Len(seqs[i]) = 1
  /\ f \in [1 .. n -> Seq(T)] /\ f[1] = seqs[1]
  /\ \A i \in 1 .. n : i > 1 => f[i] = f[i - 1] \o seqs[i]
Placed(fr, g, s, i) ==
  /\ Len(s) = IF i <= g THEN 2 * i ELSE i + g
  /\ \A k \in 1 .. i : s[Place(g, k) - 1] = fr[k]
  /\ \A k \in 1 .. i : k <= g => s[2 * k] = Silence

LEMMA PrefixPlaces ==
  ASSUME NEW T, NEW n, NEW fr, NEW g, NEW f, NEW seqs, Pieced(T, n, fr, g, f, seqs)
  PROVE  \A i \in 1 .. n : Placed(fr, g, f[i], i)
  <1> USE DEF Pieced
  <1> DEFINE P(i) == Placed(fr, g, f[i], i)
             Good == {i \in Nat : i \in 1 .. n => P(i)}
  <1>1. 0 \in Good
    OBVIOUS
  <1>2. ASSUME NEW i \in Nat, i \in Good PROVE i + 1 \in Good
    <2> DEFINE j == i + 1
    <2> SUFFICES ASSUME j \in 1 .. n PROVE P(j)
      OBVIOUS
    <2>1. fr[j] \in T /\ j \in 1 .. n
      OBVIOUS
    <2>2. CASE i = 0
      <3>1. j = 1 /\ f[j] = seqs[j]
        BY <2>2
      <3>2. Place(g, j) - 1 = 1
        BY <2>2 DEF Place
      <3> HIDE DEF j
      <3>3. Len(f[j]) = IF j <= g THEN 2 * j ELSE j + g
        <4>1. ~(j <= g) => g = 0
          BY <3>1
        <4>2. IF j <= g THEN Len(seqs[j]) = 2 ELSE Len(seqs[j]) = 1
          BY <2>1
        <4>3. f[1] = seqs[1] /\ j = 1
          BY <3>1
        <4>4. CASE j <= g
          <5>1. Len(f[j]) = 2
            BY <4>2, <4>3, <4>4
          <5> QED BY <4>3, <4>4, <5>1
        <4>5. CASE ~(j <= g)
          <5>1. Len(f[j]) = 1
            BY <4>2, <4>3, <4>5
          <5> QED BY <4>1, <4>3, <4>5, <5>1
        <4> QED BY <4>4, <4>5
      <3>4. f[j][1] = fr[j] /\ (j <= g => f[j][2] = Silence)
        BY <2>1, <3>1
      <3> QED BY <3>1, <3>2, <3>3, <3>4 DEF Placed
    <2>3. CASE i # 0
      <3>1. i \in 1 .. n /\ P(i) /\ j > 1 /\ j - 1 = i
        BY <1>2, <2>3
      <3>2. f[j] = f[i] \o seqs[j]
        BY <2>1, <3>1
      <3> DEFINE a == f[i]
      <3>3. a \in Seq(T) /\ Len(a) = IF i <= g THEN 2 * i ELSE i + g
        BY <3>1 DEF Placed
      <3>4. ASSUME NEW k \in 1 .. i
            PROVE  /\ Place(g, k) - 1 \in 1 .. Len(a)
                   /\ k <= g => 2 * k \in 1 .. Len(a)
        <4>1. k \in Nat /\ k <= i /\ i \in Nat /\ g \in Nat /\ k > 0
          OBVIOUS
        <4> DEFINE l == Len(a)
        <4>2. l = IF i <= g THEN 2 * i ELSE i + g
          BY <3>3
        <4> HIDE DEF l, a
        <4>3. Place(g, k) - 1 \in 1 .. l /\ (k <= g => 2 * k \in 1 .. l)
          BY <4>1, <4>2 DEF Place
        <4> QED BY <4>3 DEF l
      <3>5. Place(g, j) - 1 = Len(a) + 1
        <4>1. i \in Nat /\ g \in Nat /\ j = i + 1
          OBVIOUS
        <4> DEFINE l == Len(a)
        <4>2. l = IF i <= g THEN 2 * i ELSE i + g
          BY <3>3
        <4> HIDE DEF l, a, j, Pieced
        <4>3. Place(g, j) - 1 = l + 1
          BY <4>1, <4>2 DEF Place
        <4> QED BY <4>3 DEF l
      <3> DEFINE b == seqs[j]
      <3> HIDE DEF a, b, j
      <3>6. b \in Seq(T) => /\ Len(a \o b) = Len(a) + Len(b)
                            /\ \A x \in 1 .. Len(a) : (a \o b)[x] = a[x]
                            /\ \A x \in 1 .. Len(b) : (a \o b)[Len(a) + x] = b[x]
        <4> SUFFICES ASSUME b \in Seq(T)
                     PROVE  /\ Len(a \o b) = Len(a) + Len(b)
                            /\ \A x \in 1 .. Len(a) : (a \o b)[x] = a[x]
                            /\ \A x \in 1 .. Len(b) : (a \o b)[Len(a) + x] = b[x]
          OBVIOUS
        <4>1. a \in Seq(T)
          BY <3>3
        <4> HIDE DEF Pieced
        <4> QED BY <4>1, ConcatAt
      <3>7. CASE j <= g
        <4>1. f[j] = a \o b /\ Len(b) = 2 /\ b \in Seq(T) /\ b[1] = fr[j] /\ b[2] = Silence
          BY <2>1, <3>2, <3>7 DEF a, b
        <4>2. Len(f[j]) = Len(a) + 2 /\ \A x \in 1 .. Len(a) : f[j][x] = a[x]
          BY <3>6, <4>1
        <4>3. f[j][Len(a) + 1] = fr[j] /\ f[j][Len(a) + 2] = Silence
          BY <3>6, <4>1
        <4>4. Len(f[j]) = 2 * j /\ Len(a) + 2 = 2 * j
          BY <3>3, <3>7, <4>2 DEF j
        <4>5. ASSUME NEW k \in 1 .. j PROVE f[j][Place(g, k) - 1] = fr[k]
          <5>1. CASE k = j
            BY <3>5, <4>3, <5>1
          <5>2. CASE k # j
            <6>1. k \in 1 .. i
              BY <5>2 DEF j
            <6> QED BY <3>1, <3>4, <4>2, <6>1 DEF a, Placed
          <5> QED BY <5>1, <5>2
        <4>6. ASSUME NEW k \in 1 .. j, k <= g PROVE f[j][2 * k] = Silence
          <5>1. CASE k = j
            BY <4>3, <4>4, <5>1
          <5>2. CASE k # j
            <6>1. k \in 1 .. i
              BY <5>2 DEF j
            <6> QED BY <3>1, <3>4, <4>2, <4>6, <6>1 DEF a, Placed
          <5> QED BY <5>1, <5>2
        <4> QED BY <3>7, <4>4, <4>5, <4>6 DEF Placed
      <3>8. CASE ~(j <= g)
        <4>1. f[j] = a \o b /\ Len(b) = 1 /\ b \in Seq(T) /\ b[1] = fr[j]
          BY <2>1, <3>2, <3>8 DEF a, b
        <4>2. Len(f[j]) = Len(a) + 1 /\ \A x \in 1 .. Len(a) : f[j][x] = a[x]
          BY <3>6, <4>1
        <4>3. f[j][Len(a) + 1] = fr[j]
          BY <3>6, <4>1
        <4>4. Len(f[j]) = j + g
          BY <3>3, <3>8, <4>2 DEF j
        <4>5. ASSUME NEW k \in 1 .. j PROVE f[j][Place(g, k) - 1] = fr[k]
          <5>1. CASE k = j
            BY <3>5, <4>3, <5>1
          <5>2. CASE k # j
            <6>1. k \in 1 .. i
              BY <5>2 DEF j
            <6> QED BY <3>1, <3>4, <4>2, <6>1 DEF a, Placed
          <5> QED BY <5>1, <5>2
        <4>6. ASSUME NEW k \in 1 .. j, k <= g PROVE f[j][2 * k] = Silence
          <5>1. k \in 1 .. i
            BY <3>8, <4>6 DEF j
          <5> QED BY <3>1, <3>4, <4>2, <4>6, <5>1 DEF a, Placed
        <4> QED BY <3>8, <4>4, <4>5, <4>6 DEF Placed
      <3> QED BY <3>7, <3>8
    <2> QED BY <2>2, <2>3
  <1>3. Nat \subseteq Good
    <2> HIDE DEF Good
    <2> QED BY <1>1, <1>2, Induct
  <1> QED BY <1>3

Chunks(n, idx, fr) == [k \in 1 .. n |-> [index |-> idx[k], object |-> <<Header, fr[k]>>]]

\* A drama of n chunks with g gaps.
Mounted(T, n, fr, idx, g, s) ==
  /\ (\A k \in 1 .. n : idx[k] = k - 1) => g = n - 1
  /\ s \in Seq(T) /\ Len(s) = 1 + n + g /\ s[1] = Header
  /\ \A k \in 1 .. n : s[Place(g, k)] = fr[k]
  /\ \A k \in 1 .. g : s[2 * k + 1] = Silence

\* What _stitch_chunks makes of n chunks.
LEMMA Assembled ==
  ASSUME NEW T, Header \in T, Silence \in T,
         NEW n \in Nat \ {0}, NEW fr \in [1 .. n -> T], NEW idx \in [1 .. n -> Nat],
         \A i, j \in 1 .. n : i < j => idx[i] < idx[j]
  PROVE  \E g \in 0 .. n - 1 : Mounted(T, n, fr, idx, g, StitchChunks(Chunks(n, idx, fr)))
  <1> DEFINE chunks == Chunks(n, idx, fr)
             seqs == [k \in DOMAIN chunks |-> Sound(chunks[k].object) \o Gap(chunks, k)]
             drama == StitchChunks(chunks)
  <1>1. PICK g \in 0 .. n - 1 : /\ \A k \in 1 .. n : idx[k] + 1 < n <=> k <= g
                                /\ (\A k \in 1 .. n : idx[k] = k - 1) => g = n - 1
    BY GapsFirst
  <1>2. DOMAIN chunks = 1 .. n /\ Len(chunks) = n
    BY DEF Chunks
  <1>3. ASSUME NEW i \in 1 .. n
        PROVE  /\ seqs[i] \in Seq(T) /\ seqs[i][1] = fr[i]
               /\ IF i <= g THEN Len(seqs[i]) = 2 /\ seqs[i][2] = Silence ELSE Len(seqs[i]) = 1
    <2>1. chunks[i].index = idx[i] /\ chunks[i].object = <<Header, fr[i]>> /\ fr[i] \in T
      BY DEF Chunks
    <2>2. Sound(chunks[i].object) = <<fr[i]>>
      <3>1. Head(<<Header, fr[i]>>) = Header /\ Tail(<<Header, fr[i]>>) = <<fr[i]>>
        OBVIOUS
      <3> QED BY <2>1, <3>1 DEF Sound
    <2>3. Gap(chunks, i) = IF i <= g THEN <<Silence>> ELSE <<>>
      BY <1>1, <1>2, <2>1 DEF Gap
    <2>4. seqs[i] = Sound(chunks[i].object) \o Gap(chunks, i)
      BY <1>2
    <2> HIDE DEF seqs, chunks
    <2>5. CASE i <= g
      <3>1. seqs[i] = <<fr[i], Silence>>
        BY <2>1, <2>2, <2>3, <2>4, <2>5, Tuples
      <3> QED BY <2>1, <2>5, <3>1, Tuples
    <2>6. CASE ~(i <= g)
      <3>1. seqs[i] = <<fr[i]>>
        BY <2>1, <2>2, <2>3, <2>4, <2>6, Tuples
      <3> QED BY <2>1, <2>6, <3>1, Tuples
    <2> QED BY <2>5, <2>6
  <1>4. seqs = [k \in 1 .. n |-> seqs[k]]
    BY <1>2
  <1>5. drama = <<Header>> \o FlattenSeq(seqs)
    BY DEF StitchChunks
  <1> HIDE DEF seqs, chunks, drama
  <1>6. seqs \in Seq(Seq(T)) /\ seqs # <<>> /\ Len(seqs) = n
    <2>1. \A i \in 1 .. n : seqs[i] \in Seq(T)
      BY <1>3
    <2> DEFINE U == Seq(T)
    <2>2. seqs \in [1 .. n -> U]
      BY <1>4, <2>1
    <2> HIDE DEF U
    <2>3. seqs \in Seq(U) /\ Len(seqs) = n
      BY <2>2
    <2> QED BY <2>3 DEF U
  <1>7. PICK f \in [1 .. n -> Seq(T)] :
          /\ f[1] = seqs[1]
          /\ \A i \in 1 .. n : i > 1 => f[i] = f[i - 1] \o seqs[i]
          /\ FlattenSeq(seqs) = f[n]
    BY <1>6, Flatten
  <1>8. /\ Len(f[n]) = n + g
        /\ \A k \in 1 .. n : f[n][Place(g, k) - 1] = fr[k]
        /\ \A k \in 1 .. n : k <= g => f[n][2 * k] = Silence
    <2>1. g \in 0 .. n /\ n \in Nat /\ n \in 1 .. n
      OBVIOUS
    <2>2. Pieced(T, n, fr, g, f, seqs)
      BY <1>3, <1>7, <2>1 DEF Pieced
    <2>3. Placed(fr, g, f[n], n)
      BY <2>1, <2>2, PrefixPlaces
    <2>4. Len(f[n]) = n + g
      BY <2>1, <2>3 DEF Placed
    <2> QED BY <2>1, <2>3, <2>4 DEF Placed
  <1>9. drama = <<Header>> \o f[n] /\ f[n] \in Seq(T)
    BY <1>5, <1>7
  <1>10. /\ drama \in Seq(T) /\ Len(drama) = 1 + n + g /\ drama[1] = Header
         /\ \A x \in 1 .. n + g : drama[x + 1] = f[n][x]
    <2>1. Header \in T /\ n + g \in Nat
      OBVIOUS
    <2> HIDE DEF drama
    <2>2. /\ drama \in Seq(T) /\ Len(drama) = Len(<<Header>>) + Len(f[n])
          /\ \A x \in 1 .. Len(<<Header>>) : drama[x] = <<Header>>[x]
          /\ \A x \in 1 .. Len(f[n]) : drama[Len(<<Header>>) + x] = f[n][x]
      BY <1>9, <2>1, Tuples, ConcatAt
    <2>3. Len(<<Header>>) = 1 /\ <<Header>>[1] = Header
      BY <2>1, Tuples
    <2> QED BY <1>8, <2>1, <2>2, <2>3
  <1>11. \A k \in 1 .. n : drama[Place(g, k)] = fr[k]
    <2> TAKE k \in 1 .. n
    <2>1. Place(g, k) - 1 \in 1 .. n + g /\ (Place(g, k) - 1) + 1 = Place(g, k)
      BY DEF Place
    <2> QED BY <1>8, <1>10, <2>1
  <1>12. \A k \in 1 .. g : drama[2 * k + 1] = Silence
    <2> TAKE k \in 1 .. g
    <2>1. k \in 1 .. n /\ k <= g /\ 2 * k \in 1 .. n + g
      OBVIOUS
    <2> QED BY <1>8, <1>10, <2>1
  <1> QED BY <1>1, <1>10, <1>11, <1>12 DEF drama, chunks, Mounted

\* Every place in the drama is the header's, a chunk's or a gap's.
LEMMA PlacesCover ==
  ASSUME NEW n \in Nat \ {0}, NEW g \in 0 .. n - 1
  PROVE  /\ \A k \in 1 .. n : Place(g, k) \in 2 .. 1 + n + g
         /\ \A j, k \in 1 .. n : j < k => Place(g, j) < Place(g, k)
         /\ \A j \in 1 .. n, k \in 1 .. g : Place(g, j) # 2 * k + 1
         /\ \A x \in 2 .. 1 + n + g :
              (\E k \in 1 .. n : x = Place(g, k)) \/ (\E k \in 1 .. g : x = 2 * k + 1)
  <1>1. ASSUME NEW j \in 1 .. n, NEW k \in 1 .. g PROVE Place(g, j) # 2 * k + 1
    BY DEF Place
  <1>2. ASSUME NEW x \in 2 .. 1 + n + g
        PROVE  (\E k \in 1 .. n : x = Place(g, k)) \/ (\E k \in 1 .. g : x = 2 * k + 1)
    <2>1. CASE x > 2 * g + 1
      <3>1. (x - g) - 1 \in 1 .. n /\ Place(g, (x - g) - 1) = x
        BY <2>1 DEF Place
      <3> QED BY <3>1
    <2>2. CASE x <= 2 * g + 1
      <3>1. PICK k \in Nat : x = 2 * k \/ x = 2 * k + 1
        <4>1. (x = 2 * (x \div 2) \/ x = 2 * (x \div 2) + 1) /\ x \div 2 \in Nat
          BY Z3
        <4> QED BY <4>1
      <3>2. CASE x = 2 * k
        <4>1. k \in 1 .. n /\ k <= g
          BY <2>2, <3>2
        <4> QED BY <3>2, <4>1 DEF Place
      <3>3. CASE x = 2 * k + 1
        <4>1. k \in 1 .. g
          BY <2>2, <3>3
        <4> QED BY <3>3, <4>1
      <3> QED BY <3>1, <3>2, <3>3
    <2> QED BY <2>1, <2>2
  <1>3. \A k \in 1 .. n : Place(g, k) \in 2 .. 1 + n + g
    BY DEF Place
  <1>4. \A j, k \in 1 .. n : j < k => Place(g, j) < Place(g, k)
    BY DEF Place
  <1> QED BY <1>1, <1>2, <1>3, <1>4

FaithfulTo(n, fr, idx, s, silent) ==
  /\ Picked(s, {k \in DOMAIN s : k > 1 /\ s[k] # Silence}) = fr
  /\ \A k \in silent : k # Len(s) /\ k + 1 \notin silent /\ k > 2
  /\ (\A k \in 1 .. n : idx[k] = k - 1) => Cardinality(silent) = n - 1

\* With no chunk and no header that is silence, what sounds behind the header are the
\* chunks in order, and silence is where the gaps are.
LEMMA AssembledFaithful ==
  ASSUME NEW T, Header \in T, Silence \in T, Header # Silence,
         NEW n \in Nat \ {0}, NEW fr \in [1 .. n -> T \ {Silence}], NEW idx \in [1 .. n -> Nat],
         \A i, j \in 1 .. n : i < j => idx[i] < idx[j],
         NEW s, s = StitchChunks(Chunks(n, idx, fr)),
         NEW silent, silent = {k \in DOMAIN s : s[k] = Silence}
  PROVE  FaithfulTo(n, fr, idx, s, silent)
  <1> DEFINE sounding == {k \in DOMAIN s : k > 1 /\ s[k] # Silence}
  <1>1. PICK g \in 0 .. n - 1 : Mounted(T, n, fr, idx, g, s)
    <2>1. fr \in [1 .. n -> T]
      OBVIOUS
    <2> QED BY <2>1, Assembled
  <1>2. /\ (\A k \in 1 .. n : idx[k] = k - 1) => g = n - 1
        /\ s \in Seq(T) /\ Len(s) = 1 + n + g /\ s[1] = Header
        /\ \A k \in 1 .. n : s[Place(g, k)] = fr[k]
        /\ \A k \in 1 .. g : s[2 * k + 1] = Silence
    BY <1>1 DEF Mounted
  <1>3. DOMAIN s = 1 .. 1 + n + g /\ \A k \in 1 .. n : fr[k] # Silence
    BY <1>2
  <1>4. /\ \A k \in 1 .. n : Place(g, k) \in 2 .. 1 + n + g
        /\ \A j, k \in 1 .. n : j < k => Place(g, j) < Place(g, k)
        /\ \A x \in 2 .. 1 + n + g :
             (\E k \in 1 .. n : x = Place(g, k)) \/ (\E k \in 1 .. g : x = 2 * k + 1)
    <2> HIDE DEF sounding
    <2> QED BY PlacesCover
  <1>5. silent = {2 * k + 1 : k \in 1 .. g}
    <2>1. ASSUME NEW x \in silent PROVE x \in {2 * k + 1 : k \in 1 .. g}
      <3>1. x \in 2 .. 1 + n + g
        BY <1>2, <1>3
      <3>2. s[x] = Silence /\ \A k \in 1 .. n : x # Place(g, k)
        BY <1>2, <1>3
      <3>3. (\E k \in 1 .. n : x = Place(g, k)) \/ (\E k \in 1 .. g : x = 2 * k + 1)
        BY <3>1, <1>4
      <3> QED BY <3>2, <3>3
    <2>2. ASSUME NEW k \in 1 .. g PROVE 2 * k + 1 \in silent
      <3>1. 2 * k + 1 \in 1 .. 1 + n + g
        OBVIOUS
      <3> QED BY <1>2, <1>3, <3>1
    <2> QED BY <2>1, <2>2
  <1>6. Lists([k \in 1 .. g |-> 2 * k + 1], g, silent)
    BY <1>5 DEF Lists
  <1>7. Cardinality(silent) = g
    <2>1. g \in Nat /\ silent \in SUBSET Nat
      BY <1>5
    <2> HIDE DEF sounding
    <2> QED BY <1>6, <2>1, ListsOnce
  <1>8. \A k \in silent : k # Len(s) /\ k + 1 \notin silent /\ k > 2
    BY <1>2, <1>5
  <1>9. Lists([k \in 1 .. n |-> Place(g, k)], n, sounding)
    <2>1. \A k \in 1 .. n : Place(g, k) \in sounding
      <3> TAKE k \in 1 .. n
      <3>1. Place(g, k) \in 2 .. 1 + n + g
        BY <1>4
      <3>2. s[Place(g, k)] = fr[k] /\ fr[k] # Silence
        BY <1>2, <1>3
      <3> QED BY <1>3, <3>1, <3>2
    <2>2. ASSUME NEW x \in sounding PROVE \E k \in 1 .. n : Place(g, k) = x
      <3>1. x \in 2 .. 1 + n + g
        BY <1>3
      <3>2. ASSUME NEW k \in 1 .. g PROVE x # 2 * k + 1
        <4>1. s[2 * k + 1] = Silence /\ s[x] # Silence
          BY <1>2
        <4> QED BY <4>1
      <3>3. (\E k \in 1 .. n : x = Place(g, k)) \/ (\E k \in 1 .. g : x = 2 * k + 1)
        BY <3>1, <1>4
      <3> QED BY <3>2, <3>3
    <2>3. \A j, k \in 1 .. n : j < k => Place(g, j) < Place(g, k)
      BY <1>4
    <2> HIDE DEF sounding
    <2> QED BY <2>1, <2>2, <2>3 DEF Lists
  <1>10. Picked(s, sounding) = fr
    <2>1. sounding \in SUBSET Nat
      BY <1>3
    <2> DEFINE f == [k \in 1 .. n |-> Place(g, k)]
    <2>2. \A k \in 1 .. n : s[f[k]] = fr[k]
      BY <1>2
    <2>3. Lists(f, n, sounding)
      BY <1>9
    <2> HIDE DEF sounding, f
    <2>4. Cardinality(sounding) = n /\ InOrder(sounding) = f
      BY <2>1, <2>3, InOrderIs
    <2>5. Picked(s, sounding) = [k \in 1 .. n |-> s[f[k]]]
      BY <2>4 DEF Picked
    <2> QED BY <2>2, <2>5
  <1> QED BY <1>2, <1>7, <1>8, <1>10 DEF FaithfulTo

-----------------------------------------------------------------------------
(***************************************************************************)
(* From the manuscript to the drama.                                       *)
(***************************************************************************)

\* The drama, as the chunks of the kept tasks make it.
DramaOf(s, K) ==
  StitchChunks(Chunks(Cardinality(K), [k \in 1 .. Cardinality(K) |-> InOrder(K)[k] - 1],
                      [k \in 1 .. Cardinality(K) |-> Frame(s[InOrder(K)[k]])]))

TextInv ==
  \/ text \in Texts /\ segments = <<>>
  \/ text = <<>> /\ segments # <<>> /\ \E t \in Texts : segments = ParseSegments(t)
FinalInv ==
  \/ final = <<>> /\ kept = {}
  \/ /\ segments # <<>> /\ kept # {} /\ kept \subseteq DOMAIN segments
     /\ final = DramaOf(segments, kept)
ContentInv == SpokenInv /\ TextInv /\ DOMAIN audio = DOMAIN segments /\ FinalInv

LEMMA SegmentsSeq ==
  ASSUME TextInv
  PROVE  /\ \E S : segments \in Seq(S)
         /\ \A i \in DOMAIN segments : Frame(segments[i]) # Silence
  <1>1. CASE segments = <<>>
    <2>1. segments \in Seq({})
      BY <1>1
    <2> QED BY <1>1, <2>1
  <1>2. CASE segments # <<>>
    <2>1. PICK t \in Texts : segments = ParseSegments(t)
      BY <1>2 DEF TextInv
    <2>2. t \in Seq(Range(t)) /\ \A i \in DOMAIN segments : Frame(segments[i]) # Silence
      BY <2>1, DramaAssumption
    <2> QED BY <2>1, <2>2, ParsedSeq
  <1> QED BY <1>1, <1>2

LEMMA ContentInit == Init => ContentInv
  <1> SUFFICES ASSUME Init PROVE ContentInv
    OBVIOUS
  <1>1. SpokenInv
    BY SpokenInit
  <1>2. TextInv /\ DOMAIN audio = DOMAIN segments /\ FinalInv
    BY DEF Init, TextInv, FinalInv
  <1> QED BY <1>1, <1>2 DEF ContentInv

LEMMA StitchContent ==
  ASSUME ContentInv, Stitch PROVE FinalInv'
  <1> DEFINE n == Cardinality(kept')
             idx == [k \in 1 .. n |-> InOrder(kept')[k] - 1]
             fr == [k \in 1 .. n |-> Frame(segments[InOrder(kept')[k]])]
             chunks == [k \in 1 .. n |->
               [index |-> InOrder(kept')[k] - 1, object |-> audio[InOrder(kept')[k]]]]
  <1>1. /\ segments # <<>> /\ segments' = segments
        /\ \A i \in DOMAIN audio : audio[i] # <<>>
        /\ kept' \in (SUBSET DOMAIN audio) \ {{}}
        /\ final' = StitchChunks(chunks)
    BY DEF Stitch, content
  <1>2. PICK S : segments \in Seq(S)
    BY SegmentsSeq DEF ContentInv
  <1>3. kept' # {} /\ kept' \subseteq DOMAIN segments
    <2>1. DOMAIN audio = DOMAIN segments
      BY DEF ContentInv
    <2>2. kept' \in (SUBSET DOMAIN audio) \ {{}}
      BY <1>1
    <2> HIDE DEF ContentInv
    <2>3. kept' \in (SUBSET DOMAIN segments) \ {{}}
      BY <2>1, <2>2, Zenon
    <2> QED BY <2>3
  <1>4. kept' \in SUBSET Nat /\ IsFiniteSet(kept')
    <2>1. Len(segments) \in Nat /\ DOMAIN segments = 1 .. Len(segments)
      BY <1>2
    <2>2. IsFiniteSet(1 .. Len(segments)) /\ kept' \subseteq 1 .. Len(segments)
      BY <1>3, <2>1, FS_Interval
    <2>3. IsFiniteSet(kept')
      BY <2>2, FS_Subset
    <2> QED BY <2>1, <2>2, <2>3
  <1>5. \A k \in 1 .. n : InOrder(kept')[k] \in kept'
    BY <1>4, InOrderLists DEF Lists
  <1>6. \A k \in 1 .. n : audio[InOrder(kept')[k]] = <<Header, Frame(segments[InOrder(kept')[k]])>>
    BY <1>1, <1>5 DEF ContentInv, SpokenInv, AudioFaithful, Spoken, Frame
  <1>7. chunks = Chunks(n, idx, fr)
    <2>1. \A k \in 1 .. n : chunks[k] = [index |-> idx[k], object |-> <<Header, fr[k]>>]
      BY <1>6
    <2>2. chunks = [k \in 1 .. n |-> chunks[k]]
      OBVIOUS
    <2> HIDE DEF chunks, idx, fr, n
    <2> QED BY <2>1, <2>2 DEF Chunks
  <1>8. final' = DramaOf(segments', kept')
    BY <1>1, <1>7 DEF DramaOf
  <1> QED BY <1>1, <1>3, <1>8 DEF FinalInv

LEMMA ContentStep == ASSUME ContentInv, [Next]_vars PROVE ContentInv'
  <1>1. SpokenInv'
    BY SpokenStep DEF ContentInv
  <1> USE DEF ContentInv
  <1>2. ASSUME UNCHANGED <<text, segments, result>>, DOMAIN audio' = DOMAIN audio PROVE ContentInv'
    BY <1>1, <1>2 DEF TextInv, FinalInv, result
  <1>3. CASE Parse
    <2>1. /\ segments = <<>> /\ segments' = ParseSegments(text) /\ segments' # <<>> /\ text' = <<>>
          /\ DOMAIN audio' = DOMAIN segments' /\ UNCHANGED <<kept, final>>
      BY <1>3 DEF Parse, result
    <2>2. TextInv' /\ FinalInv'
      BY <2>1 DEF TextInv, FinalInv
    <2> QED BY <1>1, <2>1, <2>2
  <1>4. CASE Stitch
    <2>1. UNCHANGED <<text, segments, audio>>
      BY <1>4 DEF Stitch, content
    <2> QED BY <1>1, <1>4, <2>1, StitchContent DEF TextInv
  <1>5. CASE StartNext \/ Die \/ UNCHANGED vars
    BY <1>2, <1>5 DEF StartNext, Die, vars, content
  <1>6. ASSUME NEW x \in Threads, EnsureModel(x) PROVE ContentInv'
    BY <1>2, <1>6 DEF EnsureModel, content
  <1>7. ASSUME NEW i \in DOMAIN segments, CacheHit(i) PROVE ContentInv'
    BY <1>2, <1>7 DEF CacheHit
  <1>8. ASSUME NEW i \in DOMAIN segments, NEW x \in Requests, Ask(x, i) PROVE ContentInv'
    BY <1>2, <1>8 DEF Ask, content
  <1>9. ASSUME NEW x \in Requests, Speak(x) PROVE ContentInv'
    BY <1>2, <1>9 DEF Speak
  <1>10. ASSUME NEW x \in Requests, Mute(x) \/ GiveUp(x) PROVE ContentInv'
    BY <1>2, <1>10 DEF Mute, GiveUp, content
  <1> QED BY <1>3, <1>4, <1>5, <1>6, <1>7, <1>8, <1>9, <1>10 DEF Next

LEMMA FinalFaithful == ContentInv => DramaFaithful /\ GapsBetween
  <1> SUFFICES ASSUME ContentInv PROVE DramaFaithful /\ GapsBetween
    OBVIOUS
  <1>1. CASE final = <<>>
    <2>1. {k \in DOMAIN final : final[k] = Silence} = {}
      BY <1>1
    <2> QED BY <1>1, <2>1 DEF DramaFaithful, GapsBetween
  <1>2. CASE final # <<>>
    <2> DEFINE n == Cardinality(kept)
               idx == [k \in 1 .. n |-> InOrder(kept)[k] - 1]
               fr == [k \in 1 .. n |-> Frame(segments[InOrder(kept)[k]])]
               T == {Header, Silence} \cup {fr[k] : k \in 1 .. n}
               silent == {k \in DOMAIN final : final[k] = Silence}
    <2>1. /\ segments # <<>> /\ kept # {} /\ kept \subseteq DOMAIN segments
          /\ final = StitchChunks(Chunks(n, idx, fr))
      BY <1>2 DEF ContentInv, FinalInv, DramaOf
    <2>2. /\ \E S : segments \in Seq(S)
          /\ \A i \in DOMAIN segments : Frame(segments[i]) # Silence
      BY SegmentsSeq DEF ContentInv
    <2>3. Len(segments) \in Nat /\ DOMAIN segments = 1 .. Len(segments)
      BY <2>2
    <2>4. kept \in SUBSET Nat /\ IsFiniteSet(kept) /\ \A i \in kept : i >= 1
      <3>1. IsFiniteSet(1 .. Len(segments)) /\ kept \subseteq 1 .. Len(segments)
        BY <2>1, <2>3, FS_Interval
      <3>2. IsFiniteSet(kept)
        BY <3>1, FS_Subset
      <3> QED BY <2>3, <3>1, <3>2
    <2>5. n \in Nat /\ Lists(InOrder(kept), n, kept)
      BY <2>4, InOrderLists
    <2>6. n \in Nat \ {0}
      <3>1. n # 0
        BY <2>1, <2>5 DEF Lists
      <3> QED BY <2>5, <3>1
    <2>7. \A k \in 1 .. n : InOrder(kept)[k] \in kept /\ InOrder(kept)[k] \in Nat
                             /\ InOrder(kept)[k] >= 1
      BY <2>4, <2>5 DEF Lists
    <2>8. idx \in [1 .. n -> Nat] /\ \A i, j \in 1 .. n : i < j => idx[i] < idx[j]
      <3>1. \A i, j \in 1 .. n : i < j => InOrder(kept)[i] < InOrder(kept)[j]
        BY <2>5 DEF Lists
      <3> QED BY <2>7, <3>1
    <2>9. fr \in [1 .. n -> T \ {Silence}] /\ Header \in T /\ Silence \in T
      <3>1. \A k \in 1 .. n : fr[k] # Silence /\ fr[k] \in T
        BY <2>1, <2>2, <2>7
      <3> QED BY <3>1
    <2>10. kept = DOMAIN segments => n = Len(segments) /\ \A k \in 1 .. n : idx[k] = k - 1
      <3> SUFFICES ASSUME kept = DOMAIN segments
                   PROVE  n = Len(segments) /\ \A k \in 1 .. n : idx[k] = k - 1
        OBVIOUS
      <3> DEFINE f == [k \in 1 .. Len(segments) |-> k]
      <3>1. Lists(f, Len(segments), kept)
        BY <2>3 DEF Lists
      <3> HIDE DEF f
      <3>2. n = Len(segments) /\ InOrder(kept) = f
        BY <2>3, <2>4, <3>1, InOrderIs
      <3> QED BY <3>2 DEF f
    <2>11. Frames = Picked(final, {k \in DOMAIN final : k > 1 /\ final[k] # Silence})
      BY DEF Frames
    <2>12. Header # Silence /\ silent = {k \in DOMAIN final : final[k] = Silence}
      BY DramaAssumption
    <2>13. fr = [k \in 1 .. Cardinality(kept) |-> Frame(segments[InOrder(kept)[k]])]
      OBVIOUS
    <2> HIDE DEF n, idx, fr, T, silent
    <2>14. FaithfulTo(n, fr, idx, final, silent)
      BY <2>1, <2>6, <2>8, <2>9, <2>12, AssembledFaithful
    <2>15. /\ Picked(final, {k \in DOMAIN final : k > 1 /\ final[k] # Silence}) = fr
           /\ \A k \in silent : k # Len(final) /\ k + 1 \notin silent /\ k > 2
           /\ (\A k \in 1 .. n : idx[k] = k - 1) => Cardinality(silent) = n - 1
      BY <2>14 DEF FaithfulTo
    <2>16. DramaFaithful
      BY <2>11, <2>13, <2>15 DEF DramaFaithful
    <2>17. GapsBetween
      BY <2>10, <2>12, <2>15 DEF GapsBetween
    <2> QED BY <2>16, <2>17
  <1> QED BY <1>1, <1>2

LEMMA TextFaithful == TextInv => SegmentsFaithful
  <1> SUFFICES ASSUME TextInv PROVE SegmentsFaithful
    OBVIOUS
  <1>1. text \in Seq(Range(text))
    <2>1. <<>> \in Seq(Range(<<>>))
      OBVIOUS
    <2> QED BY <2>1, DramaAssumption DEF TextInv
  <1> DEFINE heard == ParseSegments(text)
             labelled == Picked(text, {i \in DOMAIN text : Labelled(text[i])})
             spoken == FlattenSeq([i \in DOMAIN heard |-> heard[i].text])
  <1>2. /\ heard = ParseSegments(text)
        /\ labelled = Picked(text, {i \in DOMAIN text : Labelled(text[i])})
        /\ spoken = FlattenSeq([i \in DOMAIN heard |-> heard[i].text])
    OBVIOUS
  <1> HIDE DEF heard, labelled, spoken
  <1>3. ParsesTo(text, heard, labelled, spoken)
    BY <1>1, <1>2, ParseFaithful
  <1> QED BY <1>3 DEF SegmentsFaithful, ParsesTo, heard, labelled, spoken

\* For every manuscript the texts may hold, what is heard is what SegmentsFaithful says
\* (_parse_segments in parse.py).
THEOREM SegmentsFaithfulAlways == Spec => []SegmentsFaithful
  <1>1. ContentInv => SegmentsFaithful
    BY TextFaithful DEF ContentInv
  <1> QED BY ContentInit, ContentStep, <1>1, PTL DEF Spec

\* However many chunks, whichever are kept: each is heard once, in its place, in the
\* voice of its speaker (_stitch_chunks in stitch.py).
THEOREM DramaFaithfulAlways == Spec => []DramaFaithful
  <1> QED BY ContentInit, ContentStep, FinalFaithful, PTL DEF Spec

\* Silence stands only between two chunks (chunk_index < len(chunks) - 1 in stitch.py).
THEOREM GapsBetweenAlways == Spec => []GapsBetween
  <1> QED BY ContentInit, ContentStep, FinalFaithful, PTL DEF Spec

=============================================================================
