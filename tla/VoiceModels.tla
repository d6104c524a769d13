----------------------------- MODULE VoiceModels -----------------------------
(***************************************************************************)
(* The one state the TTS service keeps (tts-service/app.py): the model     *)
(* file and the config file of each voice, downloaded by whoever misses    *)
(* one of them, without a lock and in place, on a volume that outlives the *)
(* process.  Requests are served by threads; at the start one thread goes  *)
(* through the registry before the first request is served.                *)
(***************************************************************************)
EXTENDS Naturals, FiniteSetsExt

CONSTANTS
  Requests,   \* request threads
  Startup,    \* the thread of startup()
  Voices,     \* voice names
  Registry,   \* VOICE_REGISTRY: the voice of each entry, "default" among them
  MaxFaults,  \* bound: downloads that fail, deaths of the service
  NoVoice     \* a thread at rest

ASSUME VoiceAssumption ==
  /\ Registry \in [DOMAIN Registry -> Voices] /\ "default" \in DOMAIN Registry
  /\ Startup \notin Requests /\ NoVoice \notin Voices
  /\ (Requests \cup {Startup}) \cap {"absent", "cut", "whole"} = {}

VARIABLES
  file,        \* file[v][part]: "absent", "cut", "whole", or the thread that has opened
               \* it last and is still writing
  at,          \* at[x]: where thread x stands in _ensure_model and after it
  voice,       \* voice[x]: the voice it is asked for
  ahead,       \* entries of the registry startup() has still to look at
  overlapped,  \* ghost: voices that two threads have missed and been fetching at a time,
               \* from the exists() of each to the end of its downloads
  faults

Threads == Requests \cup {Startup}
Parts == {"model", "config"}

\* Where a thread has found a file missing: it asks for a file or writes it.
Fetching == {"get model", "model", "get config", "config"}

thread == <<at, voice>>
modelVars == <<file, thread, ahead, overlapped, faults>>

Move(x, label) == at' = [at EXCEPT ![x] = label]
Leave(x) == Move(x, "idle") /\ voice' = [voice EXCEPT ![x] = NoVoice]

Enter(x, v) ==
  /\ at[x] = "idle"
  /\ Move(x, "ensure")
  /\ voice' = [voice EXCEPT ![x] = v]
  /\ UNCHANGED <<file, overlapped, faults>>

Serving == ahead = {} /\ at[Startup] = "idle"

\* The next entry of the registry, here in any order; errors are logged.
StartupNext ==
  \E name \in ahead : Enter(Startup, Registry[name]) /\ ahead' = ahead \ {name}

\* Variant: a model file is taken for the whole voice.
PresentModel(v) == file[v]["model"] # "absent"

\* model_file.exists() and config_file.exists(): of any content.
Present(v) == \A part \in Parts : file[v][part] # "absent"

Whole(v) == \A part \in Parts : file[v][part] = "whole"

\* open(dest, "wb") truncates the file under whoever is writing it.
Open(x, part) == file' = [file EXCEPT ![voice[x]][part] = x]

\* After the last write of x.  What another thread has truncated since is whole when
\* that one is through; if it has failed, it depends on how far either was.
Written(x, part) ==
  LET f == file[voice[x]][part] IN
  CASE f = x     -> {"whole"}
    [] f = "cut" -> {"cut", "whole"}
    [] OTHER     -> {f}

Found(x) ==
  /\ at[x] = "ensure" /\ Present(voice[x])
  /\ IF x = Startup THEN Leave(x) ELSE Move(x, "piper") /\ UNCHANGED voice
  /\ UNCHANGED <<file, ahead, overlapped, faults>>

\* The other way: the GET of the model comes next, which may take long.
Missing(x) ==
  /\ at[x] = "ensure" /\ ~Present(voice[x])
  /\ Move(x, "get model")
  /\ overlapped' = overlapped \cup
       {v \in {voice[x]} : \E y \in Threads : voice[y] = v /\ at[y] \in Fetching}
  /\ UNCHANGED <<file, voice, ahead, faults>>

\* It is answered.  What has become of the file since the check is not looked at.
OpenModel(x) ==
  /\ at[x] = "get model"
  /\ Open(x, "model")
  /\ Move(x, "model")
  /\ UNCHANGED <<voice, ahead, overlapped, faults>>

ModelFetched(x) ==
  /\ at[x] = "model"
  /\ \E f \in Written(x, "model") : file' = [file EXCEPT ![voice[x]]["model"] = f]
  /\ Move(x, "get config")
  /\ UNCHANGED <<voice, ahead, overlapped, faults>>

OpenConfig(x) ==
  /\ at[x] = "get config"
  /\ Open(x, "config")
  /\ Move(x, "config")
  /\ UNCHANGED <<voice, ahead, overlapped, faults>>

Fetched(x) ==
  /\ at[x] = "config"
  /\ \E f \in Written(x, "config") : file' = [file EXCEPT ![voice[x]]["config"] = f]
  /\ IF x = Startup THEN Leave(x) ELSE Move(x, "piper") /\ UNCHANGED voice
  /\ UNCHANGED <<ahead, overlapped, faults>>

\* The files of the threads in X stop where they are.
Cut(X) ==
  file' = [v \in Voices |-> [part \in Parts |->
             IF file[v][part] \in X THEN "cut" ELSE file[v][part]]]

\* A GET is refused, or the download breaks off: 503.
DownloadFails(x) ==
  /\ at[x] \in Fetching
  /\ faults < MaxFaults /\ faults' = faults + 1
  /\ Cut({x})
  /\ Leave(x)
  /\ UNCHANGED <<ahead, overlapped>>

\* The service dies and starts again.
ServiceDies ==
  /\ faults < MaxFaults /\ faults' = faults + 1
  /\ Cut(Threads)
  /\ at' = [x \in Threads |-> "idle"]
  /\ voice' = [x \in Threads |-> NoVoice]
  /\ ahead' = DOMAIN Registry
  /\ UNCHANGED overlapped

Ensure(x) ==
  \/ Found(x) \/ Missing(x) \/ OpenModel(x) \/ ModelFetched(x) \/ OpenConfig(x)
  \/ Fetched(x) \/ DownloadFails(x)

-----------------------------------------------------------------------------
\* A download that breaks off is made good by the next request, although the code
\* never looks into a file: a voice with both its files there and nobody writing
\* them is fit to speak, unless its config was cut, or its model was and two threads
\* have been fetching it at a time.  One that has only looked counts: it opens, and
\* truncates, a model that the other may have finished long ago.
CutModelHeals ==
  \A v \in Voices :
    Present(v) /\ ~(\E x \in Threads : voice[x] = v /\ at[x] \in Parts) =>
      \/ Whole(v)
      \/ file[v]["config"] = "cut"
      \/ file[v]["model"] = "cut" /\ v \in overlapped

=============================================================================
