----------------------------- MODULE Lifecycle ------------------------------
(***************************************************************************)
(* A process of irPitCrew from its start to its end: the check for another *)
(* instance, the configuration file, the web server's thread, the close    *)
(* event of the console, which Windows handles in a thread of its own      *)
(* while the main loop goes on, and the end of the process at any moment.  *)
(* The processes share the mutex's name and the configuration file.        *)
(***************************************************************************)
EXTENDS ConfigFile

CONSTANTS
  Procs,        \* the processes that may be started
  Cars,         \* cars that are driven, each a sequence of words
  UserFiles,    \* what the user's editor may leave in the file
  ValidPorts,   \* the words of the numbers 1 .. 65535
  Pieces,       \* how many lines may be written before the file is closed
  MaxEdits,     \* bound on the edits
  Together,     \* may a process start while another one is in its check?
  EarlyClose    \* may the close event come while the server is being started?

ASSUME LifecycleAssumption ==
  /\ Cars \subseteq Seq(Words) /\ << >> \notin Cars
  /\ UserFiles \subseteq Seq(Seq(Words))
  /\ Pieces \subseteq Nat
  /\ MaxEdits \in Nat
  /\ {Together, EarlyClose} \subseteq BOOLEAN

VARIABLES
  file,     \* Data\config.txt
  whole,    \* the file as a rewriting or the user last left it
  cut,      \* did a process end since, with its rewriting not finished?
  edits,    \* how often the user changed it
  procs     \* the processes

vars == << file, whole, cut, edits, procs >>

Off ==
  [main |-> "off", handle |-> FALSE, car |-> << >>, values |-> Values(<< >>, << >>),
   new |-> << >>, missed |-> FALSE, server |-> "none", thread |-> "none", running |-> FALSE,
   handler |-> "none"]

Init ==
  /\ file \in UserFiles \cup {NoFile}
  /\ whole = file
  /\ cut = FALSE
  /\ edits = 0
  /\ procs = [p \in Procs |-> Off]

To(p, main) == procs' = [procs EXCEPT ![p].main = main]

-----------------------------------------------------------------------------
(* Starting: OpenMutex, then CreateMutex, then the handler. *)

Ignored == FALSE             \* mutant: the mutex of the other instance is ignored
MutexExists == \E q \in Procs : procs[q].handle

\* a process that finds the mutex returns at once
OpenMutex(p) ==
  /\ procs[p].main = "off"
  /\ ~MutexExists
  /\ Together \/ \A q \in Procs : procs[q].main # "opened"
  /\ To(p, "opened")
  /\ UNCHANGED << file, whole, cut, edits >>

CreateMutex(p) ==
  /\ procs[p].main = "opened"
  /\ procs' = [procs EXCEPT ![p].main = "config", ![p].handle = TRUE]
  /\ UNCHANGED << file, whole, cut, edits >>

-----------------------------------------------------------------------------
(* The configuration file: read at the start without a car, and for the car  *)
(* of every new session.                                                     *)

AfterConfig(p) == IF procs[p].car = << >> THEN "check" ELSE "loop"

Read(p) ==
  /\ procs[p].main = "config"
  /\ LET car == procs[p].car
     IN  procs' = [procs EXCEPT
           ![p].values = Values(file, car),
           ![p].missed = FALSE,
           ![p].new = IF UpdateRequired(file, car) THEN Rewritten(file, car) ELSE << >>,
           ![p].main = IF UpdateRequired(file, car) THEN "update" ELSE AfterConfig(p)]
  /\ UNCHANGED << file, whole, cut, edits >>

\* opening the file to write it empties it
Truncate(p) ==
  /\ procs[p].main = "update"
  /\ file' = << >>
  /\ To(p, "writing")
  /\ UNCHANGED << whole, cut, edits >>

\* when it cannot be opened nothing is said
CannotWrite(p) ==
  /\ procs[p].main = "update"
  /\ procs' = [procs EXCEPT ![p].main = AfterConfig(p), ![p].new = << >>]
  /\ UNCHANGED << file, whole, cut, edits >>

\* the text that is written lies over the beginning of what the file holds by then
Over(text, under) == {text \o SubSeq(under, n, Len(under)) : n \in 1 .. Len(under) + 1}

Write(p) ==
  /\ procs[p].main = "writing"
  /\ file' \in Over(procs[p].new, file)
  /\ whole' = file' /\ cut' = FALSE
  /\ procs' = [procs EXCEPT ![p].main = AfterConfig(p), ![p].new = << >>]
  /\ UNCHANGED edits

-----------------------------------------------------------------------------
(* The server and the main loop. *)

\* of a file that is being written an exit leaves what was written so far
Exit(p) ==
  /\ procs' = [procs EXCEPT ![p] = Off]
  /\ IF procs[p].main = "writing"
     THEN /\ \E n \in {k \in Pieces : k <= Len(procs[p].new)} :
               file' \in Over(SubSeq(procs[p].new, 1, n), file)
          /\ cut' = (cut \/ file' # whole)
     ELSE UNCHANGED << file, cut >>
  /\ UNCHANGED << whole, edits >>

PortInvalid(p) ==
  /\ procs[p].main = "check"
  /\ procs[p].values.attribute["ServerPort"] \notin ValidPorts
  /\ procs[p].handler = "none"
  /\ Exit(p)

NewServer(p) ==
  /\ procs[p].main = "check"
  /\ procs[p].values.attribute["ServerPort"] \in ValidPorts
  /\ procs' = [procs EXCEPT ![p].main = "start", ![p].server = "live"]
  /\ UNCHANGED << file, whole, cut, edits >>

\* WebServerLWS::start
start(p) ==
  /\ procs[p].main = "start" /\ procs[p].server = "live"
  /\ procs' = [procs EXCEPT ![p].main = "loop", ![p].running = TRUE,
                            ![p].thread = "starting"]
  /\ UNCHANGED << file, whole, cut, edits >>

\* a new header: the session's car, then its configuration
NewHeader(p) ==
  /\ procs[p].main = "loop"
  /\ \E car \in Cars :
       procs' = [procs EXCEPT ![p].main = "config", ![p].car = car]
  /\ UNCHANGED << file, whole, cut, edits >>

\* WebServerLWS::runThread: the port may be taken
CreateContext(p) ==
  /\ procs[p].thread = "starting"
  /\ \E thread \in {"running", "ended"} :
       procs' = [procs EXCEPT ![p].thread = thread]
  /\ UNCHANGED << file, whole, cut, edits >>

Never(p) == FALSE               \* mutant: the thread does not look at the flag
Asked(p) == ~procs[p].running

DestroyContext(p) ==
  /\ procs[p].thread = "running"
  /\ Asked(p)
  /\ procs' = [procs EXCEPT ![p].thread = "ended"]
  /\ UNCHANGED << file, whole, cut, edits >>

ServerThread(p) == CreateContext(p) \/ DestroyContext(p)

-----------------------------------------------------------------------------
(* CloseConsoleHandler, in a thread of its own. *)

CloseEvent(p) ==
  /\ procs[p].handle
  /\ procs[p].handler = "none"
  /\ EarlyClose \/ procs[p].main \notin {"check", "start"}
  /\ procs' = [procs EXCEPT ![p].handler = IF procs[p].server = "live" THEN "stop" ELSE "exit"]
  /\ UNCHANGED << file, whole, cut, edits >>

\* WebServerLWS::stop tells the thread to end ...
stop(p) ==
  /\ procs[p].handler = "stop"
  /\ procs' = [procs EXCEPT ![p].handler = "join", ![p].running = FALSE]
  /\ UNCHANGED << file, whole, cut, edits >>

NotAwaited(p) == TRUE           \* mutant: the thread is not joined
Ended(p) == procs[p].thread \in {"none", "ended"}

\* ... and waits for it; then the server is deleted
join(p) ==
  /\ procs[p].handler = "join"
  /\ Ended(p)
  /\ procs' = [procs EXCEPT ![p].handler = "exit", ![p].server = "deleted"]
  /\ UNCHANGED << file, whole, cut, edits >>

ExitProcess(p) == procs[p].handler = "exit" /\ Exit(p)

Handler(p) == stop(p) \/ join(p) \/ ExitProcess(p)

-----------------------------------------------------------------------------
(* The end of a process by other means, and the user. *)

Kill(p) == procs[p].main # "off" /\ Exit(p)

\* nothing keeps the user from it while a process has read the file and not yet
\* written it
UserEdits ==
  /\ edits < MaxEdits
  /\ \E new \in UserFiles \ {file} : file' = new /\ whole' = new
  /\ cut' = FALSE
  /\ edits' = edits + 1
  /\ procs' = [p \in Procs |->
                 [procs[p] EXCEPT !.missed = @ \/ procs[p].main \in {"update", "writing"}]]

Main(p) ==
  \/ OpenMutex(p) \/ CreateMutex(p)
  \/ Read(p) \/ Truncate(p) \/ CannotWrite(p) \/ Write(p)
  \/ PortInvalid(p) \/ NewServer(p) \/ start(p) \/ NewHeader(p)

Next ==
  \/ \E p \in Procs : Main(p) \/ ServerThread(p) \/ CloseEvent(p) \/ Handler(p) \/ Kill(p)
  \/ UserEdits

Spec == Init /\ [][Next]_vars

\* the threads of a process run
FairSpec ==
  Spec /\ \A p \in Procs : WF_vars(ServerThread(p)) /\ WF_vars(Handler(p))

-----------------------------------------------------------------------------
(* Properties. *)

\* Every variable stays in its type; the program never works with an attribute
\* that has neither a value of the file nor a default.
TypeOK ==
  \A p \in Procs :
    LET q == procs[p]
    IN  /\ q.main \in {"off", "opened", "config", "update", "writing", "check",
                       "start", "loop"}
        /\ \A a \in Attributes : q.values.attribute[a] # "unset"
        /\ q.values.weight \in {"0", "1"}
        /\ q.car \in Cars \cup {<< >>}
        /\ q.server \in {"none", "live", "deleted"}
        /\ q.thread \in {"none", "starting", "running", "ended"}
        /\ q.handler \in {"none", "stop", "join", "exit"}
        /\ {q.handle, q.running, q.missed} \subseteq BOOLEAN

\* Two processes never run at the same time: the second one finds the mutex of
\* the first ("Allow only once instance of this application").
OneInstance == Cardinality({p \in Procs : procs[p].handle}) <= 1

Finishes(p) == procs[p].main = "writing" /\ procs'[p].main \in {"check", "loop"}

\* Rewriting the file keeps every value the program knows how to read and the
\* lines of all cars, for the car driven now and for those that are not ("Keep
\* existing settings"), unless the user changed the file after it was read, or a
\* process ended before its rewriting was finished: nothing else loses a setting.
\* It leaves nothing for the next reading to add, and what the program works with
\* is what the next reading finds, whatever happened in between.
SettingsKept ==
  [][\A p \in Procs : Finishes(p) =>
       /\ ~procs[p].missed /\ ~cut => Kept(whole, file', Cars)
       /\ ~UpdateRequired(file', procs[p].car)
       /\ Values(file', procs[p].car) = AsWritten(procs[p].values)]_vars

\* The server is deleted only when its thread has ended: no thread works on an
\* object that is gone, however the close event falls into its start or its loop.
NoThreadLeft ==
  \A p \in Procs :
    procs[p].server = "deleted" => procs[p].thread \in {"none", "ended"}

\* A running program is alone, has all its settings, and ends its server in order.
OneServer == TypeOK /\ OneInstance /\ NoThreadLeft

\* A closed console ends its process: the server's thread cannot keep the
\* handler waiting for ever.
Stops == \A p \in Procs : (procs[p].handler # "none") ~> (procs[p].main = "off")
=============================================================================
