------------------------------- MODULE Engine -------------------------------
(* One run of an agent (internal/reviewer/opencode, pi and adk): the job's   *)
(* directory, the session of the proxy, the processes, the runs that are     *)
(* repeated or resumed, and what is read of their event streams. A step is   *)
(* one billed turn of the model. Tool calls, prompts and the contents of the *)
(* configuration files are left out.                                         *)
EXTENDS Egress

CONSTANTS Jobs,      \* requests: [engine, mode, continued, kept, proxied]
          Failures,  \* how a run may break off: [message, ref, log]
          MaxSteps   \* bound: steps of the model in one job

MaxResumes == 2
ModelTurn == "ending with a model turn"

VARIABLES job,       \* the request
          phase,     \* how far Run is
          dir,       \* whether the job's directory exists
          agent,     \* "none", "running", or "left": children of an agent that is gone
          fresh,     \* whether the run is without the stored session
          resumed,   \* how often the session was resumed
          stream,    \* what the last run's events say: [started, finished, text, failed]
          record,    \* the steps the session's own record holds
          told,      \* history: the steps whose tokens some stream or export named
          broken,    \* tokens of the runs that broke off
          usage,     \* tokens of the result
          document,  \* the output file: "none", "bad" or "good"
          outcome    \* "none", "ok", "output error", "error"

engineVars == <<job, phase, dir, agent, fresh, resumed, stream, record, told, broken, usage,
                document, outcome>>
vars == <<egressVars, engineVars>>

Silence == [started |-> {}, finished |-> {}, text |-> FALSE, failed |-> FALSE]
Earlier == 0  \* a step of an earlier job in the stored session
Writes(mode) == mode \in {"review", "triage"}

\* adk has no tools to edit with.
Supported(j) == j.engine # "adk" \/ j.mode # "implement"

\* A conversation whose container is gone is simply started again.
Stored(j) == IF j.continued /\ j.kept THEN {Earlier} ELSE {}

Init ==
    /\ EgressInit
    /\ job \in Jobs
    /\ phase = "start" /\ dir = FALSE /\ agent = "none"
    /\ fresh = ~job.continued /\ resumed = 0
    /\ stream = Silence
    /\ record = Stored(job)
    /\ told = {} /\ broken = 0 /\ usage = 0
    /\ document \in IF Writes(job.mode) THEN {"none", "bad"} ELSE {"none"}
    /\ outcome = "none"

-----------------------------------------------------------------------------
(* Preparing: the directory, the context and the configuration; the session *)
(* of the proxy; the prompt. Any of it may fail, and is then undone.         *)
Prepare ==
    /\ New(config) /\ phase = "start"
    /\ \/ Supported(job) /\ dir' = TRUE /\ phase' = "prepared" /\ UNCHANGED outcome
       \/ phase' = "returned" /\ outcome' = "error" /\ UNCHANGED dir
    /\ UNCHANGED <<egressVars, job, agent, fresh, resumed, stream, record, told, broken, usage, document>>

Give == phase' = "closing" /\ outcome' = "error"
GiveUp ==
    /\ phase \in {"prepared", "ready"}
    /\ Give
    /\ UNCHANGED <<egressVars, job, dir, agent, fresh, resumed, stream, record, told, broken, usage, document>>

StartSession ==
    /\ phase = "prepared" /\ phase' = "ready"
    /\ IF job.proxied THEN Open ELSE UNCHANGED egressVars
    /\ UNCHANGED <<job, dir, agent, fresh, resumed, stream, record, told, broken, usage, document, outcome>>

Launches(engines, left) ==
    /\ phase = "ready" /\ phase' = "running"
    /\ job.engine \in engines
    /\ agent' = "running" /\ stream' = Silence
    /\ document' = left
    /\ UNCHANGED <<egressVars, job, dir, fresh, resumed, record, told, broken, usage, outcome>>
Launch == Launches({"opencode", "pi"}, document)
\* adk removes what an earlier attempt wrote.
LaunchAdk == Launches({"adk"}, "none")

-----------------------------------------------------------------------------
(* The agent at work. A turn's tokens may go unreported in the events.       *)
Turn(engine, reported, text, failed) ==
    LET s == Cardinality(record) + 1
    IN  /\ phase = "running" /\ s <= MaxSteps
        /\ job.engine = engine
        /\ record' = record \cup {s}
        /\ stream' = [started  |-> stream.started \cup {s},
                      finished |-> IF reported THEN stream.finished \cup {s} ELSE stream.finished,
                      text     |-> text, failed |-> failed]
        /\ told' = IF reported THEN told \cup {s} ELSE told
        /\ UNCHANGED <<egressVars, job, phase, dir, agent, fresh, resumed, broken, usage, document, outcome>>

\* opencode may drop a step's end; a failure is its exit code.
StepOpenCode(reported, said) == Turn("opencode", reported, stream.text \/ said, FALSE)

\* pi's last message says how the run ended.
MessagePi(reported, said, failed) == Turn("pi", reported, stream.text \/ said, failed)

\* adk keeps an error that any event named.
EventAdk(reported, said, failed) == Turn("adk", reported, stream.text \/ said, stream.failed \/ failed)

WriteDocument ==
    /\ phase = "running" /\ Writes(job.mode)
    /\ document' \in {"bad", "good"}
    /\ UNCHANGED <<egressVars, job, phase, dir, agent, fresh, resumed, stream, record, told, broken, usage, outcome>>

\* The processes an agent started may survive its own exit.
Exit ==
    /\ phase = "running" /\ phase' = "ran"
    /\ agent' \in {"none", "left"}
    /\ UNCHANGED <<egressVars, job, dir, fresh, resumed, stream, record, told, broken, usage, document, outcome>>

\* The log's account of the failure: the error the event referred to, or the
\* last one when the event named none and said nothing itself.
Cause(f) ==
    LET Referred(e) == e.ref
        named == SelectSeq(f.log, Referred)
    IN  IF f.ref /\ named # <<>> THEN Last(named).error
        ELSE IF ~f.ref /\ f.message \in {"", "generic"} /\ f.log # <<>> THEN Last(f.log).error
        ELSE ""
EndedOnModelTurn(f) == ModelTurn \in {f.message, Cause(f)}

\* The stored session is not there any more: once again without it.
Again ==
    /\ phase = "running" /\ job.engine = "opencode"
    /\ ~fresh /\ resumed = 0 /\ ~job.kept /\ stream = Silence
    /\ fresh' = TRUE /\ phase' = "ready" /\ agent' \in {"none", "left"}
    /\ UNCHANGED <<egressVars, job, dir, resumed, stream, record, told, broken, usage, document, outcome>>

\* Mutant of Absorb: only the last run that broke off is kept.
AbsorbLast(spent, run) == Cardinality(run.finished)

\* absorb: what the run that broke off spent is kept.
Absorb(spent, run) == spent + Cardinality(run.finished)
BreaksOff(f) ==
    /\ phase = "running"
    /\ agent' \in {"none", "left"}
    /\ IF /\ job.engine = "opencode" /\ resumed < MaxResumes
          /\ EndedOnModelTurn(f) /\ stream.started # {}
       THEN /\ phase' = "ready" /\ resumed' = resumed + 1
            /\ broken' = Absorb(broken, stream)
            /\ UNCHANGED outcome
       ELSE Give /\ UNCHANGED <<resumed, broken>>
    /\ UNCHANGED <<egressVars, job, dir, fresh, stream, record, told, usage, document>>

\* The job's time is up: the whole process group is stopped.
TimeOut ==
    /\ phase = "running" /\ agent' = "none" /\ Give
    /\ UNCHANGED <<egressVars, job, dir, fresh, resumed, stream, record, told, broken, usage, document>>

-----------------------------------------------------------------------------
(* Reading the result. opencode asks its record for the steps the stream did *)
(* not end, and for no others; that may fail, or find some of them only.     *)
Recovered(found) == found \cap (stream.started \ stream.finished)
Counted(more) ==
    /\ phase = "ran" /\ phase' = "counted"
    /\ usage' = Cardinality(stream.finished) + Cardinality(more) + broken
    /\ UNCHANGED <<egressVars, job, dir, agent, fresh, resumed, stream, record, broken, document, outcome>>
Count ==
    /\ job.engine = "opencode"
    /\ \E found \in {{}, record} \cup {{s} : s \in record} :
          /\ Counted(Recovered(found))
          /\ told' = told \cup (found \cap stream.started)

\* The others have only what their events said.
CountEvents == job.engine # "opencode" /\ Counted({}) /\ UNCHANGED told

\* Prose, the working tree, or the document the mode asks for.
Answer ==
    CASE job.mode \in {"answer", "plan"} -> IF stream.text THEN "ok" ELSE "error"
      [] job.mode = "implement"          -> "ok"
      [] document = "bad"                -> "output error"
      [] document = "none"               -> "error"
      [] OTHER                           -> "ok"
Reads(engine, answer) ==
    /\ phase = "counted" /\ phase' = "closing"
    /\ job.engine = engine
    /\ outcome' = answer
    /\ UNCHANGED <<egressVars, job, dir, agent, fresh, resumed, stream, record, told, broken, usage, document>>
ReadOpenCode == Reads("opencode", Answer)
\* A provider's failure ends pi and adk cleanly.
ReadPi == Reads("pi", IF stream.failed THEN "error" ELSE Answer)
ReadAdk == Reads("adk", IF stream.failed THEN "error" ELSE Answer)

\* The deferred calls, last first: the session, then the directory.
CloseSession ==
    /\ phase = "closing" /\ (Cancel \/ Shut \/ CutOff)
    /\ agent' = IF job.engine = "adk" THEN "none" ELSE agent
    /\ UNCHANGED <<job, phase, dir, fresh, resumed, stream, record, told, broken, usage, document, outcome>>
Return ==
    /\ phase = "closing" /\ session \in {"none", "closed"}
    /\ phase' = "returned" /\ dir' = FALSE
    /\ UNCHANGED <<egressVars, job, agent, fresh, resumed, stream, record, told, broken, usage, document, outcome>>

\* The agent's processes, those it left behind included, talk to the proxy.
Network ==
    /\ \/ agent # "none" /\ \E c \in Conns : \/ \E call \in Calls : Accept(c, call)
                                            \/ \E r \in Requests : Serve(c, r)
       \/ \E c \in Conns : Traffic(c)
    /\ UNCHANGED engineVars

Run ==
    \/ Prepare \/ GiveUp \/ StartSession \/ Launch \/ LaunchAdk
    \/ \E reported, said \in BOOLEAN :
          \/ StepOpenCode(reported, said)
          \/ \E failed \in BOOLEAN : MessagePi(reported, said, failed) \/ EventAdk(reported, said, failed)
    \/ WriteDocument \/ Exit \/ Again \/ TimeOut
    \/ \E f \in Failures : BreaksOff(f)
    \/ Count \/ CountEvents \/ ReadOpenCode \/ ReadPi \/ ReadAdk
    \/ CloseSession \/ Return
Next == Run \/ Network

Spec == Init /\ [][Next]_vars

-----------------------------------------------------------------------------
(* Once Run has returned, the job's directory is gone and no connection of   *)
(* its session carries anything any more, not even one whose handler was     *)
(* between taking it from the server and telling the session of it, and not  *)
(* for the processes the agent left behind. (proxy.go Close, track)          *)
NothingOutlivesTheRun ==
    phase = "returned" =>
        /\ ~dir /\ agent # "running"
        /\ session \in {"none", "closed"}
        /\ \A c \in Conns : conn[c].at \in {"relaying", "serving"} => ~conn[c].client /\ ~conn[c].upstream

(* A result names the tokens of every step that any of its runs, broken off  *)
(* ones included, told of, and of none twice. (opencode.go:268-293,          *)
(* usage.go:15-29)                                                           *)
SpendReported == outcome = "ok" => usage = Cardinality(told)
=============================================================================
