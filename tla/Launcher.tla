-------------------------------- MODULE Launcher --------------------------------
(***************************************************************************)
(* lua/coq.lua: the Lua half starts the server when a command is given, and    *)
(* calls the command again every 10 ms until the server has put it into COQ.   *)
(* coq/__main__.py and coq/client.py: the server leaves with an error if it is   *)
(* not installed or its options are wrong, else it registers its commands.     *)
(*                                                                         *)
(* Servers are numbered as they are started.  on_exit is called by the loop of  *)
(* nvim some time after the process has gone.                                 *)
(***************************************************************************)
EXTENDS Naturals, Sequences, FiniteSets

CONSTANTS
  LnCalls,      \* commands that the user gives, each once
  MaxLeaves,    \* bound: servers that leave though there is a runtime
  MaxInstalls   \* bound: times :COQdeps is given

ASSUME LnAssumption == IsFiniteSet(LnCalls) /\ MaxLeaves \in Nat /\ MaxInstalls \in Nat

VARIABLES
  lnJob,        \* job_id: the server that is thought to run, or 0
  lnErrExit,    \* err_exit
  lnCOQ,        \* the server whose methods are in COQ, or 0
  lnServer,     \* the servers that have been started: where they are, and the code they have left with
  lnInstaller,  \* the installer in its terminal
  lnInstalls,   \* times it was started
  lnLeaves,     \* servers that have left though there was a runtime
  lnInstalled,  \* the runtime is there, and is that of the requirements
  lnCall        \* what has become of a command

lnVars == <<lnJob, lnErrExit, lnCOQ, lnServer, lnInstaller, lnInstalls, lnLeaves, lnInstalled, lnCall>>

Codes == {"ok", "error"}  \* 0 or 143, and the others

\* every command starts one, and every end that is no error lets one more be started
MaxServers == Cardinality(LnCalls) + MaxLeaves + MaxInstalls

\* Also: a server that cannot run is not started again every 10 ms (coq.lua:156).
LnTypeOK ==
  /\ lnJob \in 0 .. Len(lnServer) /\ lnCOQ \in 0 .. Len(lnServer)
  /\ lnErrExit \in BOOLEAN /\ lnInstalled \in BOOLEAN
  /\ lnServer \in Seq([at : {"starting", "up", "gone", "reported"}, code : Codes])
  /\ Len(lnServer) <= MaxServers
  /\ lnInstaller \in {"none", "begins", "clears"} \union Codes
  /\ lnInstalls \in 0 .. MaxInstalls /\ lnLeaves \in 0 .. MaxLeaves
  /\ lnCall \in [LnCalls -> {"new", "polls", "served", "dropped", "raised"}]

LnInit ==
  /\ lnJob = 0 /\ lnErrExit = FALSE /\ lnCOQ = 0 /\ lnServer = <<>>
  /\ lnInstaller = "none" /\ lnInstalls = 0 /\ lnLeaves = 0 /\ lnInstalled \in BOOLEAN
  /\ lnCall = [c \in LnCalls |-> "new"]

-----------------------------------------------------------------------------
(* The Lua half.                                                              *)

Live == {s \in DOMAIN lnServer : lnServer[s].at \in {"starting", "up"}}

\* start: the function of jobs returns once the process is there
Start ==
  /\ lnJob' = Len(lnServer) + 1
  /\ lnServer' = Append(lnServer, [at |-> "starting", code |-> "ok"])

\* Mutant: a server is started whenever there are no methods
AttemptUnregistered(c) ==
  /\ IF lnCOQ = 0 THEN Start ELSE UNCHANGED <<lnJob, lnServer>>
  /\ lnCall' = [lnCall EXCEPT ![c] =
       IF lnErrExit \/ lnCOQ = 0 THEN "polls" ELSE IF lnCOQ \in Live THEN "served" ELSE "raised"]

\* coq[cmd]: a server is started, the method is called if it is there, else the same is done later; the
\* method of a server that has gone is there until another takes its place, and is an error
Attempt(c) ==
  /\ IF lnJob = 0 THEN Start ELSE UNCHANGED <<lnJob, lnServer>>
  /\ lnCall' = [lnCall EXCEPT ![c] =
       IF lnErrExit \/ lnCOQ = 0 THEN "polls" ELSE IF lnCOQ \in Live THEN "served" ELSE "raised"]

Command(c) ==
  /\ lnCall[c] = "new"
  /\ Attempt(c)
  /\ UNCHANGED <<lnErrExit, lnCOQ, lnInstaller, lnInstalls, lnLeaves, lnInstalled>>

\* Mutant: an error does not end the retries
RetryAnyway(c) ==
  /\ lnCall[c] = "polls"
  /\ Attempt(c)
  /\ UNCHANGED <<lnErrExit, lnCOQ, lnInstaller, lnInstalls, lnLeaves, lnInstalled>>

Retry(c) ==
  /\ lnCall[c] = "polls"
  /\ IF lnErrExit THEN lnCall' = [lnCall EXCEPT ![c] = "dropped"] /\ UNCHANGED <<lnJob, lnServer>> ELSE Attempt(c)
  /\ UNCHANGED <<lnErrExit, lnCOQ, lnInstaller, lnInstalls, lnLeaves, lnInstalled>>

Deps ==
  /\ lnInstaller = "none" /\ lnInstalls < MaxInstalls
  /\ lnInstaller' = "begins" /\ lnInstalls' = lnInstalls + 1
  /\ UNCHANGED <<lnJob, lnErrExit, lnCOQ, lnServer, lnLeaves, lnInstalled, lnCall>>

\* Mutant: a job that has ended well is taken to go on
LeftOnlyBad(code) ==
  /\ lnErrExit' = (code = "error")
  /\ lnJob' = IF code = "error" THEN 0 ELSE lnJob

\* on_exit, of servers and of installers
Left(code) ==
  /\ lnErrExit' = (code = "error")
  /\ lnJob' = 0

OnExit(s) ==
  /\ s \in DOMAIN lnServer /\ lnServer[s].at = "gone"
  /\ Left(lnServer[s].code)
  /\ lnServer' = [lnServer EXCEPT ![s].at = "reported"]
  /\ UNCHANGED <<lnCOQ, lnInstaller, lnInstalls, lnLeaves, lnInstalled, lnCall>>

OnDepsExit ==
  /\ lnInstaller \in Codes
  /\ Left(lnInstaller)
  /\ lnInstaller' = "none"
  /\ UNCHANGED <<lnCOQ, lnServer, lnInstalls, lnLeaves, lnInstalled, lnCall>>

-----------------------------------------------------------------------------
(* The processes.                                                             *)

Leaves == lnLeaves < MaxLeaves /\ lnLeaves' = lnLeaves + 1
GoneWith(code) == [at |-> "gone", code |-> code]

\* what the server finds when it starts: no runtime, or wrong options, or nothing amiss: its methods are
\* put into COQ in one call
ServerBegins(s) ==
  /\ s \in DOMAIN lnServer /\ lnServer[s].at = "starting"
  /\ \/ /\ lnInstalled
        /\ lnServer' = [lnServer EXCEPT ![s].at = "up"]
        /\ lnCOQ' = s
        /\ UNCHANGED lnLeaves
     \/ /\ lnInstalled => Leaves
        /\ ~lnInstalled => UNCHANGED lnLeaves
        /\ lnServer' = [lnServer EXCEPT ![s] = GoneWith("error")]
        /\ UNCHANGED lnCOQ
  /\ UNCHANGED <<lnJob, lnErrExit, lnInstaller, lnInstalls, lnInstalled, lnCall>>

\* it fails, or is told to stop
ServerEnds(s) ==
  /\ s \in Live /\ Leaves
  /\ \E code \in Codes : lnServer' = [lnServer EXCEPT ![s] = GoneWith(code)]
  /\ UNCHANGED <<lnJob, lnErrExit, lnCOQ, lnInstaller, lnInstalls, lnInstalled, lnCall>>

\* the installer empties the directory of the runtime before it fills it
DepsClears ==
  /\ lnInstaller = "begins"
  /\ lnInstaller' = "clears" /\ lnInstalled' = FALSE
  /\ UNCHANGED <<lnJob, lnErrExit, lnCOQ, lnServer, lnInstalls, lnLeaves, lnCall>>

DepsEnds ==
  /\ \/ lnInstaller = "begins" /\ lnInstaller' = "error" /\ UNCHANGED lnInstalled
     \/ lnInstaller = "clears" /\ lnInstaller' \in Codes /\ lnInstalled' = (lnInstaller' = "ok")
  /\ UNCHANGED <<lnJob, lnErrExit, lnCOQ, lnServer, lnInstalls, lnLeaves, lnCall>>

LnNext ==
  \/ \E c \in LnCalls : Command(c) \/ Retry(c)
  \/ \E s \in DOMAIN lnServer : ServerBegins(s) \/ ServerEnds(s) \/ OnExit(s)
  \/ Deps \/ DepsClears \/ DepsEnds \/ OnDepsExit

\* The timer fires, nvim hears of what has ended, and a process that has been started gets on.
LnFairness ==
  /\ \A c \in LnCalls : WF_lnVars(Retry(c))
  /\ \A s \in 1 .. MaxServers : WF_lnVars(ServerBegins(s)) /\ WF_lnVars(OnExit(s))
  /\ WF_lnVars(OnDepsExit)

LnSpec == LnInit /\ [][LnNext]_lnVars /\ LnFairness

-----------------------------------------------------------------------------

InstallsReported == lnInstalls - (IF lnInstaller = "none" THEN 0 ELSE 1)

\* The job that is thought to run is one, or one of which the end is still to be heard; and until the end of
\* an installer is taken for that of the server, it is the only one (coq.lua:147, :36).
OneServer ==
  /\ lnJob # 0 => lnServer[lnJob].at # "reported"
  /\ InstallsReported = 0 => Live \subseteq {lnJob}

\* Every command comes to an end: it does not poll for ever (coq.lua:152).
CallsEnd == \A c \in LnCalls : lnCall[c] = "polls" ~> lnCall[c] # "polls"

\* "Use :COQhelp to open up a list of help pages!" (docs/README.md:3): with a server that is up a command is
\* not dropped.
CommandsAreServed ==
  [][\A c \in LnCalls : lnCall[c] # "dropped" /\ lnCall'[c] = "dropped" => \A s \in Live : lnServer[s].at # "up"]_lnVars
=============================================================================
