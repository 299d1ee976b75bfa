------------------------------- MODULE Update -------------------------------
(***************************************************************************)
(* Self-update (internal/update, and its use by handleUpdate and by the     *)
(* start of the service): each dashboard call starts a goroutine that       *)
(* downloads an installer, verifies its signature and launches it, with     *)
(* retries, and then records a marker; the installer, a process of its own, *)
(* stops the service, replaces the binary and starts the service again; and *)
(* the next process to start compares its version with the marker, logs     *)
(* what it finds, and then removes the marker.  The goroutine is tied to    *)
(* nothing: it dies where the process does.                                 *)
(* The installer (msiexec) and the service manager are external.            *)
(***************************************************************************)
EXTENDS Integers, FiniteSets

CONSTANTS Builds,         \* version.Version of the builds there are
          Unversioned,    \* version.Version left "", one of Builds or not
          Workers,        \* update goroutines that may run at once
          RetryAttempts   \* retryAttempts

ASSUME UpdateAssumption ==
  /\ RetryAttempts \in Nat \ {0}
  /\ {"down", "none", "torn"} \cap Builds = {}

VARIABLES
  running,     \* version of the running process, or "down"
  boot,        \* where its ReportPreviousAttempt is
  installed,   \* version of the binary on disk
  pc, attempt, \* each goroutine
  file,        \* the temp file of each goroutine's attempt
  marker,      \* the marker file
  installer,   \* the installer each goroutine launched
  \* history, read by properties only
  launches,    \* installers launched for the present call of each goroutine
  since,       \* since the last start: "none", marker "written", then binary "replaced"
  verdict,     \* of the marker: "open", "given" by a start, or "left" there after that
  report       \* the last start of a process: what it reported, and when

goVars   == <<pc, attempt, file, launches>>
bootVars == <<boot, verdict>>
vars == <<running, installed, goVars, marker, installer, since, bootVars, report>>

Down == "down"
WorkerPcs == {"idle", "download", "verify", "launch", "record", "write", "sleep"}
FileStates == {"none", "signed", "unsigned"}
\* "queued" launched, "working" holds the installer lock, "stopped" service is down,
\* "swapped" binary replaced, "undone" rolled back
InstallerStates == {"none", "queued", "working", "stopped", "swapped", "undone"}

BootPcs == {"read", "remove", "done"}

Marker(v) == [prev |-> v]
NoMarker  == [prev |-> "none"]
Torn      == [prev |-> "torn"]   \* created, not yet written

ReportKinds == {"none", "unparsed", "succeeded", "noEffect"}
NoReport == [kind |-> "none", pending |-> FALSE, since |-> "none", verdict |-> "open"]

\* An installer that has been launched and has not yet got to the service.
Pending == \E w \in Workers : installer[w] \in {"queued", "working"}

Init ==
  /\ running \in Builds /\ installed = running
  /\ pc = [w \in Workers |-> "idle"]
  /\ attempt = [w \in Workers |-> 0]
  /\ file = [w \in Workers |-> "none"]
  /\ marker = NoMarker
  /\ installer = [w \in Workers |-> "none"]
  /\ launches = [w \in Workers |-> 0]
  /\ since = "none"
  /\ boot = "done" /\ verdict = "open"
  /\ report = NoReport

-----------------------------------------------------------------------------
(* The goroutine *)

\* handleUpdate, configured and on Windows; otherwise it ignores the call.
UpdateRPC(w) ==
  /\ running # Down /\ boot = "done"
  /\ pc[w] = "idle" /\ installer[w] = "none"
  /\ pc' = [pc EXCEPT ![w] = "download"]
  /\ attempt' = [attempt EXCEPT ![w] = 1]
  /\ launches' = [launches EXCEPT ![w] = 0]
  /\ UNCHANGED <<running, installed, file, marker, installer, since, bootVars, report>>

\* Variant: one attempt too many.
FailLate(w) ==
  pc' = [pc EXCEPT ![w] = IF attempt[w] > RetryAttempts THEN "idle" ELSE "sleep"]

\* Apply returns an error: sleep and try again, up to RetryAttempts.
Fail(w) ==
  pc' = [pc EXCEPT ![w] = IF attempt[w] >= RetryAttempts THEN "idle" ELSE "sleep"]

Succeed(w) == pc' = [pc EXCEPT ![w] = "idle"]

(* Every failing attempt removes its file: download a partial one, Apply one    *)
(* that is refused or cannot be launched.                                       *)
Remove(w) == file' = [file EXCEPT ![w] = "none"]

Download(w) ==
  /\ pc[w] = "download"
  /\ \/ \E f \in {"signed", "unsigned"} :
          /\ file' = [file EXCEPT ![w] = f]
          /\ pc' = [pc EXCEPT ![w] = "verify"]
     \/ Remove(w) /\ Fail(w)
  /\ UNCHANGED <<running, installed, attempt, launches, marker, installer, since, bootVars, report>>

\* Variant: a failed check is logged and the file launched anyway.
VerifyLax(w) ==
  /\ pc[w] = "verify" /\ pc' = [pc EXCEPT ![w] = "launch"]
  /\ UNCHANGED <<running, installed, attempt, file, launches, marker, installer, since, bootVars, report>>

\* The signature is checked, which can also fail for reasons of its own.
Verify(w) ==
  /\ pc[w] = "verify"
  /\ \/ file[w] = "signed" /\ pc' = [pc EXCEPT ![w] = "launch"] /\ UNCHANGED file
     \/ Remove(w) /\ Fail(w)
  /\ UNCHANGED <<running, installed, attempt, launches, marker, installer, since, bootVars, report>>

Launch(w) ==
  /\ pc[w] = "launch"
  /\ \/ /\ installer' = [installer EXCEPT ![w] = "queued"]
        /\ launches' = [launches EXCEPT ![w] = @ + 1]
        /\ pc' = [pc EXCEPT ![w] = "record"]
        /\ UNCHANGED file
     \/ Remove(w) /\ Fail(w) /\ UNCHANGED <<installer, launches>>
  /\ UNCHANGED <<running, installed, attempt, marker, since, bootVars, report>>

\* Variant: a marker that cannot be recorded counts as a failed attempt.
RecordOrFail(w) ==
  /\ pc[w] = "record"
  /\ \/ running # Unversioned /\ marker' = Torn /\ pc' = [pc EXCEPT ![w] = "write"]
     \/ Fail(w) /\ UNCHANGED marker
  /\ UNCHANGED <<running, installed, attempt, file, launches, installer, since, bootVars, report>>

(* RecordAttempt, best effort: os.WriteFile truncates the marker and then       *)
(* writes it.  Without a version there is nothing to record.                    *)
Record(w) ==
  /\ pc[w] = "record"
  /\ \/ /\ running # Unversioned
        /\ marker' = Torn
        /\ pc' = [pc EXCEPT ![w] = "write"]
     \/ Succeed(w) /\ UNCHANGED marker
  /\ UNCHANGED <<running, installed, attempt, file, launches, installer, since, bootVars, report>>

WriteMarker(w) ==
  /\ pc[w] = "write"
  /\ Succeed(w)
  /\ \/ marker' = Marker(running) /\ since' = "written" /\ verdict' = "open"
     \/ UNCHANGED <<marker, since, verdict>>
  /\ UNCHANGED <<running, installed, attempt, file, launches, installer, boot, report>>

\* Variant: attempts that are not counted.
RetryUncounted(w) ==
  /\ pc[w] = "sleep" /\ pc' = [pc EXCEPT ![w] = "download"]
  /\ UNCHANGED <<running, installed, attempt, file, launches, marker, installer, since, bootVars, report>>

\* ApplyWithRetry's backoff; its ctx is context.Background and never done.
Retry(w) ==
  /\ pc[w] = "sleep"
  /\ pc' = [pc EXCEPT ![w] = "download"]
  /\ attempt' = [attempt EXCEPT ![w] = @ + 1]
  /\ UNCHANGED <<running, installed, file, launches, marker, installer, since, bootVars, report>>

Step(w) ==
  Download(w) \/ Verify(w) \/ Launch(w) \/ Record(w) \/ WriteMarker(w) \/ Retry(w)

-----------------------------------------------------------------------------
(* The process *)

\* Variant: any marker is taken for a success.
ReportedAlways(v) == IF marker = NoMarker THEN "none" ELSE "succeeded"

\* ReportPreviousAttempt of a process of version v.
Reported(v) ==
  CASE marker = NoMarker -> "none"
    [] marker = Torn     -> "unparsed"
    [] OTHER             -> IF v # Unversioned /\ v # marker.prev THEN "succeeded" ELSE "noEffect"

(* ReportPreviousAttempt, before the program does anything else.  A marker that *)
(* cannot be read, now or ever, is left alone.                                  *)
ReadMarker ==
  /\ boot = "read"
  /\ \/ /\ marker # NoMarker
        /\ report' = [kind |-> Reported(running), pending |-> Pending, since |-> since,
                      verdict |-> verdict]
        /\ verdict' = IF Reported(running) = "unparsed" THEN verdict ELSE "given"
        /\ boot' = "remove"
     \/ boot' = "done" /\ report' = NoReport /\ UNCHANGED verdict
  /\ UNCHANGED <<running, installed, goVars, marker, installer, since>>

\* A marker that was judged and stays is left for another start to judge.
LeaveMarker == verdict' = IF verdict = "given" THEN "left" ELSE verdict

\* Variant: the marker is removed only once the update has taken effect.
RemoveAfterSuccess ==
  /\ boot = "remove" /\ boot' = "done"
  /\ IF report.kind = "succeeded" THEN marker' = NoMarker /\ since' = "none"
                                 ELSE UNCHANGED <<marker, since>>
  /\ UNCHANGED <<running, installed, goVars, installer, verdict, report>>

\* The deferred os.Remove, whose error nobody looks at.
RemoveMarker ==
  /\ boot = "remove"
  /\ \/ marker' = NoMarker /\ since' = "none" /\ UNCHANGED verdict
     \/ UNCHANGED <<marker, since>> /\ LeaveMarker
  /\ boot' = "done"
  /\ UNCHANGED <<running, installed, goVars, installer, report>>

Reporting == ReadMarker \/ RemoveMarker

Boot ==
  /\ running' = installed
  /\ boot' = "read"
  /\ UNCHANGED <<marker, since, verdict, report>>

\* Every goroutine dies with its process, and so does a report between its log line
\* and the removal; the file of an attempt under way stays.
Die ==
  /\ running' = Down
  /\ boot' = "done"
  /\ IF boot = "remove" THEN LeaveMarker ELSE UNCHANGED verdict
  /\ pc' = [w \in Workers |-> "idle"]
  /\ attempt' = [w \in Workers |-> 0]

\* A crash, a reboot, or a stop by the service manager.
ProcessEnds ==
  /\ running # Down
  /\ Die
  /\ UNCHANGED <<installed, file, launches, marker, installer, since, report>>

\* Restarted by the service manager or at boot; not while its binary is being replaced.
ProcessStarts ==
  /\ running = Down
  /\ \A w \in Workers : installer[w] \notin {"stopped", "swapped", "undone"}
  /\ Boot
  /\ UNCHANGED <<installed, goVars, installer>>

-----------------------------------------------------------------------------
(* The installer: one at a time has the installation lock. *)

Progress(w, from, to) ==
  /\ installer[w] = from
  /\ installer' = [installer EXCEPT ![w] = to]

InstallerBegins(w) ==
  /\ file[w] # "none"
  /\ \A v \in Workers : installer[v] \in {"none", "queued"}
  /\ Progress(w, "queued", "working")
  /\ UNCHANGED <<running, installed, goVars, marker, since, bootVars, report>>

\* Another installation is under way, or this one is refused before it starts.
InstallerGivesUp(w) ==
  /\ Progress(w, "queued", "none")
  /\ UNCHANGED <<running, installed, goVars, marker, since, bootVars, report>>

\* ServiceControl Stop="both" Wait="yes"
InstallerStopsService(w) ==
  /\ Progress(w, "working", "stopped")
  /\ Die
  /\ UNCHANGED <<installed, file, launches, marker, since, report>>

InstallerSwaps(w) ==
  /\ Progress(w, "stopped", "swapped")
  /\ installed' \in Builds
  /\ since' = IF since = "written" THEN "replaced" ELSE since
  /\ UNCHANGED <<running, goVars, marker, bootVars, report>>

InstallerRollsBack(w) ==
  /\ Progress(w, "stopped", "undone")
  /\ UNCHANGED <<running, installed, goVars, marker, since, bootVars, report>>

\* StartFleetConnectService, or the rollback of the stop.
InstallerStartsService(w) ==
  /\ Progress(w, "swapped", "none") \/ Progress(w, "undone", "none")
  /\ Boot
  /\ UNCHANGED <<installed, goVars>>

Installer(w) ==
  \/ InstallerBegins(w) \/ InstallerGivesUp(w) \/ InstallerStopsService(w)
  \/ InstallerSwaps(w) \/ InstallerRollsBack(w) \/ InstallerStartsService(w)

-----------------------------------------------------------------------------
Next ==
  \/ \E w \in Workers : UpdateRPC(w) \/ Step(w) \/ Installer(w)
  \/ ProcessEnds \/ ProcessStarts \/ Reporting

Spec == Init /\ [][Next]_vars

(* The goroutines are scheduled, and what they call returns: the download has  *)
(* a time-out and the others are local commands.                               *)
FairSpec == Spec /\ \A w \in Workers : WF_vars(Step(w))

-----------------------------------------------------------------------------
TypeOK ==
  /\ running \in Builds \cup {Down}
  /\ installed \in Builds
  /\ pc \in [Workers -> WorkerPcs]
  /\ attempt \in [Workers -> 0 .. RetryAttempts]
  /\ file \in [Workers -> FileStates]
  /\ marker \in {NoMarker, Torn} \cup {Marker(v) : v \in Builds \ {Unversioned}}
  /\ installer \in [Workers -> InstallerStates]
  /\ launches \in [Workers -> Nat]
  /\ since \in {"none", "written", "replaced"}
  /\ boot \in BootPcs
  /\ verdict \in {"open", "given", "left"}
  /\ report \in [kind : ReportKinds, pending : BOOLEAN,
                 since : {"none", "written", "replaced"}, verdict : {"open", "given", "left"}]

(* An installer that was launched finds its file: nothing the agent does       *)
(* afterwards, a retry included, removes what msiexec still has to read, and   *)
(* no installer is ever launched from a file that did not verify.              *)
LaunchedFileStays == \A w \in Workers : installer[w] \in {"queued", "working"} => file[w] = "signed"

(* One call of the dashboard launches at most one installer, over all the      *)
(* attempts it is retried.                                                     *)
OneLaunchPerCall == \A w \in Workers : launches[w] <= 1

(* A report of success is never false: the binary was replaced after the       *)
(* marker that it speaks of was written, whoever started the process, whatever *)
(* crashed, and however often a marker that stays is reported.                 *)
SuccessIsReal == report.kind = "succeeded" => report.since = "replaced"

(* A success or its failure is reported again only where the marker could not  *)
(* be removed: because os.Remove failed, or because the process ended between  *)
(* the log line and the removal.  Otherwise the verdict of a start is the last *)
(* one on its marker ("a one-shot check"), until an update writes another.     *)
RepeatIsExplained == report.kind \in {"succeeded", "noEffect"} => report.verdict # "given"

(* The inductive strengthening of the invariants above: what each program      *)
(* point of a goroutine knows of its file, its launches and the process, ...   *)
WorkerInv ==
  \A w \in Workers :
    /\ pc[w] # "idle" => running # Down
    /\ pc[w] = "launch" => file[w] = "signed"
    /\ pc[w] = "sleep" => attempt[w] < RetryAttempts
    /\ pc[w] = "write" => running # Unversioned
    /\ pc[w] \in {"download", "verify", "launch", "sleep"} =>
         installer[w] = "none" /\ launches[w] = 0

(* ... the one installer at work of the process it has stopped, ...            *)
Working == {"working", "stopped", "swapped", "undone"}
InstallerInv ==
  /\ running \in {Down, installed}
  /\ \A w \in Workers : installer[w] \in {"stopped", "swapped", "undone"} => running = Down
  /\ \A v, w \in Workers : installer[v] \in Working /\ installer[w] \in Working => v = w

(* ... a marker of the binary that was there when it was written,              *)
MarkerInv ==
  marker \notin {NoMarker, Torn} =>
    since = "replaced" \/ (since = "written" /\ marker = Marker(installed))

(* ... and a verdict that is given and not yet followed by the removal, which  *)
(* comes before any call of the dashboard.                                     *)
VerdictInv ==
  /\ boot # "done" => running # Down /\ \A w \in Workers : pc[w] = "idle"
  /\ boot = "remove" \/ marker \in {NoMarker, Torn} \/ verdict # "given"

UpdateInv == WorkerInv /\ InstallerInv /\ MarkerInv /\ VerdictInv

(* A call runs to its end, in an installer launched or in its last attempt,    *)
(* unless the process ends first.                                              *)
CallEnds == \A w \in Workers : pc[w] # "idle" ~> pc[w] = "idle"

(* "an ordinary restart unrelated to any update is never misread as one"       *)
(* (confirm.go): a start while the installer has not got to the service yet    *)
(* does not judge its outcome.                                                 *)
RestartNotMisread == report.pending => report.kind # "noEffect"

=============================================================================
