----------------------------- MODULE ConfigFile -----------------------------
(***************************************************************************)
(* config.yaml between those who write it and the program that starts from  *)
(* it.  gen-config, edit-config and the confirmations of the setup wizard   *)
(* write through local.Write, which truncates the file and then writes it,  *)
(* without a lock and without looking at what is there.  The program looks  *)
(* for the file (ensureConfig), loads and validates it, builds the Manager  *)
(* and from then on uses what it has in memory.                             *)
(* The person at the editor, the service manager, ngrok and whoever         *)
(* replaces the PEM files are external.                                     *)
(***************************************************************************)
EXTENDS Config

CONSTANTS Commands,  \* runs of gen-config or edit-config, or confirmations, at once
          Paths,     \* the PEM files a configuration may name
          KeyPairs,  \* those it may name as a certificate and its key
          Edits,     \* what a person may leave in the editor
          Flags,     \* the command lines of gen-config
          Forms,     \* what may be confirmed in the wizard
          Staged     \* configurations that may be there before the first start

ASSUME ConfigFileAssumption == \A k \in Staged : Validate(k, Paths)

Configs == Edits \cup Forms \cup Staged \cup {GeneratedConfig(f, f.authtoken) : f \in Flags}

\* Upstream addresses are what a string of YAML, a flag or a form can stand for.
Addressed(eps) ==
  eps \in Seq(Range(eps)) /\ \A i \in DOMAIN eps : IsAddress(eps[i].upstream.addr)

ASSUME AddressAssumption == \A k \in Configs : Addressed(k.endpoints)

\* What a valid configuration names as a certificate and its key is among KeyPairs.
ASSUME KeyPairsAssumption ==
  /\ KeyPairs \subseteq Paths \X Paths
  /\ \A k \in Configs : Validate(k, Paths) =>
       \A i \in DOMAIN k.endpoints : \A t \in Range(k.endpoints[i].tls) : <<t.cert, t.key>> \in KeyPairs

VARIABLES
  config,  \* config.yaml: what reading it gives, and how it came about
  files,   \* the PEM files that can be read and parsed at present
  pairs,   \* the certificates and keys that belong together at present
  cmd,     \* the commands
  agent    \* the program

vars == <<config, files, pairs, cmd, agent>>

\* The kind is history: a file is "torn" from its truncation until it is written
\* whole, and "mixed" when two writes went over each other.
Contents(kind, cfg) == [kind |-> kind, cfg |-> cfg]
NoFile == Contents("absent", ZeroConfig)
Torn   == Contents("torn", ZeroConfig)

Idle == [tool |-> "none", pc |-> "idle", cfg |-> ZeroConfig, eof |-> FALSE]
Down == [pc |-> "stopped", cfg |-> ZeroConfig, read |-> "none", upstreams |-> <<>>]

Init ==
  /\ config \in {NoFile} \cup {Contents("file", k) : k \in Staged}
  /\ files = Paths /\ pairs \in SUBSET KeyPairs
  /\ cmd = [c \in Commands |-> Idle]
  /\ agent = Down

-----------------------------------------------------------------------------
At(c, tool, pc) == cmd[c].tool = tool /\ cmd[c].pc = pc

Goto(c, pc) == cmd' = [cmd EXCEPT ![c].pc = pc]

Begin(c, tool, pc, cfg) ==
  /\ cmd[c] = Idle
  /\ cmd' = [cmd EXCEPT ![c] = [Idle EXCEPT !.tool = tool, !.pc = pc, !.cfg = cfg]]

Ends(c) == cmd' = [cmd EXCEPT ![c] = Idle]

(* gen-config: the flags (a command line that is turned down does nothing), then   *)
(* the token (from a file, the environment or ngrok's API, which may all fail),     *)
(* then Validate.                                                                  *)

GenConfig(c) ==
  /\ \E f \in Flags :
       ResolvesEndpoints(f) /\ Begin(c, "gen-config", "token", GeneratedConfig(f, f.authtoken))
  /\ UNCHANGED <<config, files, pairs, agent>>

ResolveAuthtoken(c) ==
  /\ At(c, "gen-config", "token")
  /\ \/ Validate(cmd[c].cfg, files) /\ Goto(c, "commit")
     \/ Ends(c)
  /\ UNCHANGED <<config, files, pairs, agent>>

(* edit-config: a scratch copy of the file, the editor, and a prompt after every   *)
(* edit that does not parse or validate.                                           *)

EditConfig(c) ==
  /\ cmd[c] = Idle /\ config.kind # "absent"
  /\ \E eof \in BOOLEAN :
       cmd' = [cmd EXCEPT ![c] = [Idle EXCEPT !.tool = "edit-config", !.pc = "editing",
                                              !.eof = eof]]
  /\ UNCHANGED <<config, files, pairs, agent>>

Commit(c, cfg) == cmd' = [cmd EXCEPT ![c].pc = "commit", ![c].cfg = cfg]

\* The editor returns: unchanged or not at all, with a valid edit, or with another one.
\* What is compared is bytes, so an edit may differ and still mean the same.
Editor(c) ==
  /\ At(c, "edit-config", "editing")
  /\ \/ Ends(c)
     \/ \E e \in Edits : Commit(c, e) /\ Validate(e, files)
     \/ ~(\A e \in Edits : Validate(e, files)) /\ Goto(c, "prompt")
  /\ UNCHANGED <<config, files, pairs, agent>>

\* Variant: the end of the input is an empty line, and so a yes.
PromptRetryAtEOF(c) ==
  /\ At(c, "edit-config", "prompt")
  /\ Goto(c, "editing") \/ (~cmd[c].eof /\ Ends(c))
  /\ UNCHANGED <<config, files, pairs, agent>>

\* Variant: after a second round the edit is taken as it is.
PromptRetryOnce(c) ==
  /\ At(c, "edit-config", "prompt")
  /\ (~cmd[c].eof /\ \E e \in Edits : Commit(c, e)) \/ Ends(c)
  /\ UNCHANGED <<config, files, pairs, agent>>

PromptRetry(c) ==
  /\ At(c, "edit-config", "prompt")
  /\ (~cmd[c].eof /\ Goto(c, "editing")) \/ Ends(c)
  /\ UNCHANGED <<config, files, pairs, agent>>

(* The wizard, of which Wizard has the rest: only a confirmation. *)

Confirm(c) ==
  /\ agent.pc = "wizard"
  /\ \E k \in Forms : Validate(k, files) /\ Begin(c, "confirm", "testing", k)
  /\ UNCHANGED <<config, files, pairs, agent>>

TestConnect(c) ==
  /\ At(c, "confirm", "testing")
  /\ \/ parseAgentConfig(cmd[c].cfg, files) /\ CanForward(cmd[c].cfg, files, pairs) /\ Goto(c, "commit")
     \/ Ends(c)
  /\ UNCHANGED <<config, files, pairs, agent>>

-----------------------------------------------------------------------------
(* local.Write *)

\* os.WriteFile opens and truncates; it, or MkdirAll before it, may fail.
Truncate(c) ==
  /\ cmd[c].pc = "commit"
  /\ \/ config' = Torn /\ Goto(c, "writing")
     \/ Ends(c) /\ UNCHANGED config
  /\ UNCHANGED <<files, pairs, agent>>

\* Variant: a short write is no error.
WrittenShort(c) ==
  /\ cmd[c].pc = "writing"
  /\ config' = Contents("file", [cmd[c].cfg EXCEPT !.endpoints = <<>>])
  /\ Ends(c)
  /\ agent' = IF cmd[c].tool = "confirm" /\ agent.pc = "wizard"
              THEN [agent EXCEPT !.pc = "load"] ELSE agent
  /\ UNCHANGED <<files, pairs>>

\* A write from the start of the file, over whatever was written since its truncation.
Written(c) ==
  /\ cmd[c].pc = "writing"
  /\ config' \in {Contents("file", cmd[c].cfg)}
                 \cup (IF config = Torn THEN {} ELSE {Contents("mixed", cmd[c].cfg)})
  /\ Ends(c)
  /\ agent' = IF cmd[c].tool = "confirm" /\ agent.pc = "wizard"
              THEN [agent EXCEPT !.pc = "load"] ELSE agent
  /\ UNCHANGED <<files, pairs>>

\* The first lines of the YAML: the credential comes first, the endpoints in the middle.
Prefix(cfg, n) ==
  [ZeroConfig EXCEPT !.schemaVersion = cfg.schemaVersion, !.provider = cfg.provider,
                     !.authtoken = cfg.authtoken, !.endpoints = SubSeq(cfg.endpoints, 1, n)]

\* The disk is full, or the process is killed: nothing or a part of it is there.
CutShort(c) ==
  /\ cmd[c].pc = "writing"
  /\ config' \in {config} \cup
       (IF config = Torn
        THEN {Contents("torn", Prefix(cmd[c].cfg, n)) : n \in 0..Len(cmd[c].cfg.endpoints)}
        ELSE {Contents("mixed", cmd[c].cfg)})
  /\ Ends(c)
  /\ UNCHANGED <<files, pairs, agent>>

Running(c) ==
  \/ ResolveAuthtoken(c) \/ Editor(c) \/ PromptRetry(c) \/ TestConnect(c)
  \/ Truncate(c) \/ Written(c) \/ CutShort(c)

Command(c) == GenConfig(c) \/ EditConfig(c) \/ Confirm(c) \/ Running(c)

-----------------------------------------------------------------------------
(* The program *)

AgentFrom(pc) == agent.pc = pc /\ UNCHANGED <<config, files, pairs, cmd>>

Boot == agent.pc \in {"stopped", "failed"} /\ agent' = [Down EXCEPT !.pc = "starting"]
        /\ UNCHANGED <<config, files, pairs, cmd>>

EnsureConfig ==
  /\ AgentFrom("starting")
  /\ agent' = [agent EXCEPT !.pc = IF config.kind = "absent" THEN "wizard" ELSE "load"]

Fail(kind) == agent' = [Down EXCEPT !.pc = "failed", !.read = kind]

\* A mixed file may parse or not; an empty one parses.
Load ==
  /\ AgentFrom("load")
  /\ \/ agent' = [agent EXCEPT !.pc = "resolve", !.cfg = config.cfg, !.read = config.kind]
     \/ config.kind = "mixed" /\ Fail(config.kind)

Resolve ==
  /\ AgentFrom("resolve")
  /\ IF Validate(agent.cfg, files) THEN agent' = [agent EXCEPT !.pc = "new"] ELSE Fail(agent.read)

New ==
  /\ AgentFrom("new")
  /\ IF NewAccepts(agent.cfg, files)
     THEN agent' = [agent EXCEPT !.pc = "running", !.read = "none"] ELSE Fail(agent.read)

\* An attempt that ngrok accepts.  Any other leaves the program where it is.
Attempt ==
  /\ AgentFrom("running") /\ CanForward(agent.cfg, files, pairs)
  /\ agent' = [agent EXCEPT !.pc = "serving",
                 !.upstreams = [i \in DOMAIN agent.cfg.endpoints |-> Build(agent.cfg.endpoints[i])]]

\* The session is lost, or the dashboard asks for a restart.
Reconnect ==
  /\ AgentFrom("serving")
  /\ agent' = [agent EXCEPT !.pc = "running", !.upstreams = <<>>]

\* A stop, a crash or an error that is not about the configuration (of os.Stat, or of the
\* wizard), which takes the confirmations along.
Exit ==
  /\ agent.pc \notin {"stopped", "failed"}
  /\ agent' = Down
  /\ cmd' = [c \in Commands |-> IF cmd[c].tool = "confirm" THEN Idle ELSE cmd[c]]
  /\ UNCHANGED <<config, files, pairs>>

Starting == EnsureConfig \/ Load \/ Resolve \/ New \/ Attempt

\* Somebody takes a PEM file away, or puts one there that belongs to others than before.
Replace ==
  /\ \E p \in Paths :
       LET its == {kp \in KeyPairs : p \in {kp[1], kp[2]}} IN
       \/ files' = files \ {p} /\ pairs' = pairs \ its
       \/ files' = files \cup {p} /\ \E now \in SUBSET its : pairs' = (pairs \ its) \cup now
  /\ UNCHANGED <<config, cmd, agent>>

Next ==
  \/ \E c \in Commands : Command(c)
  \/ Boot \/ Starting \/ Reconnect \/ Exit \/ Replace

Spec == Init /\ [][Next]_vars

(* The program and the commands run, an editor returns, a write returns; a person *)
(* may be asked forever.  A network that works lets an attempt succeed in the end. *)
FairSpec == Spec /\ WF_vars(Starting) /\ \A c \in Commands : WF_vars(Running(c))

-----------------------------------------------------------------------------
Commanded == [tool : {"none", "gen-config", "edit-config", "confirm"},
              pc   : {"idle", "token", "editing", "prompt", "testing", "commit", "writing"},
              cfg  : Configs \cup {ZeroConfig},
              eof  : BOOLEAN]

\* The type invariant.
TypeOK ==
  /\ config.kind \in {"absent", "torn", "mixed", "file"}
  /\ config.kind # "torn" => config.cfg \in Configs \cup {ZeroConfig}
  /\ files \subseteq Paths /\ pairs \subseteq KeyPairs
  /\ cmd \in [Commands -> Commanded]
  /\ agent.pc \in {"stopped", "failed", "starting", "wizard", "load", "resolve", "new",
                   "running", "serving"}

(* A configuration that was written whole is valid, whoever wrote it, after however *)
(* many rounds of the editor, and whatever others did to the file meanwhile: but    *)
(* for a PEM file that has gone since, a start would not refuse it.  "so a typo     *)
(* never lands as a broken config" (edit_config.go).                               *)
CommittedIsValid == config.kind = "file" => Validate(config.cfg, Paths)

(* A start fails for no other reason than a file that was caught half-written, or   *)
(* left so by a write cut short or crossed by another one, or a PEM file that is    *)
(* missing at that moment: what a writer's Validate accepts, no later check of the  *)
(* start (Load, Resolve, the log level, NewManager) turns down.                     *)
FailedStartIsExplained ==
  [][agent.pc # "failed" /\ agent'.pc = "failed" =>
       agent'.read \in {"torn", "mixed"} \/ files # Paths]_vars

(* What is forwarded reaches what the configuration names: its host, or the local   *)
(* machine if it names none, as a bare port or ":8080" does, and its port; and it is *)
(* passed on as raw bytes exactly if the address says so or, without a scheme of its *)
(* own, the endpoint is a TCP or TLS one.  An address without a port leaves that to  *)
(* the SDK.                                                                          *)
Names(addr, to) ==
  /\ to[1] = IF addr.host = "" THEN "localhost" ELSE addr.host
  /\ addr.port # NoPort => to[2] = addr.port

UpstreamsAsMeant ==
  agent.pc = "serving" =>
    /\ DOMAIN agent.upstreams = DOMAIN agent.cfg.endpoints
    /\ \A i \in DOMAIN agent.upstreams :
         LET ep == agent.cfg.endpoints[i]  addr == ep.upstream.addr IN
         /\ Names(addr, Dials(agent.upstreams[i]))
         /\ Raw(agent.upstreams[i]) <=> IF addr.scheme # "" THEN Raw(addr) ELSE ep.url \in {"tcp", "tls"}

(* "a non-interactive invocation with a permanently-broken edit would spin" but for *)
(* the check of the prompt (promptRetry): edit-config at the end of its input ends. *)
NonInteractiveEditEnds == \A c \in Commands : cmd[c].eof ~> cmd[c].pc = "idle"

(* "Once config.yaml exists, every future run connects directly" (README.md), with  *)
(* what that needs: a start that finds a whole file, with a token and its PEM files  *)
(* in place, every key that of its certificate, gets to serve unless it is stopped   *)
(* or one of these changes.                                                          *)
Settled ==
  config.kind = "file" /\ HasCredential(config.cfg) /\ files = Paths /\ pairs = KeyPairs

ExistingConfigServes ==
  agent.pc = "starting" /\ Settled ~> agent.pc \in {"serving", "stopped"} \/ ~Settled

=============================================================================
