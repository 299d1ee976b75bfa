-------------------------- MODULE ConfigFileProofs --------------------------
(***************************************************************************)
(* Theorems about ConfigFile, for any number of commands at once, any PEM   *)
(* files, and whatever may be typed, flagged or confirmed.                  *)
(***************************************************************************)
EXTENDS ConfigFile, TLAPS

-----------------------------------------------------------------------------
(* The checks *)

\* Only a PEM file that is missing can turn a valid configuration into an invalid one.
LEMMA ValidateMonotone ==
  ASSUME NEW cfg, NEW F, NEW P, F \subseteq P, Validate(cfg, F)
  PROVE  Validate(cfg, P)
<1>1. ASSUME NEW ep, ValidEndpoint(ep, F) PROVE ValidEndpoint(ep, P)
  BY <1>1 DEF ValidEndpoint
<1>2. ValidConnection(cfg, P)
  BY DEF Validate, ValidConnection
<1> QED
  BY <1>1, <1>2 DEF Validate

(* What Validate accepts, the later checks of a start accept too: the two read the *)
(* log level, the heartbeat and the authority's bundle the same way.               *)
LEMMA ValidIsAccepted ==
  ASSUME NEW cfg, NEW F, Validate(cfg, F)
  PROVE  NewAccepts(cfg, F)
<1>1. parseAgentConfig(cfg, F)
  BY DEF Validate, ValidConnection, parseAgentConfig
<1>2. cfg.logLevel # "" => ParseLevel(cfg.logLevel) # "unknown"
  BY DEF Validate, ValidLogLevels, ParseLevel
<1> QED
  BY <1>1, <1>2 DEF NewAccepts

-----------------------------------------------------------------------------
(* The inductive invariant *)

\* A command that is to write has had its configuration validated.
WritersValidated ==
  \A c \in Commands :
    cmd[c].pc \in {"testing", "commit", "writing"} => Validate(cmd[c].cfg, Paths)

(* The program has read a file that was there, and if it was whole, a valid one. *)
ReadersKnow ==
  /\ agent = [pc |-> agent.pc, cfg |-> agent.cfg, read |-> agent.read, upstreams |-> agent.upstreams]
  /\ agent.pc = "load" => config.kind # "absent"
  /\ agent.pc \in {"resolve", "new"} =>
       /\ agent.read \in {"torn", "mixed", "file"}
       /\ agent.read = "file" => Validate(agent.cfg, Paths)

CfInv == TypeOK /\ CommittedIsValid /\ WritersValidated /\ ReadersKnow

LEMMA CfInitInv == Init => CfInv
<1> SUFFICES ASSUME Init PROVE CfInv
  OBVIOUS
<1> USE DEF Init, Contents, NoFile, Down
<1>1. TypeOK
  BY DEF TypeOK, Configs, Commanded, Idle
<1>2. CommittedIsValid
  BY ConfigFileAssumption DEF CommittedIsValid
<1>3. WritersValidated /\ ReadersKnow
  BY DEF WritersValidated, ReadersKnow, Idle
<1> QED
  BY <1>1, <1>2, <1>3 DEF CfInv

-----------------------------------------------------------------------------
\* The file as the program sees it is kept by a step that only moves one command on.
LEMMA CommandMoves ==
  ASSUME CfInv, UNCHANGED <<config, files, pairs, agent>>, NEW c \in Commands,
         NEW e \in Commanded, cmd' = [cmd EXCEPT ![c] = e],
         e.pc \in {"testing", "commit", "writing"} => Validate(e.cfg, Paths)
  PROVE  CfInv'
<1>1. TypeOK'
  BY DEF CfInv, TypeOK
<1>2. WritersValidated'
  BY DEF CfInv, TypeOK, WritersValidated
<1> QED
  BY <1>1, <1>2 DEF CfInv, CommittedIsValid, ReadersKnow

\* Before a write, nothing but the command itself changes.
LEMMA UpToTheWrite ==
  ASSUME CfInv, NEW c \in Commands,
         GenConfig(c) \/ ResolveAuthtoken(c) \/ EditConfig(c) \/ Editor(c)
           \/ PromptRetry(c) \/ Confirm(c) \/ TestConnect(c)
  PROVE  CfInv'
<1> DEFINE k == cmd[c]
<1>0. k \in Commanded /\ files \subseteq Paths /\ Idle \in Commanded
  BY DEF CfInv, TypeOK, Commanded, Idle
<1>1. UNCHANGED <<config, files, pairs, agent>>
  BY DEF GenConfig, ResolveAuthtoken, EditConfig, Editor, PromptRetry, Confirm, TestConnect
<1>2. CASE Ends(c)
  BY <1>0, <1>1, <1>2, CommandMoves DEF Ends, Idle
<1>3. CASE GenConfig(c)
  <2>1. PICK f \in Flags : Begin(c, "gen-config", "token", GeneratedConfig(f, f.authtoken))
    BY <1>3 DEF GenConfig
  <2> DEFINE e == [Idle EXCEPT !.tool = "gen-config", !.pc = "token",
                               !.cfg = GeneratedConfig(f, f.authtoken)]
  <2>2. GeneratedConfig(f, f.authtoken) \in Configs
    BY DEF Configs
  <2>3. e \in Commanded /\ e.pc = "token"
    BY <2>2 DEF Commanded, Idle
  <2> QED
    BY <1>1, <2>1, <2>3, CommandMoves DEF Begin
<1>4. CASE ResolveAuthtoken(c) /\ ~Ends(c)
  <2> DEFINE e == [k EXCEPT !.pc = "commit"]
  <2>1. Validate(k.cfg, Paths)
    BY <1>0, <1>4, ValidateMonotone DEF ResolveAuthtoken
  <2>2. e \in Commanded /\ e.cfg = k.cfg
    BY <1>0 DEF Commanded
  <2>3. cmd' = [cmd EXCEPT ![c] = e]
    BY <1>4 DEF ResolveAuthtoken, Goto, CfInv, TypeOK
  <2> QED
    BY <1>1, <2>1, <2>2, <2>3, CommandMoves
<1>5. CASE EditConfig(c)
  <2>1. PICK b \in BOOLEAN :
          cmd' = [cmd EXCEPT ![c] = [Idle EXCEPT !.tool = "edit-config", !.pc = "editing", !.eof = b]]
    BY <1>5 DEF EditConfig
  <2> DEFINE e == [Idle EXCEPT !.tool = "edit-config", !.pc = "editing", !.eof = b]
  <2>2. e \in Commanded /\ e.pc = "editing"
    BY DEF Commanded, Idle
  <2> QED
    BY <1>1, <2>1, <2>2, CommandMoves
<1>6. CASE Editor(c) /\ ~Ends(c)
  <2>1. CASE \E d \in Edits : Commit(c, d) /\ Validate(d, files)
    <3>1. PICK d \in Edits : Commit(c, d) /\ Validate(d, files)
      BY <2>1
    <3> DEFINE e == [k EXCEPT !.pc = "commit", !.cfg = d]
    <3>2. Validate(d, Paths)
      BY <1>0, <3>1, ValidateMonotone
    <3>3. e \in Commanded /\ e.cfg = d
      BY <1>0 DEF Commanded, Configs
    <3>4. cmd' = [cmd EXCEPT ![c] = e]
      BY <3>1 DEF Commit, CfInv, TypeOK
    <3> QED
      BY <1>1, <3>2, <3>3, <3>4, CommandMoves
  <2>2. CASE Goto(c, "prompt")
    <3> DEFINE e == [k EXCEPT !.pc = "prompt"]
    <3>1. e \in Commanded /\ e.pc = "prompt"
      BY <1>0 DEF Commanded
    <3>2. cmd' = [cmd EXCEPT ![c] = e]
      BY <2>2 DEF Goto, CfInv, TypeOK
    <3> QED
      BY <1>1, <3>1, <3>2, CommandMoves
  <2> QED
    BY <1>6, <2>1, <2>2 DEF Editor
<1>7. CASE PromptRetry(c) /\ ~Ends(c)
  <2> DEFINE e == [k EXCEPT !.pc = "editing"]
  <2>1. e \in Commanded /\ e.pc = "editing"
    BY <1>0 DEF Commanded
  <2>2. cmd' = [cmd EXCEPT ![c] = e]
    BY <1>7 DEF PromptRetry, Goto, CfInv, TypeOK
  <2> QED
    BY <1>1, <2>1, <2>2, CommandMoves
<1>8. CASE Confirm(c)
  <2>1. PICK d \in Forms : Validate(d, files) /\ Begin(c, "confirm", "testing", d)
    BY <1>8 DEF Confirm
  <2> DEFINE e == [Idle EXCEPT !.tool = "confirm", !.pc = "testing", !.cfg = d]
  <2>2. Validate(d, Paths)
    BY <1>0, <2>1, ValidateMonotone
  <2>3. e \in Commanded /\ e.cfg = d
    BY DEF Commanded, Configs, Idle
  <2> QED
    BY <1>1, <2>1, <2>2, <2>3, CommandMoves DEF Begin
<1>9. CASE TestConnect(c) /\ ~Ends(c)
  <2> DEFINE e == [k EXCEPT !.pc = "commit"]
  <2>1. Validate(k.cfg, Paths)
    BY <1>9 DEF TestConnect, At, CfInv, WritersValidated
  <2>2. e \in Commanded /\ e.cfg = k.cfg
    BY <1>0 DEF Commanded
  <2>3. cmd' = [cmd EXCEPT ![c] = e]
    BY <1>9 DEF TestConnect, Goto, CfInv, TypeOK
  <2> QED
    BY <1>1, <2>1, <2>2, <2>3, CommandMoves
<1> QED
  BY <1>2, <1>3, <1>4, <1>5, <1>6, <1>7, <1>8, <1>9

\* The write itself: what is in the file when it is whole is what was validated.
LEMMA TheWrite ==
  ASSUME CfInv, NEW c \in Commands, Truncate(c) \/ Written(c) \/ CutShort(c)
  PROVE  CfInv'
<1> DEFINE k == cmd[c]
<1>0. k \in Commanded /\ Idle \in Commanded /\ k.pc \in {"commit", "writing"}
  BY DEF CfInv, TypeOK, Commanded, Idle, Truncate, Written, CutShort
<1>1. Validate(k.cfg, Paths)
  BY <1>0 DEF CfInv, WritersValidated
<1>2. CASE Truncate(c)
  <2>1. CASE Ends(c) /\ UNCHANGED config
    BY <1>0, <1>2, <2>1, CommandMoves DEF Ends, Truncate, Idle
  <2>2. CASE config' = Torn /\ Goto(c, "writing")
    <3>1. TypeOK' /\ CommittedIsValid'
      BY <1>2, <2>2
         DEF Truncate, Goto, Torn, Contents, CfInv, TypeOK, Commanded, CommittedIsValid
    <3>2. WritersValidated'
      BY <1>1, <2>2 DEF Goto, CfInv, TypeOK, Commanded, WritersValidated
    <3>3. ReadersKnow'
      BY <1>2, <2>2 DEF Truncate, Torn, Contents, CfInv, ReadersKnow
    <3> QED
      BY <3>1, <3>2, <3>3 DEF CfInv
  <2> QED
    BY <1>2, <2>1, <2>2 DEF Truncate
<1>3. CASE Written(c) \/ CutShort(c)
  <2>1. cmd' = [cmd EXCEPT ![c] = Idle] /\ UNCHANGED <<files, pairs>>
    BY <1>3 DEF Written, CutShort, Ends
  <2>2. \/ config'.kind \in {"file", "mixed"} /\ config'.cfg = k.cfg
        \/ config'.kind = "torn" /\ UNCHANGED agent
        \/ UNCHANGED <<config, agent>>
    <3>1. CASE Written(c)
      BY <3>1 DEF Written, Contents
    <3>2. CASE CutShort(c)
      <4>1. \/ config' = config
            \/ \E n \in 0 .. Len(k.cfg.endpoints) : config' = Contents("torn", Prefix(k.cfg, n))
            \/ config' = Contents("mixed", k.cfg)
        BY <3>2 DEF CutShort
      <4>2. UNCHANGED agent
        BY <3>2 DEF CutShort
      <4> QED
        BY <4>1, <4>2 DEF Contents
    <3> QED
      BY <1>3, <3>1, <3>2
  <2>3. \/ agent' = agent
        \/ agent' = [agent EXCEPT !.pc = "load"] /\ config'.kind # "torn"
    <3>1. CASE Written(c)
      <4>1. config'.kind # "torn"
        BY <3>1 DEF Written, Contents
      <4>2. agent' = agent \/ agent' = [agent EXCEPT !.pc = "load"]
        BY <3>1 DEF Written
      <4> QED
        BY <4>1, <4>2
    <3>2. CASE CutShort(c)
      BY <3>2 DEF CutShort
    <3> QED
      BY <1>3, <3>1, <3>2
  <2>4. TypeOK'
    BY <1>0, <2>1, <2>2, <2>3 DEF CfInv, TypeOK, Commanded, ReadersKnow
  <2>5. CommittedIsValid'
    BY <1>1, <2>1, <2>2 DEF CfInv, CommittedIsValid
  <2>6. WritersValidated'
    BY <2>1 DEF CfInv, TypeOK, Idle, WritersValidated
  <2>7. ReadersKnow'
    BY <2>2, <2>3 DEF CfInv, ReadersKnow
  <2> QED
    BY <2>4, <2>5, <2>6, <2>7 DEF CfInv
<1> QED
  BY <1>2, <1>3

-----------------------------------------------------------------------------
\* A step of the program reads the file and never writes it.
LEMMA TheProgram ==
  ASSUME CfInv, UNCHANGED <<config, files, pairs, cmd>>,
         agent'.pc \in {"failed", "starting", "wizard", "load", "resolve", "new",
                        "running", "serving"},
         ReadersKnow'
  PROVE  CfInv'
BY DEF CfInv, TypeOK, CommittedIsValid, WritersValidated

LEMMA StartingInv ==
  ASSUME CfInv, Boot \/ Starting \/ Reconnect
  PROVE  CfInv'
<1>0. UNCHANGED <<config, files, pairs, cmd>>
  BY DEF Boot, Starting, EnsureConfig, Load, Resolve, New, Attempt, Reconnect, AgentFrom
<1>1. /\ agent = [pc |-> agent.pc, cfg |-> agent.cfg, read |-> agent.read,
                  upstreams |-> agent.upstreams]
      /\ files \subseteq Paths
      /\ config.kind \in {"absent", "torn", "mixed", "file"}
  BY DEF CfInv, ReadersKnow, TypeOK
<1> USE DEF ReadersKnow, AgentFrom, Fail, Down
<1>2. CASE Boot
  BY <1>0, <1>2, TheProgram DEF Boot
<1>3. CASE EnsureConfig
  BY <1>0, <1>1, <1>3, TheProgram DEF EnsureConfig
<1>4. CASE Load
  <2>1. config.kind # "absent" /\ (config.kind = "file" => Validate(config.cfg, Paths))
    BY <1>4 DEF Load, CfInv, CommittedIsValid
  <2> QED
    BY <1>0, <1>1, <1>4, <2>1, TheProgram DEF Load
<1>5. CASE Resolve
  <2>1. /\ agent.read \in {"torn", "mixed", "file"}
        /\ agent.read = "file" => Validate(agent.cfg, Paths)
    BY <1>5 DEF Resolve, CfInv
  <2> QED
    BY <1>0, <1>1, <1>5, <2>1, TheProgram DEF Resolve
<1>6. CASE New
  BY <1>0, <1>1, <1>6, TheProgram DEF New
<1>7. CASE Attempt \/ Reconnect
  BY <1>0, <1>1, <1>7, TheProgram DEF Attempt, Reconnect
<1> QED
  BY <1>2, <1>3, <1>4, <1>5, <1>6, <1>7 DEF Starting

LEMMA CfStepInv == CfInv /\ [Next]_vars => CfInv'
<1> SUFFICES ASSUME CfInv, [Next]_vars PROVE CfInv'
  OBVIOUS
<1>1. ASSUME NEW c \in Commands, Command(c) PROVE CfInv'
  BY <1>1, UpToTheWrite, TheWrite DEF Command, Running
<1>2. CASE Boot \/ Starting \/ Reconnect
  BY <1>2, StartingInv
<1>3. CASE Exit
  <2>1. TypeOK'
    BY <1>3 DEF Exit, CfInv, TypeOK, Down, Idle, Commanded
  <2>2. WritersValidated'
    BY <1>3 DEF Exit, CfInv, TypeOK, Idle, WritersValidated
  <2> QED
    BY <1>3, <2>1, <2>2 DEF Exit, CfInv, CommittedIsValid, ReadersKnow, Down
<1>4. CASE Replace
  BY <1>4 DEF Replace, CfInv, TypeOK, CommittedIsValid, WritersValidated, ReadersKnow
<1>5. CASE UNCHANGED vars
  BY <1>5 DEF vars, CfInv, TypeOK, CommittedIsValid, WritersValidated, ReadersKnow
<1> QED
  BY <1>1, <1>2, <1>3, <1>4, <1>5 DEF Next

LEMMA CfInductive == Spec => []CfInv
BY CfInitInv, CfStepInv, PTL DEF Spec

-----------------------------------------------------------------------------
\* The types of the file, the commands and the program.
THEOREM ConfigFileTypes == Spec => []TypeOK
<1>1. CfInv => TypeOK
  BY DEF CfInv
<1> QED
  BY <1>1, CfInductive, PTL

(* A configuration that was written whole is valid, over any number of writers at *)
(* once, rounds of the editor and PEM files that come and go between check and     *)
(* write.                                                                          *)
THEOREM Committed == Spec => []CommittedIsValid
<1>1. CfInv => CommittedIsValid
  BY DEF CfInv
<1> QED
  BY <1>1, CfInductive, PTL

(* A start fails only for a file that was caught half-written or a PEM file that is *)
(* missing at that moment.                                                          *)
THEOREM FailedStart == Spec => FailedStartIsExplained
<1>1. ASSUME CfInv, [Next]_vars, agent.pc # "failed", agent'.pc = "failed"
      PROVE  agent'.read \in {"torn", "mixed"} \/ files # Paths
  <2> USE DEF AgentFrom, Fail, Down
  <2>1. /\ agent = [pc |-> agent.pc, cfg |-> agent.cfg, read |-> agent.read,
                    upstreams |-> agent.upstreams]
        /\ agent.pc \in {"resolve", "new"} => agent.read \in {"torn", "mixed", "file"}
        /\ agent.pc \in {"resolve", "new"} /\ agent.read = "file" =>
             Validate(agent.cfg, Paths) /\ NewAccepts(agent.cfg, Paths)
    BY <1>1, ValidIsAccepted DEF CfInv, ReadersKnow
  <2>2. ASSUME NEW c \in Commands, Command(c) PROVE FALSE
    BY <1>1, <2>1, <2>2
       DEF Command, Running, GenConfig, ResolveAuthtoken, EditConfig, Editor, PromptRetry,
           Confirm, TestConnect, Truncate, Written, CutShort
  <2>3. CASE Load
    BY <1>1, <2>1, <2>3 DEF Load
  <2>4. CASE Resolve
    BY <1>1, <2>1, <2>4 DEF Resolve
  <2>5. CASE New
    BY <1>1, <2>1, <2>5 DEF New
  <2>6. CASE Boot \/ Exit
    BY <1>1, <2>6 DEF Boot, Exit
  <2>7. CASE EnsureConfig \/ Reconnect
    BY <1>1, <2>1, <2>7 DEF EnsureConfig, Reconnect
  <2>8. CASE Attempt
    <3>1. agent'.pc = "serving"
      BY <2>1, <2>8 DEF Attempt
    <3> QED
      BY <1>1, <3>1
  <2>9. CASE Replace \/ UNCHANGED vars
    BY <1>1, <2>9 DEF Replace, vars
  <2> QED
    BY <1>1, <2>2, <2>3, <2>4, <2>5, <2>6, <2>7, <2>8, <2>9 DEF Next, Starting
<1> QED
  BY <1>1, CfInductive, PTL DEF Spec, FailedStartIsExplained

-----------------------------------------------------------------------------
(* The way to serving *)

\* A configuration that nothing between Load and the answer of ngrok turns down.
Servable(cfg) == Validate(cfg, Paths) /\ CanForward(cfg, Paths, KeyPairs)

(* A start on its way to serve: the file is settled, and what was loaded from it   *)
(* is servable, also if the file has been written anew since.                      *)
OnTheWay ==
  /\ Settled
  /\ agent.pc \in {"starting", "load", "resolve", "new", "running", "serving"}
  /\ agent.pc \notin {"starting", "load"} => Servable(agent.cfg)

\* The steps that are left until it serves.
StepsToServe ==
  CASE agent.pc = "starting" -> 5
    [] agent.pc = "load"     -> 4
    [] agent.pc = "resolve"  -> 3
    [] agent.pc = "new"      -> 2
    [] agent.pc = "running"  -> 1
    [] OTHER                 -> 0

(* While the file stays settled, a start that is on its way stays on it until it   *)
(* serves or is stopped: what any writer does meanwhile does not put it back, and   *)
(* every step of its own brings it nearer.                                         *)
StaysOnTheWay ==
  [][OnTheWay /\ Settled' /\ agent.pc # "serving" =>
       \/ agent' = agent /\ OnTheWay'
       \/ agent'.pc = "stopped"
       \/ OnTheWay' /\ StepsToServe' < StepsToServe]_vars

\* A start that finds a settled file is on its way, and no attempt of it is refused.
WayIsOpen ==
  /\ agent.pc = "starting" /\ Settled => OnTheWay
  /\ OnTheWay /\ agent.pc = "running" => CanForward(agent.cfg, files, pairs)

LEMMA SettledIsServable ==
  ASSUME CfInv, Settled
  PROVE  Servable(config.cfg)
<1> DEFINE k == config.cfg
<1>1. Validate(k, Paths) /\ HasCredential(k) /\ k \in Configs \cup {ZeroConfig}
  BY DEF CfInv, CommittedIsValid, Settled, TypeOK
<1>2. ASSUME NEW i \in DOMAIN k.endpoints PROVE Builds(k.endpoints[i], Paths, KeyPairs)
  <2>1. k \in Configs
    <3>1. ZeroConfig.authtoken = ""
      BY DEF ZeroConfig
    <3> QED
      BY <1>1, <3>1 DEF HasCredential
  <2>2. ValidEndpoint(k.endpoints[i], Paths)
    BY <1>1 DEF Validate
  <2>3. \A t \in Range(k.endpoints[i].tls) :
          <<t.cert, t.key>> \in KeyPairs /\ {t.cert, t.key} \subseteq Paths
    BY <1>1, <2>1, KeyPairsAssumption
  <2> QED
    BY <2>2, <2>3 DEF ValidEndpoint, Builds
<1> QED
  BY <1>1, <1>2 DEF Servable, CanForward

LEMMA StepOnTheWay ==
  ASSUME CfInv, [Next]_vars, OnTheWay, Settled', agent.pc # "serving"
  PROVE  \/ agent' = agent /\ OnTheWay'
         \/ agent'.pc = "stopped"
         \/ OnTheWay' /\ StepsToServe' < StepsToServe
<1> USE DEF AgentFrom, Fail, Down
<1>1. /\ agent = [pc |-> agent.pc, cfg |-> agent.cfg, read |-> agent.read,
                  upstreams |-> agent.upstreams]
      /\ agent.pc \in {"starting", "load", "resolve", "new", "running"}
      /\ config.kind = "file" /\ files = Paths /\ pairs = KeyPairs
  BY DEF CfInv, ReadersKnow, OnTheWay, Settled
<1>2. agent' = agent => OnTheWay'
  BY DEF OnTheWay, Servable
<1>3. ASSUME NEW c \in Commands, Command(c) PROVE agent' = agent
  BY <1>1, <1>3
     DEF Command, Running, GenConfig, ResolveAuthtoken, EditConfig, Editor, PromptRetry,
         Confirm, TestConnect, Truncate, Written, CutShort
<1>4. CASE EnsureConfig
  BY <1>1, <1>4 DEF EnsureConfig, OnTheWay, StepsToServe
<1>5. CASE Load
  <2>1. agent' = [agent EXCEPT !.pc = "resolve", !.cfg = config.cfg, !.read = config.kind]
    BY <1>1, <1>5 DEF Load
  <2>2. agent.pc = "load" /\ agent'.pc = "resolve" /\ agent'.cfg = config.cfg
    BY <1>1, <1>5, <2>1 DEF Load
  <2>3. Servable(agent'.cfg)
    BY <2>2, SettledIsServable DEF OnTheWay
  <2> QED
    BY <2>2, <2>3 DEF OnTheWay, StepsToServe, Servable
<1>6. CASE Resolve \/ New \/ Attempt
  <2>1. Servable(agent.cfg) /\ NewAccepts(agent.cfg, Paths)
    BY <1>6, ValidIsAccepted DEF OnTheWay, Resolve, New, Attempt, Servable
  <2>2. /\ agent'.cfg = agent.cfg
        /\ \/ agent.pc = "resolve" /\ agent'.pc = "new"
           \/ agent.pc = "new" /\ agent'.pc = "running"
           \/ agent.pc = "running" /\ agent'.pc = "serving"
    BY <1>1, <1>6, <2>1 DEF Resolve, New, Attempt, Servable
  <2> QED
    BY <2>1, <2>2 DEF OnTheWay, StepsToServe, Servable
<1>7. CASE Boot \/ Reconnect \/ Exit
  BY <1>1, <1>7 DEF Boot, Reconnect, Exit
<1>8. CASE Replace
  <2>1. agent' = agent
    BY <1>8 DEF Replace
  <2> QED
    BY <1>2, <2>1
<1>9. CASE UNCHANGED vars
  BY <1>2, <1>9 DEF vars
<1> QED
  BY <1>2, <1>3, <1>4, <1>5, <1>6, <1>7, <1>8, <1>9 DEF Next, Starting

(* "Once config.yaml exists, every future run connects directly" (README.md): a     *)
(* start that finds a whole file, with a token and its PEM files in place, has five *)
(* steps to take, none of which anything in the configuration, or any other writer, *)
(* can turn down or take back.  Besides this, ExistingConfigServes needs only that  *)
(* the program is scheduled and ngrok accepts an attempt.                           *)
THEOREM ExistingConfigIsServed == Spec => []WayIsOpen /\ StaysOnTheWay
<1>1. CfInv => WayIsOpen
  BY DEF WayIsOpen, OnTheWay, Servable, Settled
<1>2. ASSUME CfInv, [Next]_vars, OnTheWay, Settled', agent.pc # "serving"
      PROVE  \/ agent' = agent /\ OnTheWay'
             \/ agent'.pc = "stopped"
             \/ OnTheWay' /\ StepsToServe' < StepsToServe
  BY <1>2, StepOnTheWay
<1> QED
  BY <1>1, <1>2, CfInductive, PTL DEF Spec, StaysOnTheWay

-----------------------------------------------------------------------------
(* Edits without a terminal *)

\* Only edit-config asks anybody, and what it was asked with tells where it is.
EndOfInput ==
  \A c \in Commands : cmd[c].eof =>
    cmd[c].tool = "edit-config" /\ cmd[c].pc \in {"editing", "prompt", "commit", "writing"}

\* The most steps an edit without a terminal still takes.
StepsToEnd(c) ==
  CASE cmd[c].pc = "editing"              -> 3
    [] cmd[c].pc \in {"prompt", "commit"} -> 2
    [] cmd[c].pc = "writing"              -> 1
    [] OTHER                              -> 0

(* An edit whose input has ended never goes round again: each of its steps brings  *)
(* its end nearer, however broken the edit is, and nobody else's puts it off.       *)
EditsWithoutInputEnd ==
  [][\A c \in Commands : cmd[c].eof =>
       /\ StepsToEnd(c)' <= StepsToEnd(c)
       /\ Running(c) => StepsToEnd(c)' < StepsToEnd(c)]_vars

\* What a step does to the command that takes it, and to no other.
LEMMA OneCommandMoves ==
  ASSUME CfInv, NEW c \in Commands, Command(c), NEW d \in Commands, d # c
  PROVE  cmd'[d] = cmd[d]
BY DEF CfInv, TypeOK, Command, Running, GenConfig, ResolveAuthtoken, EditConfig, Editor,
       PromptRetry, Confirm, TestConnect, Truncate, Written, CutShort, Begin, Goto, Commit, Ends

LEMMA StepOfEdit ==
  ASSUME CfInv, EndOfInput, NEW c \in Commands, Command(c)
  PROVE  /\ cmd'[c].eof => /\ cmd'[c].tool = "edit-config"
                           /\ cmd'[c].pc \in {"editing", "prompt", "commit", "writing"}
         /\ cmd[c].eof => StepsToEnd(c)' < StepsToEnd(c)
<1>0. cmd \in [Commands -> Commanded]
  BY DEF CfInv, TypeOK
<1> USE <1>0 DEF EndOfInput, At, Goto, Begin, Commit, Ends, Idle, StepsToEnd, Commanded
<1>1. CASE GenConfig(c) \/ Confirm(c)
  <2>1. ASSUME NEW tool, NEW pc, NEW k, Begin(c, tool, pc, k)
        PROVE  ~cmd[c].eof /\ ~cmd'[c].eof
    BY <2>1
  <2>2. ~cmd[c].eof /\ ~cmd'[c].eof
    <3> HIDE DEF Begin
    <3> QED
      BY <1>1, <2>1 DEF GenConfig, Confirm
  <2> QED
    BY <2>2
<1>2. CASE EditConfig(c)
  <2>1. ~cmd[c].eof /\ cmd'[c].tool = "edit-config" /\ cmd'[c].pc = "editing"
    BY <1>2 DEF EditConfig
  <2> QED
    BY <2>1
<1>3. CASE ResolveAuthtoken(c) \/ TestConnect(c)
  BY <1>3 DEF ResolveAuthtoken, TestConnect
<1>4. CASE Editor(c)
  BY <1>4 DEF Editor
<1>5. CASE PromptRetry(c)
  BY <1>5 DEF PromptRetry
<1>6. CASE Truncate(c) \/ Written(c) \/ CutShort(c)
  BY <1>6 DEF Truncate, Written, CutShort
<1> QED
  BY <1>1, <1>2, <1>3, <1>4, <1>5, <1>6 DEF Command, Running

(* "a non-interactive invocation with a permanently-broken edit would spin" but for *)
(* the check of promptRetry: with it, such an edit has at most three steps to take. *)
(* Besides this, NonInteractiveEditEnds needs only that the edit is scheduled.      *)
THEOREM NoSpinning == Spec => EditsWithoutInputEnd
<1>1. Init => EndOfInput
  BY DEF Init, EndOfInput, Idle
<1>2. ASSUME CfInv, EndOfInput, [Next]_vars
      PROVE  /\ EndOfInput'
             /\ \A c \in Commands : cmd[c].eof =>
                  /\ StepsToEnd(c)' <= StepsToEnd(c)
                  /\ Running(c) => StepsToEnd(c)' < StepsToEnd(c)
  <2>1. ASSUME NEW c \in Commands PROVE StepsToEnd(c) \in Nat
    BY DEF StepsToEnd
  <2>2. ASSUME NEW c \in Commands, cmd'[c] = cmd[c] PROVE StepsToEnd(c)' = StepsToEnd(c)
    BY <2>2 DEF StepsToEnd
  <2>3. ASSUME NEW c \in Commands, Running(c), cmd[c].eof
        PROVE  StepsToEnd(c)' < StepsToEnd(c)
    BY <1>2, <2>3, StepOfEdit DEF Command
  <2>4. ASSUME NEW c \in Commands, Command(c)
        PROVE  /\ EndOfInput'
               /\ \A d \in Commands : cmd[d].eof => StepsToEnd(d)' <= StepsToEnd(d)
    <3>1. ASSUME NEW d \in Commands, d # c PROVE cmd'[d] = cmd[d]
      BY <1>2, <2>4, <3>1, OneCommandMoves
    <3>2. /\ cmd'[c].eof => /\ cmd'[c].tool = "edit-config"
                            /\ cmd'[c].pc \in {"editing", "prompt", "commit", "writing"}
          /\ cmd[c].eof => StepsToEnd(c)' < StepsToEnd(c)
      BY <1>2, <2>4, StepOfEdit
    <3>3. EndOfInput'
      BY <1>2, <3>1, <3>2 DEF EndOfInput
    <3>4. ASSUME NEW d \in Commands, cmd[d].eof PROVE StepsToEnd(d)' <= StepsToEnd(d)
      <4>1. StepsToEnd(d) \in Nat /\ StepsToEnd(d)' \in Nat
        BY <2>1 DEF StepsToEnd
      <4> QED
        BY <2>2, <3>1, <3>2, <3>4, <4>1
    <3> QED
      BY <3>3, <3>4
  <2>5. ASSUME NEW c \in Commands, Exit
        PROVE  cmd'[c] = cmd[c] \/ cmd'[c] = Idle
    BY <2>5 DEF Exit
  <2>6. CASE Exit
    <3>1. EndOfInput'
      BY <1>2, <2>5, <2>6 DEF EndOfInput, Idle
    <3>2. ASSUME NEW d \in Commands PROVE StepsToEnd(d)' <= StepsToEnd(d)
      <4>1. cmd'[d] = Idle => StepsToEnd(d)' = 0
        BY DEF StepsToEnd, Idle
      <4> QED
        BY <2>1, <2>2, <2>5, <2>6, <4>1
    <3> QED
      BY <2>3, <3>1, <3>2
  <2>7. CASE UNCHANGED cmd
    <3>1. EndOfInput'
      BY <1>2, <2>7 DEF EndOfInput
    <3>2. ASSUME NEW d \in Commands PROVE StepsToEnd(d)' <= StepsToEnd(d)
      BY <2>1, <2>2, <2>7
    <3> QED
      BY <2>3, <3>1, <3>2
  <2>8. Boot \/ Starting \/ Reconnect \/ Replace \/ UNCHANGED vars => UNCHANGED cmd
    BY DEF Boot, Starting, EnsureConfig, Load, Resolve, New, Attempt, Reconnect, AgentFrom,
           Replace, vars
  <2> QED
    BY <1>2, <2>3, <2>4, <2>6, <2>7, <2>8 DEF Next
<1>3. Spec => []EndOfInput
  BY <1>1, <1>2, CfInductive, PTL DEF Spec
<1> QED
  BY <1>2, <1>3, CfInductive, PTL DEF Spec, EditsWithoutInputEnd

-----------------------------------------------------------------------------
(* Upstreams *)

\* Whatever can be read of the file, and whatever the program has read, is addressed.
AddressesKnown ==
  /\ Addressed(config.cfg.endpoints)
  /\ agent.pc \in {"resolve", "new", "running", "serving"} => Addressed(agent.cfg.endpoints)

\* What is forwarded is what Build made of the configuration the program has.
Forwarded ==
  agent.pc = "serving" =>
    agent.upstreams = [i \in DOMAIN agent.cfg.endpoints |-> Build(agent.cfg.endpoints[i])]

LEMMA NoEndpointsAddressed == Addressed(ZeroConfig.endpoints)
BY DEF Addressed, ZeroConfig

\* A write cut short leaves whole endpoints or none of them.
LEMMA PrefixAddressed ==
  ASSUME NEW cfg, Addressed(cfg.endpoints), NEW n \in 0..Len(cfg.endpoints)
  PROVE  Addressed(Prefix(cfg, n).endpoints)
<1> DEFINE eps == cfg.endpoints  pre == SubSeq(eps, 1, n)
<1>1. eps \in Seq(Range(eps))
  BY DEF Addressed
<1>2. /\ Len(pre) = n /\ DOMAIN pre = 1..n
      /\ \A i \in 1..n : i \in DOMAIN eps /\ pre[i] = eps[i]
  BY <1>1
<1>3. pre \in Seq(Range(pre))
  <2>1. pre = [i \in 1..n |-> pre[i]]
    BY <1>1
  <2>2. \A i \in 1..n : pre[i] \in Range(pre)
    BY <1>2 DEF Range
  <2> HIDE DEF pre
  <2> QED
    BY <2>1, <2>2
<1>4. Prefix(cfg, n).endpoints = pre
  BY DEF Prefix, ZeroConfig
<1> QED
  BY <1>2, <1>3, <1>4 DEF Addressed

\* The commands have their configurations from the inputs.
LEMMA CommandsAddressed == TypeOK => \A c \in Commands : Addressed(cmd[c].cfg.endpoints)
BY AddressAssumption, NoEndpointsAddressed DEF TypeOK, Commanded

LEMMA FileAddressed ==
  ASSUME CfInv, AddressesKnown, [Next]_vars
  PROVE  Addressed(config'.cfg.endpoints)
<1>1. \A c \in Commands : Addressed(cmd[c].cfg.endpoints)
  BY CommandsAddressed DEF CfInv
<1>2. CASE UNCHANGED config
  BY <1>2 DEF AddressesKnown
<1>3. ASSUME NEW c \in Commands, Truncate(c) \/ Written(c) PROVE Addressed(config'.cfg.endpoints)
  BY <1>1, <1>2, <1>3, NoEndpointsAddressed DEF Truncate, Written, Torn, Contents
<1>4. ASSUME NEW c \in Commands, CutShort(c) PROVE Addressed(config'.cfg.endpoints)
  <2>1. CASE config' = config
    BY <1>2, <2>1
  <2>2. CASE config' = Contents("mixed", cmd[c].cfg)
    BY <1>1, <2>2 DEF Contents
  <2>3. ASSUME NEW n \in 0..Len(cmd[c].cfg.endpoints),
               config' = Contents("torn", Prefix(cmd[c].cfg, n))
        PROVE  Addressed(config'.cfg.endpoints)
    BY <1>1, <2>3, PrefixAddressed DEF Contents
  <2> QED
    BY <1>4, <2>1, <2>2, <2>3 DEF CutShort
<1>5. ASSUME NEW c \in Commands, Command(c) PROVE Addressed(config'.cfg.endpoints)
  BY <1>2, <1>3, <1>4, <1>5
     DEF Command, Running, GenConfig, ResolveAuthtoken, EditConfig, Editor, PromptRetry, Confirm,
         TestConnect
<1>6. CASE Boot \/ Starting \/ Reconnect \/ Exit \/ Replace \/ UNCHANGED vars
  BY <1>2, <1>6
     DEF Boot, Starting, EnsureConfig, Load, Resolve, New, Attempt, Reconnect, Exit, Replace,
         AgentFrom, vars
<1> QED
  BY <1>5, <1>6 DEF Next

\* The program's own steps change what it has read only in Load.
LEMMA AgentAddressed ==
  ASSUME CfInv, AddressesKnown, Forwarded, [Next]_vars
  PROVE  /\ agent'.pc \in {"resolve", "new", "running", "serving"} =>
              Addressed(agent'.cfg.endpoints)
         /\ Forwarded'
<1> USE DEF AgentFrom, Fail, Down, AddressesKnown, Forwarded
<1>1. agent = [pc |-> agent.pc, cfg |-> agent.cfg, read |-> agent.read, upstreams |-> agent.upstreams]
  BY DEF CfInv, ReadersKnow
<1>2. CASE UNCHANGED agent
  BY <1>2
<1>3. ASSUME NEW c \in Commands, Written(c), agent' = [agent EXCEPT !.pc = "load"]
      PROVE  agent'.pc = "load"
  BY <1>1, <1>3
<1>4. ASSUME NEW c \in Commands, Command(c), ~ UNCHANGED agent PROVE agent'.pc = "load"
  BY <1>1, <1>3, <1>4
     DEF Command, Running, GenConfig, ResolveAuthtoken, EditConfig, Editor, PromptRetry, Confirm,
         TestConnect, Truncate, Written, CutShort
<1>5. CASE Boot \/ Exit
  BY <1>5 DEF Boot, Exit
<1>6. CASE EnsureConfig \/ Reconnect
  BY <1>1, <1>6 DEF EnsureConfig, Reconnect
<1>7. CASE Load \/ Resolve \/ New
  BY <1>1, <1>7 DEF Load, Resolve, New
<1>8. CASE Attempt
  BY <1>1, <1>8 DEF Attempt
<1>9. CASE Replace \/ UNCHANGED vars
  BY <1>2, <1>9 DEF Replace, vars
<1> QED
  BY <1>2, <1>4, <1>5, <1>6, <1>7, <1>8, <1>9 DEF Next, Starting

(* What normalizeUpstreamAddr makes of an address: the SDK dials what it names, and *)
(* reads it as HTTP only where the address or the endpoint is HTTP.                 *)
LEMMA NormalizedAsMeant ==
  ASSUME NEW addr, IsAddress(addr), NEW url
  PROVE  LET to == normalizeUpstreamAddr(addr, url) IN
         /\ Names(addr, Dials(to))
         /\ Raw(to) <=> IF addr.scheme # "" THEN Raw(addr) ELSE url \in {"tcp", "tls"}
<1> USE DEF IsAddress, Address, NoPort
<1>1. CASE addr.scheme # ""
  BY <1>1 DEF normalizeUpstreamAddr, Dials, Names, Raw
<1>2. CASE addr.scheme = ""
  BY <1>2 DEF normalizeUpstreamAddr, Dials, Names, Raw
<1> QED
  BY <1>1, <1>2

(* Every upstream that is forwarded reaches the host and port that the             *)
(* configuration names, and the local machine if it names no host, as HTTP or as    *)
(* raw bytes as it means, whatever address Validate lets through.                   *)
THEOREM Upstreams == Spec => []UpstreamsAsMeant
<1> DEFINE UpInv == CfInv /\ AddressesKnown /\ Forwarded
<1>1. Init => UpInv
  <2>1. Init => AddressesKnown /\ Forwarded
    BY AddressAssumption, NoEndpointsAddressed
       DEF Init, NoFile, Contents, Down, AddressesKnown, Forwarded, Configs
  <2> QED
    BY <2>1, CfInitInv
<1>2. UpInv /\ [Next]_vars => UpInv'
  BY CfStepInv, FileAddressed, AgentAddressed DEF AddressesKnown
<1>3. UpInv => UpstreamsAsMeant
  <2> SUFFICES ASSUME UpInv, agent.pc = "serving", NEW i \in DOMAIN agent.cfg.endpoints
      PROVE  /\ Names(agent.cfg.endpoints[i].upstream.addr, Dials(Build(agent.cfg.endpoints[i])))
             /\ Raw(Build(agent.cfg.endpoints[i])) <=>
                  IF agent.cfg.endpoints[i].upstream.addr.scheme # ""
                  THEN Raw(agent.cfg.endpoints[i].upstream.addr)
                  ELSE agent.cfg.endpoints[i].url \in {"tcp", "tls"}
    BY DEF UpstreamsAsMeant, Forwarded
  <2> QED
    BY NormalizedAsMeant DEF AddressesKnown, Addressed, Build
<1> QED
  BY <1>1, <1>2, <1>3, PTL DEF Spec

=============================================================================
