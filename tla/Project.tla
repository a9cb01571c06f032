------------------------------- MODULE Project -------------------------------
(***************************************************************************)
(* src/cli.ts, src/project.ts, src/project-config.ts: one command of the   *)
(* mirrorecma program, from its arguments to its exit code.  A command is  *)
(* a plan: the steps the functions it calls take, in order.  Every step    *)
(* looks at files on a disk that somebody else may edit meanwhile; some    *)
(* run a tool, import a module or run the suite.                           *)
(***************************************************************************)
EXTENDS FrameworkCatalog

CONSTANTS
    Absent,
    Traces,        \* the traces of the project's corpus
    Selections,    \* the catalogs and installations a caller may present
    MaxEdits       \* bound: files edited while the command runs

Commands == {"init", "doctor", "generate", "check", "replay", "reproduce"}

(* What a ProjectError is called, "usage" and the codes of a refused        *)
(* framework included                                                       *)
ErrorCodes ==
    FrameworkRefusalCode \cup
    {"usage", "configuration_invalid", "configuration_unavailable", "schema_unsupported",
     "corpus_invalid", "remote_path_required", "catalog_selection_required",
     "tool_missing", "tool_identity_mismatch", "tool_timed_out", "tool_output_limit",
     "package_missing", "identity_unavailable", "framework_binding_required",
     "framework_binding_invalid",
     "tool_execution_failed", "cancelled", "bundle_stale", "model_module_stale",
     "model_export_missing", "identity_mismatch", "compatibility_refused",
     "project_operation_failed"}

(* How a command ends: its exit code, what projectFailure makes of an error *)
(* and the error's code, or the command that returned                       *)
Exits ==
    [code : 0 .. 2, outcome : {"returned", "failed", "cancelled", "timedOut"},
     why : ErrorCodes \cup Commands]

ASSUME ProjectAssumption ==
    /\ Traces \in Nat \ {0} /\ MaxEdits \in Nat
    /\ Selections \subseteq FrameworkPreflightInput
    /\ Absent \notin Exits

VARIABLES
    options,     \* the command line and what the project file declares
    plan,        \* the steps still to take
    disk,        \* whether a file has the bytes its pin, lock or bundle names
    sight,       \* the files seen with those bytes since the last subprocess
    child,       \* the tool that is running
    toolLog,     \* how each tool of this command ended
    ran,         \* what was executed, and what was known of it then
    bound,       \* the installed framework was matched with its admission
    server,      \* the suite's own server process
    suite,       \* the suite's result
    outputs,     \* the files this command has written
    failedCheck, \* doctor has reported a failed check
    aborted,     \* SIGINT or SIGTERM was received
    edits,
    exit         \* the exit code and, for 2, what projectFailure says

running == <<child, toolLog, ran, server, suite>>
projectVars == <<options, plan, disk, sight, running, bound, outputs, failedCheck,
                aborted, edits, exit>>

Tools == {"compiler", "server"}
Executables == Tools \cup {"module", "adapter"}
Files == Executables \cup {"bundle", "installed"}

(* framework |-> the selection given with --framework-input, local |-> the  *)
(* mirror is a local server, pinned |-> the model module has a declared     *)
(* digest, override |-> --compiler and --server are given.  required and    *)
(* loaded |-> the project file demands admission (frameworkAdmission) as it *)
(* is read first, and as it is loaded: it is read twice, and may have been  *)
(* edited in between.                                                      *)
Options ==
    [command : Commands, framework : Selections \cup {Absent}, required : BOOLEAN,
     loaded : BOOLEAN, local : BOOLEAN, pinned : BOOLEAN, override : BOOLEAN]

Command == options.command
Admission == options.framework # Absent
Reproducing == Command = "reproduce"

-----------------------------------------------------------------------------
(* The plans *)

initProject == << "init", "init", "init" >>

(* What every command on a loaded project begins with *)
Prepare == << "require", "preflight", "load", "bind" >>

CompilerChecks == << "check-bundle" >> \o [t \in 1 .. Traces |-> "preflight-trace"]

(* again |-> called with the project that is already loaded *)
checkProject(again) ==
    (IF again THEN << "require-loaded", "preflight", "reload", "bind" >> ELSE Prepare)
    \o CompilerChecks \o << "verify", "bind" >>

generateProject == Prepare \o << "contract", "resolve", "bundle" >> \o checkProject(TRUE)

executePreparedProject ==
    << "server-look", "module-look", "import-model", "spawn-server",
       "import-adapter", "suite-ends" >>

replayProject(framework) ==
    Prepare \o (IF framework = Absent THEN checkProject(TRUE) ELSE << "verify" >>)
    \o << "bind" >> \o executePreparedProject \o << "write-result" >>

reproduceProjectWithCatalog ==
    << "arguments", "preflight" >> \o Prepare
    \o << "verify", "identify", "reproduction-preflight", "preflight", "bind" >>
    \o executePreparedProject \o << "compare", "write-result", "write-cleanup" >>

doctorProject == << "require", "preflight", "load", "bind", "verify" >>

Plan(command, framework) ==
    << "flags" >> \o
    CASE command = "init" -> initProject
      [] command = "doctor" -> doctorProject
      [] command = "generate" -> generateProject
      [] command = "check" -> checkProject(FALSE)
      [] command = "replay" -> replayProject(framework)
      [] command = "reproduce" -> reproduceProjectWithCatalog

ProjectInit ==
    /\ options \in Options
    /\ plan = Plan(Command, options.framework)
    /\ disk = [f \in Files |-> "pinned"] /\ sight = {} /\ edits = 0
    /\ child = Absent /\ toolLog = <<>> /\ ran = {} /\ server = "none" /\ suite = Absent
    /\ bound = FALSE /\ outputs = {} /\ failedCheck = FALSE /\ aborted = FALSE
    /\ exit = Absent

-----------------------------------------------------------------------------
At(step) == exit = Absent /\ child = Absent /\ plan # <<>> /\ Head(plan) = step

Advance == plan' = Tail(plan) /\ UNCHANGED <<exit, failedCheck>>

(* projectFailure *)
Outcome(code) ==
    CASE code = "cancelled" -> "cancelled"
      [] code = "tool_timed_out" -> "timedOut"
      [] OTHER -> "failed"

Throw(code) ==
    /\ exit' = [code |-> 2, outcome |-> Outcome(code), why |-> code]
    /\ plan' = <<>> /\ UNCHANGED failedCheck

(* doctor turns what would be thrown into a failed check, and stops there *)
(* or goes on.                                                             *)
Refuse(code, goesOn) ==
    IF Command = "doctor"
    THEN /\ failedCheck' = TRUE /\ UNCHANGED exit
         /\ plan' = IF goesOn THEN Tail(plan) ELSE <<>>
    ELSE Throw(code)

(* fileSha256 of some files: they are all as they should be *)
Looks(files) == \A f \in files : disk[f] = "pinned"
Sees(files) == sight' = sight \cup {f \in files \cap Executables : disk[f] = "pinned"}

Quiet == UNCHANGED <<options, disk, running, outputs, aborted, edits>>

(* What reading a file may be refused with: not a regular file, too large,  *)
(* changed while it was read, or not strict JSON.                           *)
readBoundedRegular == {"configuration_invalid", "configuration_unavailable"}
readStrictJson == readBoundedRegular \cup {"configuration_invalid"}
frameworkInput == {"configuration_invalid"}

(* The command line, and the framework input it names *)
ParseFlags ==
    /\ At("flags")
    /\ \/ Advance \/ Throw("usage")
       \/ Admission /\ \E code \in readStrictJson \cup frameworkInput : Throw(code)
    /\ Quiet /\ UNCHANGED <<sight, bound>>

InitFile ==
    /\ At("init")
    /\ Advance \/ Throw("project_operation_failed")
    /\ Quiet /\ UNCHANGED <<sight, bound>>

(* The output directory: there, private, and the user's own *)
qualificationOutputRoot == {"configuration_invalid"}

(* The flags and files the reproduce command needs, the bundle, the catalog *)
(* selection it names and the evidence envelope                            *)
CheckArguments ==
    /\ At("arguments")
    /\ IF ~Admission THEN Throw("usage")
       ELSE \/ Advance \/ Throw("catalog_selection_mismatch")
            \/ \E code \in qualificationOutputRoot \cup readBoundedRegular : Throw(code)
    /\ Quiet /\ UNCHANGED <<sight, bound>>

(* The demand of the file, or of the declaration that is already loaded *)
requireDeclaredFramework ==
    \E step \in {"require", "require-loaded"} :
        /\ At(step)
        /\ LET demanded == IF step = "require" THEN options.required ELSE options.loaded
           IN  IF demanded /\ ~Admission THEN Refuse("catalog_selection_required", FALSE)
               ELSE Advance
        /\ Quiet /\ UNCHANGED <<sight, bound>>

preflightCommandFramework ==
    /\ At("preflight")
    /\ LET refusals == IF Admission THEN preflightFrameworkSelection(options.framework) ELSE {}
       IN  IF refusals = {} THEN Advance ELSE \E code \in refusals : Refuse(code, FALSE)
    /\ Quiet /\ UNCHANGED <<sight, bound>>

(* loadProject: the tools this command requires, and those overridden, are  *)
(* hashed against the lock; doctor looks at all that the lock names.        *)
Required ==
    (IF Reproducing THEN {} ELSE {"compiler"})
    \cup (IF options.local /\ Command \in {"replay", "reproduce"} THEN {"server"} ELSE {})
LoadedTools == IF options.override \/ Command = "doctor" THEN Tools ELSE Required

(* What the declaration and the lock may be refused for *)
Unreadable ==
    {"configuration_invalid", "configuration_unavailable", "schema_unsupported",
     "capability_unsupported", "corpus_invalid", "remote_path_required"}

(* What the tools and packages may be refused for, besides a tool whose     *)
(* bytes are others: it is not locked, not there or lacks a capability, and *)
(* a package's manifest is not there or not the one that is pinned.         *)
Unusable ==
    {"tool_missing", "identity_unavailable", "capability_unsupported",
     "package_missing", "package_identity_mismatch"}

loadProject ==
    /\ At("load")
    /\ \/ \E code \in Unreadable : Refuse(code, FALSE) /\ UNCHANGED sight
       \/ Sees(LoadedTools)
          /\ \/ \E code \in Unusable : Refuse(code, TRUE)
             \/ IF Looks(LoadedTools) THEN Advance ELSE Refuse("tool_identity_mismatch", TRUE)
    /\ Quiet /\ UNCHANGED bound

(* asProject of a loaded project: loaded again only if tools are overridden *)
asProject ==
    /\ At("reload")
    /\ IF options.override
       THEN Sees(LoadedTools)
            /\ \/ \E code \in Unreadable \cup Unusable : Throw(code)
               \/ IF Looks(LoadedTools) THEN Advance ELSE Throw("tool_identity_mismatch")
       ELSE Advance /\ UNCHANGED sight
    /\ Quiet /\ UNCHANGED bound

(* What the caller's account of the installation may be refused for, even   *)
(* if the files it names are as they should be                              *)
Unbound ==
    {"framework_binding_required", "framework_binding_invalid", "identity_unavailable",
     "executable_identity_mismatch", "package_identity_mismatch", "runtime_identity_mismatch"}

bindProjectFramework ==
    /\ At("bind")
    /\ LET files == LoadedTools \cup {"installed"}
       IN  IF ~Admission THEN Advance /\ UNCHANGED <<sight, bound>>
           ELSE /\ Sees(files)
                /\ \/ \E code \in Unbound : Refuse(code, FALSE) /\ UNCHANGED bound
                   \/ Looks(files) /\ Advance /\ bound' = TRUE
    /\ Quiet

decodeContract ==
    /\ At("contract")
    /\ Advance \/ Throw("configuration_invalid")
    /\ Quiet /\ UNCHANGED <<sight, bound>>

(* verifyProjectBundle: hashes, lock and corpus, importing nothing *)
verifyProjectBundle ==
    /\ At("verify")
    /\ IF disk["bundle"] = "pinned" THEN Advance ELSE Refuse("bundle_stale", TRUE)
    /\ Quiet /\ UNCHANGED <<sight, bound>>

-----------------------------------------------------------------------------
(* tool(): look, spawn, and settle only when the child has closed *)

ToolSteps == {"resolve", "bundle", "check-bundle", "preflight-trace"}

Executed(what) ==
    ran' = ran \cup {[what |-> what, seen |-> what \in sight, bound |-> bound]}

(* Variant with a bug: the tool is trusted since the project was loaded. *)
LookAtTool_Trusting ==
    /\ exit = Absent /\ child = Absent /\ plan # <<>> /\ Head(plan) \in ToolSteps
    /\ IF aborted THEN Throw("cancelled") /\ UNCHANGED child
       ELSE /\ child' = [step |-> Head(plan), is |-> "checked", code |-> 0,
                         expired |-> FALSE, overflow |-> FALSE, error |-> FALSE]
            /\ UNCHANGED <<plan, exit, failedCheck>>
    /\ UNCHANGED <<options, disk, sight, toolLog, ran, server, suite, bound, outputs, aborted, edits>>

LookAtTool ==
    /\ exit = Absent /\ child = Absent /\ plan # <<>> /\ Head(plan) \in ToolSteps
    /\ Sees({"compiler"})
    /\ CASE ~Looks({"compiler"}) -> Throw("tool_identity_mismatch") /\ UNCHANGED child
         [] Looks({"compiler"}) /\ aborted -> Throw("cancelled") /\ UNCHANGED child
         [] OTHER ->
              /\ child' = [step |-> Head(plan), is |-> "checked", code |-> 0,
                           expired |-> FALSE, overflow |-> FALSE, error |-> FALSE]
              /\ UNCHANGED <<plan, exit, failedCheck>>
    /\ UNCHANGED <<options, disk, toolLog, ran, server, suite, bound, outputs, aborted, edits>>

ChildIs(state) == child # Absent /\ child.is = state
ChildOnly ==
    UNCHANGED <<options, plan, toolLog, server, suite, bound, outputs, failedCheck,
                aborted, edits, exit>>

(* From here on nothing is known of any file until it is looked at again. *)
Spawn ==
    /\ ChildIs("checked")
    /\ Executed("compiler") /\ sight' = {}
    /\ child' \in {[child EXCEPT !.is = "alive"],
                   [child EXCEPT !.is = "dead", !.error = TRUE]}
    /\ ChildOnly /\ UNCHANGED disk

(* EXTERNAL: the compiler.  resolve rewrites the lock, so that the bundle   *)
(* is stale until bundle has rewritten that too; check-bundle succeeds only *)
(* on a current bundle.                                                     *)
ChildExits ==
    /\ ChildIs("alive")
    /\ \E code \in {0, 1} :
          /\ child' = [child EXCEPT !.is = "dead", !.code = code]
          /\ code = 0 /\ child.step = "check-bundle" => disk["bundle"] = "pinned"
          /\ \E bundle \in (CASE child.step = "resolve" /\ code = 0 -> {"other"}
                              [] child.step = "bundle" /\ code = 0 -> {"pinned"}
                              [] child.step \in {"resolve", "bundle"} /\ code # 0 -> {"other", disk["bundle"]}
                              [] OTHER -> {disk["bundle"]}) :
                disk' = [disk EXCEPT !["bundle"] = bundle]
    /\ ChildOnly /\ UNCHANGED <<sight, ran>>

(* stop(): the timer, more than a megabyte of output, or the signal *)
Kill ==
    /\ ChildIs("alive")
    /\ \/ child' = [child EXCEPT !.is = "dead", !.code = 1, !.expired = TRUE]
       \/ child' = [child EXCEPT !.is = "dead", !.code = 1, !.overflow = TRUE]
       \/ aborted /\ child' = [child EXCEPT !.is = "dead", !.code = 1]
    /\ \E bundle \in {"other", disk["bundle"]} :
          disk' = [disk EXCEPT !["bundle"] =
                      IF child.step \in {"resolve", "bundle"} THEN bundle ELSE @]
    /\ ChildOnly /\ UNCHANGED <<sight, ran>>

(* The timer or the output limit may be passed as the child exits anyway. *)
LateTrouble ==
    /\ ChildIs("dead") /\ ~child.error /\ ~child.expired /\ ~child.overflow
    /\ child' \in {[child EXCEPT !.expired = TRUE], [child EXCEPT !.overflow = TRUE]}
    /\ ChildOnly /\ UNCHANGED <<sight, ran, disk>>

(* Variant with a bug: whatever stopped the child is a cancellation. *)
Settlement_Stopped ==
    IF aborted \/ child.expired \/ child.overflow THEN "cancelled"
    ELSE IF ~child.error /\ child.code = 0 THEN "ok" ELSE "tool_execution_failed"

(* The child has closed: the promise settles. *)
Settlement ==
    CASE aborted -> "cancelled"
      [] ~aborted /\ child.error -> "tool_execution_failed"
      [] ~aborted /\ ~child.error /\ child.code = 0 /\ ~child.overflow /\ ~child.expired -> "ok"
      [] OTHER -> IF child.expired THEN "tool_timed_out"
                  ELSE IF child.overflow THEN "tool_output_limit"
                  ELSE "tool_execution_failed"

Close ==
    /\ ChildIs("dead")
    /\ child' = Absent /\ toolLog' = Append(toolLog, child)
    /\ IF Settlement = "ok" THEN Advance ELSE Throw(Settlement)
    /\ UNCHANGED <<options, disk, sight, ran, server, suite, bound, outputs, aborted, edits>>

-----------------------------------------------------------------------------
(* executePreparedProject and the suite it runs *)

LookAtServer ==
    /\ At("server-look")
    /\ IF "server" \in LoadedTools
       THEN Sees({"server"})
            /\ IF Looks({"server"}) THEN Advance ELSE Throw("tool_identity_mismatch")
       ELSE Advance /\ UNCHANGED sight
    /\ Quiet /\ UNCHANGED bound

LookAtModule ==
    /\ At("module-look")
    /\ Sees({"module"})
    /\ IF (Reproducing \/ options.pinned) /\ ~Looks({"module"})
       THEN Throw("model_module_stale") ELSE Advance
    /\ Quiet /\ UNCHANGED bound

(* The module's code runs even when the export it should have is missing. *)
ImportModel ==
    /\ At("import-model")
    /\ Executed("module")
    /\ Advance \/ Throw("model_export_missing")
    /\ UNCHANGED <<options, disk, sight, child, toolLog, server, suite, bound, outputs, aborted, edits>>

(* runSuite never throws: what goes wrong in it is its result.  "failed"    *)
(* stands for every failure but a mismatch.                                 *)
SuiteResult(outcome, cleanup) == [outcome |-> outcome, cleanup |-> cleanup]

SuiteStops(outcomes) ==
    /\ \E outcome \in outcomes, cleanup \in {"succeeded", "unconfirmed"} :
          /\ outcome = "passed" => cleanup = "succeeded"
          /\ suite' = SuiteResult(outcome, cleanup)
          /\ server' \in (IF server = "alive"
                          THEN (IF cleanup = "succeeded" THEN {"closed"} ELSE {"alive", "closed"})
                          ELSE {server})
    /\ UNCHANGED <<exit, failedCheck>>

Stopping == {"failed"} \cup (IF aborted THEN {"cancelled"} ELSE {})

SpawnServer ==
    /\ At("spawn-server")
    /\ \/ /\ Advance /\ UNCHANGED suite
          /\ IF options.local THEN Executed("server") /\ server' = "alive"
             ELSE UNCHANGED <<ran, server>>
       \/ /\ SuiteStops(Stopping) /\ UNCHANGED ran
          /\ plan' = SubSeq(plan, 4, Len(plan))
    /\ UNCHANGED <<options, disk, sight, child, toolLog, bound, outputs, aborted, edits>>

(* The factory imports the adapter only inside the suite; for a reproduction*)
(* it compares the bytes first.                                             *)
ImportAdapter ==
    /\ At("import-adapter")
    /\ Sees(IF Reproducing THEN {"adapter"} ELSE {})
    /\ \/ /\ Reproducing => Looks({"adapter"})
          /\ ran' = ran \cup {[what |-> "adapter", seen |-> "adapter" \in sight', bound |-> bound]}
          /\ Advance /\ UNCHANGED <<suite, server>>
       \/ /\ SuiteStops(Stopping) /\ UNCHANGED ran
          /\ plan' = SubSeq(plan, 3, Len(plan))
    /\ UNCHANGED <<options, disk, child, toolLog, bound, outputs, aborted, edits>>

SuiteEnds ==
    /\ At("suite-ends")
    /\ SuiteStops(Stopping \cup {"passed", "mismatch"})
    /\ plan' = Tail(plan)
    /\ UNCHANGED <<options, disk, sight, child, toolLog, ran, bound, outputs, aborted, edits>>

-----------------------------------------------------------------------------
(* The reproduce command's own steps.  The identities it expects are those  *)
(* of the files as they are now; the bundle must name the same ones.        *)
identify ==
    /\ At("identify")
    /\ Sees({"module", "adapter"})
    /\ IF Looks({"module", "adapter"}) THEN Advance ELSE Throw("identity_mismatch")
    /\ Quiet /\ UNCHANGED bound

(* replayReproduction's preflight (Reproduction) *)
ReproductionPreflight ==
    /\ At("reproduction-preflight")
    /\ Advance \/ Throw("compatibility_refused")
    /\ Quiet /\ UNCHANGED <<sight, bound>>

(* The suite's result has the bundle's signature, or not; outputs records   *)
(* which.                                                                   *)
Compare ==
    /\ At("compare")
    /\ \/ suite.outcome # "passed" /\ Advance /\ outputs' = outputs \cup {"reproduced"}
       \/ Advance /\ UNCHANGED outputs
       \/ Throw("project_operation_failed") /\ UNCHANGED outputs
    /\ UNCHANGED <<options, disk, sight, running, bound, aborted, edits>>

(* writeExclusiveJson: fails if the file exists; --result-file is optional. *)
WriteOutput ==
    /\ exit = Absent /\ child = Absent /\ plan # <<>>
    /\ Head(plan) \in {"write-result", "write-cleanup"}
    /\ \/ Advance /\ outputs' = outputs \cup {Head(plan)}
       \/ Command = "replay" /\ Advance /\ UNCHANGED outputs
       \/ Throw("project_operation_failed") /\ UNCHANGED outputs
    /\ UNCHANGED <<options, disk, sight, running, bound, aborted, edits>>

suiteExitCode(r) ==
    CASE r.outcome = "passed" -> 0
      [] r.outcome = "mismatch" /\ r.cleanup = "succeeded" -> 1
      [] OTHER -> 2

ExitCode ==
    CASE Command = "doctor" -> IF failedCheck THEN 2 ELSE 0
      [] Command = "replay" -> suiteExitCode(suite)
      [] Command = "reproduce" -> IF "reproduced" \in outputs THEN 0 ELSE 1
      [] OTHER -> 0

Return ==
    /\ exit = Absent /\ child = Absent /\ plan = <<>>
    /\ exit' = [code |-> ExitCode, outcome |-> "returned", why |-> Command]
    /\ UNCHANGED <<options, plan, disk, sight, running, bound, outputs, failedCheck, aborted, edits>>

-----------------------------------------------------------------------------
(* EXTERNAL: the operator interrupts, somebody edits a file *)

Interrupt ==
    /\ exit = Absent /\ ~aborted /\ Command # "init"
    /\ aborted' = TRUE
    /\ UNCHANGED <<options, plan, disk, sight, running, bound, outputs, failedCheck, edits, exit>>

EditFile ==
    /\ exit = Absent /\ edits < MaxEdits
    /\ \E f \in Files :
          disk' = [disk EXCEPT ![f] = IF @ = "pinned" THEN "other" ELSE "pinned"]
    /\ edits' = edits + 1
    /\ UNCHANGED <<options, plan, sight, running, bound, outputs, failedCheck, aborted, exit>>

ProjectNext ==
    \/ ParseFlags \/ InitFile \/ CheckArguments \/ requireDeclaredFramework \/ preflightCommandFramework
    \/ loadProject \/ asProject \/ bindProjectFramework \/ decodeContract \/ verifyProjectBundle
    \/ LookAtTool \/ Spawn \/ ChildExits \/ Kill \/ LateTrouble \/ Close
    \/ LookAtServer \/ LookAtModule \/ ImportModel \/ SpawnServer \/ ImportAdapter \/ SuiteEnds
    \/ identify \/ ReproductionPreflight \/ Compare \/ WriteOutput \/ Return
    \/ Interrupt \/ EditFile

ProjectSpec == ProjectInit /\ [][ProjectNext]_projectVars

-----------------------------------------------------------------------------
PlanSteps ==
    {"flags", "init", "arguments", "require", "require-loaded", "preflight", "load", "reload", "bind", "contract",
     "verify", "server-look", "module-look", "import-model", "spawn-server", "import-adapter",
     "suite-ends", "identify", "reproduction-preflight", "compare", "write-result",
     "write-cleanup"} \cup ToolSteps

Children ==
    [step : ToolSteps, is : {"checked", "alive", "dead"}, code : {0, 1}, expired : BOOLEAN,
     overflow : BOOLEAN, error : BOOLEAN]
ClosedChildren == {t \in Children : t.is = "dead"}

(* The variables keep their types. *)
ProjectTypeOK ==
    /\ options \in Options /\ plan \in Seq(PlanSteps)
    /\ disk \in [Files -> {"pinned", "other"}] /\ sight \subseteq Executables
    /\ child \in Children \cup {Absent} /\ toolLog \in Seq(ClosedChildren)
    /\ ran \subseteq [what : Executables, seen : BOOLEAN, bound : BOOLEAN]
    /\ bound \in BOOLEAN /\ failedCheck \in BOOLEAN /\ aborted \in BOOLEAN
    /\ server \in {"none", "alive", "closed"}
    /\ outputs \subseteq {"reproduced", "write-result", "write-cleanup"}
    /\ edits \in 0 .. MaxEdits /\ exit \in Exits \cup {Absent}

(* The executables whose bytes this command promises to have checked *)
Promised(what) ==
    \/ what \in Tools
    \/ what = "module" /\ (Reproducing \/ options.pinned)
    \/ what = "adapter" /\ Reproducing

(* Whatever a command executes, it looked at it after the last subprocess   *)
(* ended and found the bytes that were pinned (tool() and                   *)
(* executePreparedProject hash again because an earlier tool may have       *)
(* changed them); and a project file that demands admission when it is      *)
(* first read, one that does when a replay loads it, or a caller that asks  *)
(* for admission, has nothing executed before the installed framework was   *)
(* matched with a catalog entry that is supported, or is a candidate and    *)
(* either approved or only being qualified.                                 *)
RunsWhatWasChecked ==
    \A r \in ran :
        /\ Promised(r.what) => r.seen
        /\ options.required \/ (options.loaded /\ Command = "replay") => Admission
        /\ Admission =>
              /\ r.bound
              /\ LET s == options.framework
                 IN  /\ s.fault \in {"none", "observation"}
                     /\ \/ s.declaredState = "supported"
                        \/ /\ s.declaredState = "candidate"
                           /\ s.approval = "binding" \/ s.admission = "qualification-candidate"
                     /\ (s.fault = "observation" /\ s.admission = "support-required")
                           => s.approval = "binding"

EndedWell(t) == t.code = 0 /\ ~t.expired /\ ~t.overflow /\ ~t.error
Steps(log) == [i \in DOMAIN log |-> log[i].step]

(* What the exit code of a command says has happened: 0 means that every    *)
(* tool the command runs, and no other, was run in order and ended well,    *)
(* that a replayed suite passed and that a reproduction reproduced and left *)
(* both its files; 0 or 1 of a replay means that its server is gone; and no *)
(* exit leaves a tool running, is called cancelled without a signal, or     *)
(* timed out without a tool having run over its time.                       *)
ExitIsEarned ==
    exit # Absent =>
        /\ child = Absent
        /\ exit.outcome = "cancelled" => aborted
        /\ exit.outcome = "timedOut" => \E i \in DOMAIN toolLog : toolLog[i].expired
        /\ exit.code = 0 =>
              /\ \A i \in DOMAIN toolLog : EndedWell(toolLog[i])
              /\ Steps(toolLog) =
                    (IF Command = "generate" THEN << "resolve", "bundle" >> ELSE <<>>)
                    \o (IF Command \in {"generate", "check"} \/ (Command = "replay" /\ ~Admission)
                        THEN CompilerChecks ELSE <<>>)
              /\ Command = "replay" => suite.outcome = "passed"
              /\ Reproducing => /\ {"write-result", "write-cleanup"} \subseteq outputs
                                /\ suite.outcome # "passed"
        /\ (Command = "replay" /\ exit.code \in {0, 1}) => server # "alive"
=============================================================================
