----------------------------- MODULE ToolEngine -----------------------------
(***************************************************************************)
(* What a call of ToolExecutionEngine.execute() may come to                *)
(* (tools/engine.py, tools/permissions.py, tools/builtins/).               *)
(*                                                                         *)
(* A call is the tool's name and the set of the arguments it was given     *)
(* that are not empty; "listed" among them says that the base command of a *)
(* shell command is on the whitelist.  An office is how the engine was     *)
(* built: the user's consent ("auto", "asked" or "nobody"), and the        *)
(* libraries that are installed.                                           *)
(***************************************************************************)
EXTENDS FiniteSets

Call(name, args) == [name |-> name, args |-> args]

\* ToolSpec and the guards of the tool's own execute(): it refuses a call without all
\* of `also`, and without its library.
Builtin(level, required, also, library, verdicts) ==
    [level |-> level, required |-> required, also |-> also, library |-> library,
     verdicts |-> verdicts]

Either == {TRUE, FALSE}

Base64       == Builtin("safe", {"operation", "data"}, {}, {}, Either)
Browser      == Builtin("dangerous", {"operation"}, {"where"}, {"webdriver"}, Either)
Calculator   == Builtin("safe", {"expression"}, {}, {}, Either)
Clipboard    == Builtin("dangerous", {"operation"}, {}, {"pyperclip"}, Either)
DateTime     == Builtin("safe", {}, {}, {}, Either)
FileSystem   == Builtin("dangerous", {"operation", "path"}, {}, {}, Either)
Hash         == Builtin("safe", {"algorithm", "data"}, {}, {}, Either)
Json         == Builtin("safe", {"operation", "data"}, {}, {}, Either)
Notification == Builtin("safe", {"title", "message"}, {}, {"notifier"}, Either)
Screenshot   == Builtin("dangerous", {}, {}, {"PIL"}, Either)
Shell        == Builtin("dangerous", {"command"}, {"listed"}, {}, Either)
SystemInfo   == Builtin("safe", {}, {}, {}, {TRUE})
Text         == Builtin("safe", {"operation", "text"}, {}, {}, Either)
Uuid         == Builtin("safe", {}, {}, {}, Either)

\* What register_all_builtins() puts in the registry.
Registry ==
    [base64 |-> Base64, browser |-> Browser, calculator |-> Calculator,
     clipboard |-> Clipboard, datetime |-> DateTime, file_system |-> FileSystem,
     hash |-> Hash, json |-> Json, notification |-> Notification,
     screenshot |-> Screenshot, shell |-> Shell, system_info |-> SystemInfo,
     text |-> Text, uuid |-> Uuid]

Registered(call) == call.name \in DOMAIN Registry

\* confirm(): "asked" is the answer of whoever the callback asks.
Confirmed(tool, office) ==
    CASE tool.level = "safe" \/ office.consent = "auto" -> {TRUE}
      [] office.consent = "nobody" -> {FALSE}
      [] OTHER -> {TRUE, FALSE}

ValidArgs(tool, call) == tool.required \subseteq call.args

\* The tool's execute() under wait_for(): a timeout and an exception are failures too.
Ran(tool, call, office) ==
    IF ~(tool.also \subseteq call.args) \/ ~(tool.library \subseteq office.libraries)
      THEN {FALSE}
      ELSE tool.verdicts \cup {FALSE}

\* The success of the ToolResult.
Execute(call, office) ==
    IF ~Registered(call) THEN {FALSE}
    ELSE LET tool == Registry[call.name] IN
         UNION {IF yes /\ ValidArgs(tool, call) THEN Ran(tool, call, office) ELSE {FALSE} :
                  yes \in Confirmed(tool, office)}
=============================================================================
