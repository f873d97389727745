---------------------------- MODULE Specialists -----------------------------
(***************************************************************************)
(* The handlers of the agents (agents/*_agent.py and agents/planner.py),   *)
(* one definition per task type: what a task must bring, and the services  *)
(* the handler calls.                                                      *)
(***************************************************************************)
EXTENDS Handlers, TLC

(***************************************************************************)
(* veronica, who talks to the model in a ChatSession of her own.           *)
(***************************************************************************)
\* "block": a code block that is not closed.
CodeGenerate ==
    Handler({{"specification"}, {"llm"}},
        <<Needs("veronica"), Needs("block"), If("output_path", Tries("file")), Tries("memory")>>)

\* _llm_analysis()
Analysis == <<Needs("veronica")>>

CodeReview   == Handler({{"code"}, {"llm"}}, Analysis)
CodeAnalyze  == Handler({{"code"}, {"llm"}}, Analysis)
CodeRefactor == Handler({{"code"}, {"llm"}}, Analysis \o <<If("output_path", Tries("file"))>>)

(***************************************************************************)
(* friday                                                                  *)
(***************************************************************************)
Research    == Handler({{"topic", "goal"}}, <<Tries("memory"), Tries("model"), Tries("memory")>>)
Retrieve    == Handler({{"query"}, {"memory"}}, <<Needs("memory")>>)
Synthesize  == Handler({{"pieces", "information"}}, <<Tries("model"), Tries("memory")>>)

(***************************************************************************)
(* vision, whose answers without a model count as successes.               *)
(***************************************************************************)
VisionAnalyze    == Handler({{"path"}}, <<Needs("vision")>>)
VisionOcr        == Handler({{"path"}}, <<Needs("vision")>>)
VisionDescribe   == Handler({{"path"}}, <<Needs("vision")>>)
VisionScreenshot == Refuses

(***************************************************************************)
(* ultron and athena                                                       *)
(***************************************************************************)
\* "place": the target exists; files that cannot be read are passed over.
SecurityScan    == Handler({{"target"}, {"pattern"}}, <<Needs("place"), Tries("disk")>>)
SystemMonitor   == Handler({{"engine"}}, Times(3, Tries("metric")))
SecurityAnalyze == Pure

StrategyPlan   == Pure
TaskDecompose  == Pure
WorkflowDesign == Pure

(***************************************************************************)
(* stark, steve and jerome, who run commands through the tool engine.      *)
(***************************************************************************)
BuildCompile == Handler({{"command"}, {"engine"}}, <<Decides("shell")>>)
BuildDeploy  == Handler({{"command"}, {"engine"}}, <<Decides("shell")>>)
ProjectSetup == Handler({{"project_name"}, {"engine"}}, Times(8, Decides("scaffold")))

TestRun        == Handler({{"engine"}}, <<Decides("pytest")>>)
CoverageReport == Handler({{"engine"}}, <<Decides("pytest")>>)
TestCreate     == Pure
TestAnalyze    == Pure

RunShell        == <<Decides("shell")>>
DevopsConfigure == Handler({{"command"}, {"engine"}}, RunShell)
DevopsDeploy    == Handler({{"command"}, {"engine"}}, RunShell)
SystemAdmin     == Handler({{"command"}, {"engine"}}, RunShell)
DevopsMonitor   == Handler({{"command"}, {"engine"}}, RunShell)

(***************************************************************************)
(* oracle, who asks the memory service for a store() it does not have.     *)
(***************************************************************************)
KnowledgeStore  == Handler({}, <<Needs("upsert")>>)
KnowledgeIndex  == Handler({}, <<Needs("upsert")>>)
KnowledgeQuery  == Handler({}, <<Needs("memory")>>)
KnowledgeSearch == Handler({}, <<Needs("memory")>>)

(***************************************************************************)
(* gecko, hercules and pepper                                              *)
(***************************************************************************)
WebFetch        == Handler({}, <<Needs("web")>>)
BrowserScrape   == Handler({}, <<Needs("web")>>)
BrowserNavigate == Refuses
WebAutomate     == Refuses

\* The operations are names of tools, of the caller's choice.
Batch          == 2                     \* bound: the operations of a batch
ComputeProcess == Handler({{"engine"}}, <<Decides("operation")>>)
DataTransform  == Pure
\* An operation that is no dictionary raises before the call.
BatchExecute   ==
    Handler({{"operations"}, {"engine"}}, Times(Batch, Service("operation", {"decides", "raises"})))

UxNotify   == Handler({}, <<Tries("desktop")>>)
UxDisplay  == Pure
UxInteract == Pure
UxSpeak    == Refuses

(***************************************************************************)
(* hulk: without a field "directory" the path is the working directory,    *)
(* which is one.                                                           *)
(***************************************************************************)
StorageOrganize == Handler({}, <<If("directory", Needs("place")), Raises("disk")>>)
StorageBackup   == Handler({}, <<If("source", Needs("place")), Needs("disk")>>)
StorageCleanup  == Handler({}, <<If("directory", Needs("place")), Tries("disk")>>)
StorageAnalyze  == Handler({}, <<If("directory", Needs("place")), Tries("disk")>>)

(***************************************************************************)
(* The agents of memory, tools, voice, desktop and browser.                *)
(***************************************************************************)
MemoryStore    == Handler({{"memory"}}, <<Needs("memory")>>)
MemoryRetrieve == Handler({{"memory"}, {"memory_id"}}, <<Needs("memory")>>)
MemorySearch   == Handler({{"memory"}, {"query"}}, <<Needs("memory")>>)
MemoryForget   == Handler({{"memory"}, {"memory_id"}}, <<Needs("memory")>>)
MemoryStats    == Handler({{"memory"}}, <<Needs("memory")>>)

ToolExecute == Handler({{"tool_name"}}, <<Needs("asked"), Tries("memory")>>)

\* Speech that comes back empty counts as a failure.
VoiceOutput ==
    Handler({{"text"}, {"tts"}}, <<Service("speech", {"raises", "fails"}), Tries("speaker")>>)
VoiceInput  ==
    Handler({{"audio", "speaker"}, {"stt"}}, <<Service("speech", {"raises", "fails"})>>)

MouseClick     == Handler({{"pyautogui"}}, <<Needs("desktop")>>)
MouseMove      == Handler({{"pyautogui"}}, <<Needs("desktop")>>)
KeyboardType   == Handler({{"pyautogui"}}, <<Needs("desktop")>>)
KeyboardHotkey == Handler({{"pyautogui"}}, <<Needs("desktop")>>)
DesktopShot    == Handler({{"PIL"}}, <<Needs("desktop")>>)
ClipboardRead  == Handler({{"pyperclip"}}, <<Needs("desktop")>>)
ClipboardWrite == Handler({{"pyperclip"}}, <<Needs("desktop")>>)
LaunchApp      == Handler({{"app"}}, <<Needs("desktop")>>)
DesktopOcr     == Handler({{"pytesseract"}}, <<Needs("desktop")>>)
WindowList     == Refuses               \* announced, and no branch for it

\* _ensure_browser(), then the page.
Page              == <<Needs("browser"), Needs("page")>>
BrowserScreenshot == Handler({{"playwright"}}, Page)
BrowserContent    == Handler({{"playwright"}}, Page)
BrowserSearch     == Handler({{"query"}, {"playwright"}}, Page)
BrowserClick      == Handler({{"selector", "position"}, {"playwright"}}, Page)
BrowserType       == Handler({{"playwright"}}, Page)
BrowserClose      == Handler({}, <<Needs("browser")>>)

(***************************************************************************)
(* The planner: recalls, talks to the model in its ChatSession, stores the *)
(* interaction.  A goal beyond the context budget is worked through in its *)
(* chunks, one ("piece") or several ("long"), and appended to the session  *)
(* with its answer.                                                        *)
(***************************************************************************)
Chunks == 2                             \* bound: the chunks of a long goal

ProcessChunked == <<If("piece", Tries("model"))>> \o Times(Chunks, If("long", Tries("model")))

RespondSingle  == <<If("short", Service("planner", {"ignored", "raises"}))>>
RespondChunked ==
    ProcessChunked \o <<If("piece", Tries("append")), If("long", Tries("append"))>>

Plan == Handler({}, <<Tries("memory")>> \o RespondSingle \o RespondChunked \o <<Tries("memory")>>)

\* The table Orchestrator._find_agent() looks a task type up in: the first agent that
\* supports it (gecko has browser.navigate, the planner plan).
Agents ==
    "plan" :> Plan
    @@ "code.generate" :> CodeGenerate     @@ "code.review" :> CodeReview
    @@ "code.refactor" :> CodeRefactor     @@ "code.analyze" :> CodeAnalyze
    @@ "research" :> Research              @@ "information.retrieve" :> Retrieve
    @@ "information.synthesize" :> Synthesize
    @@ "vision.analyze" :> VisionAnalyze   @@ "vision.ocr" :> VisionOcr
    @@ "vision.describe" :> VisionDescribe @@ "vision.screenshot" :> VisionScreenshot
    @@ "security.scan" :> SecurityScan     @@ "system.monitor" :> SystemMonitor
    @@ "security.analyze" :> SecurityAnalyze
    @@ "strategy.plan" :> StrategyPlan     @@ "task.decompose" :> TaskDecompose
    @@ "workflow.design" :> WorkflowDesign
    @@ "build.compile" :> BuildCompile     @@ "build.deploy" :> BuildDeploy
    @@ "project.setup" :> ProjectSetup
    @@ "test.run" :> TestRun               @@ "coverage.report" :> CoverageReport
    @@ "test.create" :> TestCreate         @@ "test.analyze" :> TestAnalyze
    @@ "devops.configure" :> DevopsConfigure @@ "devops.deploy" :> DevopsDeploy
    @@ "system.admin" :> SystemAdmin       @@ "devops.monitor" :> DevopsMonitor
    @@ "knowledge.store" :> KnowledgeStore @@ "knowledge.index" :> KnowledgeIndex
    @@ "knowledge.query" :> KnowledgeQuery @@ "knowledge.search" :> KnowledgeSearch
    @@ "web.fetch" :> WebFetch             @@ "browser.scrape" :> BrowserScrape
    @@ "browser.navigate" :> BrowserNavigate @@ "web.automate" :> WebAutomate
    @@ "compute.process" :> ComputeProcess @@ "data.transform" :> DataTransform
    @@ "batch.execute" :> BatchExecute
    @@ "ux.notify" :> UxNotify             @@ "ux.display" :> UxDisplay
    @@ "ux.interact" :> UxInteract         @@ "ux.speak" :> UxSpeak
    @@ "storage.organize" :> StorageOrganize @@ "storage.backup" :> StorageBackup
    @@ "storage.cleanup" :> StorageCleanup @@ "storage.analyze" :> StorageAnalyze
    @@ "memory.store" :> MemoryStore       @@ "memory.retrieve" :> MemoryRetrieve
    @@ "memory.search" :> MemorySearch     @@ "memory.forget" :> MemoryForget
    @@ "memory.stats" :> MemoryStats
    @@ "tool.execute" :> ToolExecute
    @@ "voice.output" :> VoiceOutput       @@ "voice.input" :> VoiceInput
    @@ "desktop.mouse.click" :> MouseClick @@ "desktop.mouse.move" :> MouseMove
    @@ "desktop.keyboard.type" :> KeyboardType
    @@ "desktop.keyboard.hotkey" :> KeyboardHotkey
    @@ "desktop.screenshot" :> DesktopShot @@ "desktop.ocr" :> DesktopOcr
    @@ "desktop.clipboard.read" :> ClipboardRead
    @@ "desktop.clipboard.write" :> ClipboardWrite
    @@ "desktop.launch" :> LaunchApp       @@ "desktop.window.list" :> WindowList
    @@ "browser.screenshot" :> BrowserScreenshot
    @@ "browser.get_content" :> BrowserContent @@ "browser.search" :> BrowserSearch
    @@ "browser.click" :> BrowserClick     @@ "browser.type" :> BrowserType
    @@ "browser.close" :> BrowserClose
=============================================================================
