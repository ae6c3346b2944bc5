----------------------------- MODULE ToolRegistry -----------------------------
(***************************************************************************)
(* The tools of a session as three tables classify them, each written on    *)
(* its own in the code and checked by the compiler for completeness only:   *)
(* where a tool's result comes from and what policy category it has         *)
(* (src/tools/safety.ts), and whether the trace counts it as changing       *)
(* something (src/trace-recorder.ts).  Then the batch of                    *)
(* src/tools/batch.ts, which runs several of them in one call.              *)
(*                                                                         *)
(* Names are written without the prefix "browser_".                         *)
(***************************************************************************)
EXTENDS SafetyPolicy

(* BROWSER_TOOL_CONTENT_KINDS: also the list of all tools.                  *)
BrowserKind ==
  {"snapshot", "get_viewport", "screenshot", "extract", "console_logs", "get_text",
   "get_attribute", "get_url", "list_pages"}
HarnessKind == {"set_viewport"}
CallerKind == {"record_critical_point", "finish_test"}
MixedKind ==
  {"goto", "expect_url", "wait_for_url", "reload", "go_back", "go_forward",
   "wait_for_network_idle", "select_page", "expect_text", "wait_for_text",
   "wait_for_selector", "expect_visible", "expect_hidden", "expect_value",
   "expect_checked", "expect_enabled", "expect_disabled", "expect_count",
   "expect_attribute", "expect_focused", "click", "click_at", "double_click",
   "right_click", "hover", "drag_and_drop", "type", "press", "tab", "focus", "blur",
   "clear", "check", "uncheck", "select_option", "upload_file", "close_page", "run_steps"}

Tools == BrowserKind \cup HarnessKind \cup CallerKind \cup MixedKind

(* defaultToolContentBoundary: what reaches a model is trusted only when    *)
(* the harness alone made it.                                               *)
Trusted(tool) == tool \in HarnessKind

(* BROWSER_TOOL_POLICY_CLASSES: the tools that are more than a "read".      *)
NavigationTools == {"goto", "reload", "go_back", "go_forward"}
PointerTools == {"click", "click_at", "double_click", "right_click", "hover", "drag_and_drop"}
KeyboardTools == {"type", "press", "tab", "focus", "blur", "clear"}
FormTools == {"check", "uncheck", "select_option"}

PolicyClass(tool) ==
  CASE tool \notin Tools -> "none"
    [] tool \in NavigationTools -> "navigation"
    [] tool \in PointerTools -> "pointer"
    [] tool \in KeyboardTools -> "keyboard"
    [] tool \in FormTools -> "form"
    [] tool = "upload_file" -> "file-upload"
    [] tool = "close_page" -> "page-lifecycle"
    [] tool = "run_steps" -> "batch"
    [] OTHER -> "read"

(* BROWSER_TRACE_COMMAND_KINDS: the tools that are a "write".               *)
TracedAsWrite ==
  {"set_viewport", "screenshot", "goto", "reload", "go_back", "go_forward", "select_page",
   "click", "click_at", "double_click", "right_click", "hover", "drag_and_drop", "type",
   "press", "tab", "focus", "blur", "clear", "check", "uncheck", "select_option",
   "upload_file", "close_page", "record_critical_point", "finish_test"}

-----------------------------------------------------------------------------
(* A step of a batch names any tool, or nothing known; "works" says whether *)
(* its body would succeed.  The gate decides about every step as about a    *)
(* call of its own, and the batch stops at the first that fails.            *)
BatchSteps == [tool : Tools \cup {"unknown"}, requested : Addresses, answer : Answers,
               works : BOOLEAN]
MaxSteps == 20
Excluded == {"run_steps", "finish_test"}

CallOf(step) ==
  [class |-> PolicyClass(step.tool), goto |-> step.tool = "goto", requested |-> step.requested]

Dispatched(policy, step) ==
  step.tool \in Tools \ Excluded /\ Passes(policy, CallOf(step), step.answer)

Succeeds(policy, step) == Dispatched(policy, step) /\ step.works

(* The steps whose bodies run.                                              *)
Ran(policy, steps) ==
  {i \in DOMAIN steps : /\ Len(steps) <= MaxSteps
                        /\ \A j \in 1..(i - 1) : Succeeds(policy, steps[j])
                        /\ Dispatched(policy, steps[i])}
=============================================================================
