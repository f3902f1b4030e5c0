----------------------------- MODULE ToolCalls -----------------------------
(***************************************************************************)
(* What the HTTP layer and the tools of the MCP server share: the tool     *)
(* calls that a session has begun.  McpSessions begins them, VoiceReorder  *)
(* carries them out.                                                       *)
(***************************************************************************)

CONSTANT Calls      \* requests to the MCP endpoint handled at a time

VARIABLE run        \* call -> the tool it runs, and how far it has got

NoRun == [tool |-> "none"]

ToolNames == {"read", "draft", "confirm", "remember", "forget"}

(* Tools not marked readOnlyHint need the scope shop.write.                *)
WriteTools == ToolNames \ {"read"}

(* Shop memory is offered to voice clients only, not to OAuth apps.        *)
ToolsOf(profile) == IF profile = "voice" THEN ToolNames ELSE ToolNames \ {"remember", "forget"}
=============================================================================
