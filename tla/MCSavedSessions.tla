----------------------------- MODULE MCSavedSessions -----------------------------
EXTENDS SavedSessions
(* A new session, and one whose log was written before turns had markers,  *)
(* which a compaction can replace.                                         *)
OldText(n) == Event("UserMessage", n, NoId, "")
OldCall == <<"old", 0>>
MCLogs == {<<>>, <<OldText(11), ToolCall(OldCall), ToolResult(OldCall, 0), OldText(12)>>}
=============================================================================
