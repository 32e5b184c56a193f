----------------------------- MODULE MCSizeGuard -----------------------------
(* SizeGuard with two arrays, the second below a longer path.                *)
EXTENDS SizeGuard

MCPaths == <<"Lines", "Section.Lines">>

MCShell == [p \in {"Lines", "Section.Lines"} |-> IF p = "Lines" THEN 1 ELSE 2]

=============================================================================
