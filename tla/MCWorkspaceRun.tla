---------------------------- MODULE MCWorkspaceRun ----------------------------
EXTENDS WorkspaceRun
CONSTANTS script, other, note, cache
MCPaths == {script, other, note, cache}
MCBase == [p \in MCPaths |-> IF p = note THEN Gone ELSE [text |-> 1, ending |-> "lf"]]
\* As on a repository that keeps the line endings of another system.
MCBaseCrlf ==
  [p \in MCPaths |-> IF p = note THEN Gone ELSE [text |-> 1, ending |-> IF p = other THEN "crlf" ELSE "lf"]]
================================================================================
