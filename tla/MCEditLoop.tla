----------------------------- MODULE MCEditLoop -----------------------------
EXTENDS EditLoop

Req(tool, path, to, key) == [tool |-> tool, path |-> path, to |-> to, key |-> key]

\* One request for each way a call can be guarded, snapshotted and routed.
MCAsked ==
    {Req(t, "a", NoPath, "std") : t \in {"read_file", "write_file", "apply_patch", "edit_file"}}
    \cup {Req(t, NoPath, NoPath, "std") : t \in {"run_command", "codebase_search"}}
    \cup {Req("rename_file", "a", "t", k) : k \in {"std", "alt"}}
    \cup {Req("edit_file", "a", NoPath, "alt"), Req("edit_file", NoPath, NoPath, "none"),
          Req("read_file", "a", NoPath, "alt"), Req("write_file", "t", NoPath, "std"),
          Req("rename_file", "t", "a", "std"), Req("rename_file", "t", "t", "std")}
=============================================================================
