---------------------------- MODULE WorkspacePath ----------------------------
(***************************************************************************)
(* Where workspaces are: sanitize_issue_identifier, normalize_to_absolute  *)
(* and validate_workspace_containment of src/src/workspace.rs. A path is a *)
(* sequence of components; a component and an identifier are sequences of  *)
(* characters, of the classes these functions tell apart.                  *)
(***************************************************************************)
EXTENDS Naturals, SequencesExt

CONSTANTS
    Cwd     \* the directory the service was started in

(* Characters that stay, among them the dot and the underscore, and one that *)
(* is replaced by the underscore.                                            *)
Character == {"a", ".", "_", "/"}

Key == Seq({"a", ".", "_"})

ASSUME PathAssumption == Cwd \in Seq(Key)

Current == <<".">>
Parent == <<".", ".">>

Sanitize_Drops(identifier) == SelectSeq(identifier, LAMBDA c : c # "/")

Sanitize(identifier) ==
    [k \in DOMAIN identifier |-> IF identifier[k] = "/" THEN "_" ELSE identifier[k]]

(* normalize_to_absolute, component by component; what is above "/" is "/". *)
Entered(path, c) ==
    CASE c \in {<<>>, Current} -> path
      [] c = Parent -> IF path = <<>> THEN path ELSE Front(path)
      [] OTHER -> Append(path, c)

Normalized(parts) ==
    LET path[n \in 0 .. Len(parts)] ==
            IF n = 0 THEN <<>> ELSE Entered(path[n - 1], parts[n])
    IN path[Len(parts)]

Directory(r) == Normalized(IF r.absolute THEN r.parts ELSE Cwd \o r.parts)

WorkspacePathOf(r, identifier) == Normalized(Directory(r) \o <<Sanitize(identifier)>>)

Contained_Anywhere(r, path) == path # <<>>

(* validate_workspace_containment. *)
Contained(r, path) == IsPrefix(Directory(r), path)
=============================================================================
