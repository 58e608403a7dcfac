---------------------------- MODULE UpdateClaims -----------------------------
(* A statement that the repository's documentation makes about the daemon  *)
(* and that its code does not keep.  Its run shows how the code breaks it. *)
EXTENDS UpdateProperties

\* Documentation/update-modules-v3-file-api.md: ArtifactRollback is not called
\* for a payload that has finished ArtifactCommit.
NoRollbackAfterCommit == call = "ArtifactRollback" => "ArtifactCommit" \notin finished
==============================================================================
