------------------------------ MODULE MCParser ------------------------------
(***************************************************************************)
(* Grammars of build files for Parser.                                     *)
(***************************************************************************)
EXTENDS Parser

MCKinds ==
    {"project", "target", "property", "description", "path", "fileset", "selector",
     "copy", "javac", "jar", "parallel", "refpath", "arg", "include", "or",
     "manifest", "attribute", "pathelement", "inline"}

\* What build files nest, except for the combinations the parser loses track
\* of: selector containers in filesets, inline paths with more in them than
\* path elements, and tasks with filesets and patterns of their own.
MCContent ==
    [k \in Kinds |->
        CASE k = "project"     -> {"target", "property", "description", "path", "fileset", "selector"}
          [] k = "target"      -> {"copy", "javac", "jar", "parallel"}
          [] k = "copy"        -> {"fileset", "or"}
          [] k = "javac"       -> {"path", "refpath", "include", "or"}
          [] k = "jar"         -> {"manifest", "arg"}
          [] k = "parallel"    -> {"copy"}
          [] k = "description" -> {"include"}
          [] k = "path"        -> {"pathelement", "fileset", "inline"}
          [] k = "inline"      -> {"pathelement"}
          [] k = "fileset"     -> {"include"}
          [] k = "selector"    -> {"include", "or"}
          [] k = "or"          -> {"include", "or"}
          [] k = "manifest"    -> {"attribute"}
          [] OTHER             -> {}]

\* The hypothesis of theorem ChildrenAreRecorded.
ASSUME MCContentTracked == Tracked(MCContent)

\* Filesets hold selector containers as well.
SelectorContent == [MCContent EXCEPT !["fileset"] = {"include", "or"}]
=============================================================================
