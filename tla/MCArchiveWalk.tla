--------------------------- MODULE MCArchiveWalk ---------------------------
(* A zip with a document, a tar of two programs and a compressed one, an    *)
(* entry that claims to be huge, an encrypted one and an archive that       *)
(* contains itself; or the tar alone, or that archive alone.                *)
EXTENDS ArchiveWalk

MCFiles == {"mail.zip", "pack.tar", "tool.gz", "quine.zip", "doc", "exe", "dll"}
MCKind == [f \in MCFiles |->
    CASE f \in {"mail.zip", "quine.zip"} -> "zip"
      [] f = "pack.tar" -> "tar"
      [] f = "tool.gz"  -> "stream"
      [] OTHER          -> "leaf"]
MCSize == [f \in MCFiles |->
    CASE f = "pack.tar" -> 9 [] f = "tool.gz" -> 5 [] f \in {"exe", "mail.zip"} -> 3 [] OTHER -> 2]

Plain(f) == [file |-> f, encrypted |-> FALSE, executable |-> FALSE, declared |-> MCSize[f], packed |-> MCSize[f]]
MCMembers == [f \in {"mail.zip", "pack.tar", "tool.gz", "quine.zip"} |->
    CASE f = "mail.zip" -> <<Plain("doc"), Plain("pack.tar"), Plain("quine.zip"),
                             [Plain("exe") EXCEPT !.declared = 20], [Plain("dll") EXCEPT !.encrypted = TRUE],
                             Plain("exe")>>
      [] f = "pack.tar"  -> <<Plain("tool.gz"), [Plain("exe") EXCEPT !.executable = TRUE]>>
      [] f = "tool.gz"   -> <<Plain("dll")>>
      [] f = "quine.zip" -> <<Plain("quine.zip"), Plain("exe")>>]
MCIocs == [f \in {"doc", "exe", "dll"} |->
    CASE f = "doc" -> <<"site", "host">> [] f = "exe" -> <<"host", "mail">> [] OTHER -> <<>>]
MCRoots == {"mail.zip", "pack.tar", "quine.zip", "exe"}
=============================================================================
