----------------------------- MODULE OfficeFile -----------------------------
(* What a compound file comes wrapped in: nothing, the zip of an OOXML      *)
(* document (analyze/ooxml.py), or the hexadecimal objects of an RTF text   *)
(* (analyze/rtf.py). The dispatcher has seen the zip open and the RTF       *)
(* header. A member is known by its path and by the marks in it that the    *)
(* rules look for, an RTF text by its control words, classes and objects.   *)
EXTENDS VbaProject

CONSTANTS
    MaxZipEntries,   \* MAX_ZIP_ENTRIES
    MaxMember,       \* MAX_MEMBER_BYTES
    MaxBlobs         \* MAX_OBJDATA_BLOBS

Finding(rule, severity) == [rule |-> rule, severity |-> severity]
Marked(holds, rule, severity) == IF holds THEN {Finding(rule, severity)} ELSE {}
First(s, n) == SubSeq(s, 1, Min({n, Len(s)}))

(* _read_member goes by name, beyond the entries that were listed too; what *)
(* is too large, or cannot be read, is as good as absent.                   *)
Types == <<"[Content_Types].xml">>
SharedStrings == <<"xl", "sharedStrings.xml">>
Named(w, path) == {e \in ToSet(w.entries) : e.path = path}
Opened(e) == e.size <= MaxMember
Readable(e) == Opened(e) /\ e.read = "yes" /\ e.size > 0
Holds(w, path, mark) == \E e \in Named(w, path) : Readable(e) /\ mark \in e.marks
Listed(w) == First(w.entries, MaxZipEntries)

(* _find_vba_project: the well-known places first.                          *)
VbaPlaces == [i \in 1..4 |-> <<<<"word", "xl", "ppt", "visio">>[i], "vbaProject.bin">>]
VbaPaths(w) ==
    LET paths == [i \in DOMAIN Listed(w) |-> Listed(w)[i].path]
    IN  SelectSeq(VbaPlaces, LAMBDA p : p \in ToSet(paths))
        \o SelectSeq(paths, LAMBDA p : Len(p) > 1 /\ Last(p) = "vbaProject.bin")
HasVbaPath(w) == VbaPaths(w) # <<>>

(* Damaged deflate data raises what _read_member does not catch; the rule   *)
(* for ms-msdt: reads every member.                                         *)
OoxmlRaises(w) ==
    \E e \in ToSet(Listed(w)) \cup Named(w, Types) \cup Named(w, SharedStrings) : Opened(e) /\ e.read = "raises"
External(e) == Last(e.path) = "rels" /\ Readable(e) /\ {"External", "oleObject", "url"} \subseteq e.marks
OoxmlFindings(w) ==
    Marked(HasVbaPath(w) \/ Holds(w, Types, "macroEnabled"), "macro_enabled", 50)
    \cup Marked(\E e \in ToSet(Listed(w)) : External(e), "external_relationship", 70)
    \cup Marked(\E e \in ToSet(Listed(w)) : Readable(e) /\ "ms-msdt:" \in e.marks, "msdt_scheme", 90)
    \cup Marked(Holds(w, SharedStrings, "=cmd|"), "dde_field", 70)

(* _extract_objdata_blobs: an object without a pair of digits is passed     *)
(* over.                                                                    *)
ClassSeverity == [Equation3 |-> 90, Equation2 |-> 70, OLE2Link |-> 90, Package |-> 70, WordDocument |-> 50]
Blobs(w) == First(SelectSeq(w.blobs, LAMBDA b : b # "nothing"), MaxBlobs)
RtfFindings(w) ==
    {Finding(c, ClassSeverity[c]) : c \in w.classes \cap DOMAIN ClassSeverity}
    \cup Marked(w.words \cap {"objupdate", "objautlink"} # {}, "auto_object_fire", 70)
    \cup Marked("objocx" \in w.words, "objocx", 70)
    \cup Marked("bin" \in w.words, "raw_binary_blob", 50)
    \cup Marked("compound" \in ToSet(Blobs(w)), "embedded_cfb", 70)

(* Which of them has a compound file in it that will be parsed.             *)
WrapperRaises(w) == w.kind = "ooxml" /\ OoxmlRaises(w)
WrapperFindings(w) ==
    CASE w.kind = "ole"   -> {}
      [] w.kind = "ooxml" -> OoxmlFindings(w)
      [] w.kind = "rtf"   -> RtfFindings(w)
HoldsCompound(w) ==
    \/ w.kind = "ole"
    \/ w.kind = "ooxml" /\ HasVbaPath(w) /\ \E e \in Named(w, Head(VbaPaths(w))) : Readable(e)
    \/ w.kind = "rtf" /\ "compound" \in ToSet(Blobs(w))
Broken(w) ==
    CASE w.kind = "ole"   -> {Finding("parse_error", 50)}
      [] w.kind = "ooxml" -> {Finding("vba_parse_error", 50)}
      [] w.kind = "rtf"   -> {}
=============================================================================
