------------------------------- MODULE Suite -------------------------------
(* All the parts that work on one input: those of Tools, and the readers of *)
(* documents, executables and mails.                                        *)
EXTENDS Tools

CONSTANTS
    MaxChunk, MaxText, Words, Dense, Present,                          \* VbaProject
    MaxZipEntries, MaxMember, MaxBlobs,                                \* OfficeFile
    MaxSections, MaxLibs, MaxSymbols, MinBulk, Apis,                   \* ImageFile
    PeFiles, Flag, MaxDebug, MaxLeaves, MaxData,                       \* PeImage
    ElfFiles, MaxNotes, MaxShnames, MaxStrings, MaxNoteSize, MaxSampled, \* ElfImage
    MachFiles, Unprefixed, MaxSlices, MaxBlobCount, MaxStrtab,         \* MachImage
    Documents, MaxSectors, MaxEntries, MaxStream, MaxDepth,            \* CompoundFile
    Messages, Scanned, Lowered, MaxBody, MaxAttachment                 \* Extraction

Document == INSTANCE CompoundFile
Pe == INSTANCE PeImage
Elf == INSTANCE ElfImage
Mach == INSTANCE MachImage
Mail == INSTANCE Extraction

SuiteInit ==
    \/ Init
    \/ kind = "document" /\ Document!Init
    \/ kind = "pe" /\ Pe!Init
    \/ kind = "elf" /\ Elf!Init
    \/ kind = "mach" /\ Mach!Init
    \/ kind = "mail" /\ Mail!Init
SuiteNext ==
    \/ Next
    \/ /\ UNCHANGED kind
       /\ \/ kind = "document" /\ Document!Next
          \/ kind = "pe" /\ Pe!Next
          \/ kind = "elf" /\ Elf!Next
          \/ kind = "mach" /\ Mach!Next
          \/ kind = "mail" /\ Mail!Next
SuiteSpec == SuiteInit /\ [][SuiteNext]_vars

----------------------------------------------------------------------------
(* However a document is wrapped and lies in its file, chains scattered and *)
(* small streams apart, what is read are the streams that were written, and *)
(* the macro sources in them, and what these say is reported; the analysis  *)
(* of any other file comes to an end too.                                   *)
DocumentRead ==
    Ended("document") /\ input.intact =>
        /\ work.streams = input.written
        /\ input.wrapper.kind # "rtf" =>
              work.modules = input.sources /\ Document!VbaFindings(input.sources) \subseteq report

----------------------------------------------------------------------------
(* Whatever sections a Windows image is cut into, and in whatever order     *)
(* they lie in the file, the libraries, exports, resources and the debug    *)
(* path read are the ones its tables name in memory, but for the resources  *)
(* longer than resources.py:107 allows, which are never looked at. The      *)
(* entry point is judged by the section that holds it, provided that every  *)
(* section has data: pe.py:624 pairs sections with the ranges of those that *)
(* have.                                                                    *)
EntryHomes == {s \in ToSet(input.sections) : input.entry \in s.va..s.va + s.rsize - 1}
PeRead ==
    Ended("pe") /\ input.intact =>
        /\ work.imports = input.means.imports /\ work.exports = input.means.exports
        /\ ToSet(Pe!Resources) = input.means.resources /\ work.pdb = input.means.pdb
        /\ (\A s \in ToSet(input.sections) : Pe!HasData(s)) /\ input.entry # 0 =>
              /\ (Pe!Finding("entry_outside_sections", Pe!HIGH) \in report) = (EntryHomes = {})
              /\ (Pe!Finding("entry_in_nonexec_section", Pe!HIGH) \in report) = (\E s \in EntryHomes : "X" \notin s.flags)

(* The libraries, symbols, hardening and build ids of an ELF image are read *)
(* as written, wherever its pieces lie and whether or not its string table  *)
(* can be told by its name; so are those of a Mach-O image, with its        *)
(* signature and sections, wherever in a universal binary it starts. Names  *)
(* and notes past what is read of a table (elf.py:327, 386, 447, 595,       *)
(* macho.py:385) are lost, and cost none of the others.                     *)
UnixImageRead ==
    /\ Ended("elf") /\ input.intact =>
          input.means = [needed |-> Elf!Needed, rpath |-> Elf!PathOf(Elf!RPATH), symbols |-> work.symbols,
                         lacks |-> Elf!Lacks, build |-> work.build, go |-> work.go]
    /\ Ended("mach") /\ input.intact =>
          \A part \in DOMAIN input.means : work[part] = input.means[part]

----------------------------------------------------------------------------
(* A mail gives up its indicators (core/eml.py): what stands on its own in  *)
(* a header, in the name of an attachment or in a body that was read whole  *)
(* is listed, with its host, unless it shares a piece with another one; and *)
(* so are the hashes of what was attached and the addresses it came by.     *)
(* Nothing is listed twice, and nothing that stands only inside a longer    *)
(* indicator (core/parser.py:8), but for its host.                          *)
Within(c, d) == d.from <= c.from /\ c.to <= d.kept /\ c.to - c.from < d.kept - d.from
Valid(run) == {c \in ToSet(Mail!Matches(run)) : c.valid}
Iocs(c) == {Mail!Ioc(Mail!TypeOf(c.scan), c.value)} \cup ToSet(Mail!Hosts(c))
Outermost(run) == {c \in Valid(run) : \A d \in Valid(run) : ~Within(c, d)}
Separate(run) ==
    {c \in Valid(run) : \A d \in Valid(run) \ {c} : Within(d, c) \/ d.to < c.from \/ c.to < d.from}
Given(runs, Which(_)) == UNION {UNION {Iocs(c) : c \in Which(run)} : run \in runs}

WordsOf(text) == {<<text[k]>> : k \in {k \in DOMAIN text :
                     /\ text[k] # Mail!Space
                     /\ k = 1 \/ text[k - 1] = Mail!Space
                     /\ k = Len(text) \/ text[k + 1] = Mail!Space}}
IsBody(p, ctype) == ~p.container /\ ~p.named /\ ~p.disposition /\ p.ctype = ctype
Padded(p) == p.data # <<>> /\ p.data[1].v = Mail!Space /\ Last(p.data).v = Mail!Space
Files == SelectSeq(input.parts, LAMBDA p : ~p.container /\ (p.named \/ p.disposition) /\ p.data # <<>>)
BodyData == FlattenSeq([i \in DOMAIN input.parts |->
                           IF \E t \in {"text", "html"} : IsBody(input.parts[i], t) THEN input.parts[i].data ELSE <<>>])
Standing ==
    UNION {WordsOf(text) : text \in ToSet(input.headers) \cup {hop.text : hop \in ToSet(input.received)}}
    \cup {<<Last(p.path)>> : p \in {p \in ToSet(Files) : p.path # <<>>}}
    \cup IF Len(BodyData) > MaxBody THEN {}
         ELSE UNION {WordsOf(Mail!Plain(p.data)) : p \in {p \in ToSet(input.parts) : IsBody(p, "text") /\ Padded(p)}}
              \cup {<<e.v>> : e \in {e \in ToSet(BodyData) : e.t = "href"}}
Carried ==
    UNION {{[type |-> t, value |-> Mail!Plain(Mail!Upto(p.data, MaxAttachment))] : t \in {"sha256", "md5"}} : p \in ToSet(Files)}
    \cup {[type |-> "ipv4", value |-> <<ip>>] : ip \in UNION {ToSet(hop.ips) : hop \in ToSet(input.received)}
                                                         \cup ({input.origin.ip} \ {"none"})}
MessageRead ==
    Ended("mail") =>
        /\ Cardinality(ToSet(report)) = Len(report)
        /\ Given(Standing, Separate) \cup Carried \subseteq ToSet(report)
        /\ ToSet(report) \subseteq Given(ToSet(Mail!Runs(Mail!Combined)), Outermost) \cup Carried
=============================================================================
