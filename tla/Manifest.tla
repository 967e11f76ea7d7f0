------------------------------ MODULE Manifest ------------------------------
(***************************************************************************)
(* tools/create_mtk_manifest.py: the entries of a release archive are      *)
(* checked one after the other, and what is listed is what an installer    *)
(* will unpack.                                                            *)
(*                                                                         *)
(* The name of an entry is the sequence of what stands between its         *)
(* slashes: "" is first in an absolute name and last in that of a          *)
(* directory.  Special is a part with a backslash or a colon.              *)
(***************************************************************************)
EXTENDS Integers, Sequences, FiniteSets, SequencesExt

CONSTANTS
  Archives,  \* sequences of entries [name, link, data]
  Special, Plugin, Readme, X64, Other
             \* a part with characters that are refused; the parts "lin_x64/XLinSpeak.xpl"
             \* (taken as one) and "README.md"; an x86-64 ELF file and any other content

ASSUME PartsAssumption == Cardinality({Special, Plugin, Readme, "XLinSpeak", "..", ".", ""}) = 7
ASSUME DataAssumption  == X64 # Other
ASSUME ArchivesAssumption ==
  \A a \in Archives :
    a \in Seq([name : Seq(STRING \ {"/"}) \ {<<>>}, link : BOOLEAN, data : {X64, Other}])

VARIABLES
  archive,   \* the entries of the archive, in its order
  versions,  \* the version is a stable one, and the one in the archive's name
  output,    \* where the manifest goes: "default", "given" or "archive"
  next,      \* the entry the loop is at
  seen,      \* the paths met
  files,     \* the manifest's list, as <<path, content>>
  manifestPc \* "start", "entries", "refused", "made" or "written"

manifestVars == <<archive, versions, output, next, seen, files, manifestPc>>

Entry == archive[next]

\* PurePosixPath(name).parts: empty parts and dots are dropped, but the root.
Root == <<"/">>

Parts(name) ==
  LET upTo[k \in 0 .. Len(name)] ==
        IF k = 0 THEN IF name[1] = "" THEN Root ELSE <<>>
        ELSE IF name[k] \in {"", "."} THEN upTo[k - 1] ELSE Append(upTo[k - 1], name[k])
  IN upTo[Len(name)]

IsDir(name) == Last(name) = ""

ManifestInit ==
  /\ archive \in Archives /\ versions \in BOOLEAN
  /\ output \in {"default", "given", "archive"}
  /\ next = 1 /\ seen = {} /\ files = <<>> /\ manifestPc = "start"

\* The version is a stable one and that in the archive's name.
Version ==
  /\ manifestPc = "start"
  /\ manifestPc' = IF versions THEN "entries" ELSE "refused"
  /\ UNCHANGED <<archive, versions, output, next, seen, files>>

\* Mutant: names are compared and listed as they stand in the archive.
RelativeRaw(name) == Tail(name)

Relative(name) == Tail(Parts(name))

\* Mutant: ".." is not looked for.
UnsafeNotUp(entry) ==
  \/ Special \in ToSet(entry.name) \/ entry.name[1] = ""
  \/ Parts(entry.name) = <<>> \/ Parts(entry.name)[1] # "XLinSpeak"
  \/ entry.link

Unsafe(entry) ==
  \/ Special \in ToSet(entry.name) \/ entry.name[1] = "" \/ ".." \in ToSet(entry.name)
  \/ Parts(entry.name) = <<>> \/ Parts(entry.name)[1] # "XLinSpeak"
  \/ entry.link

\* An entry the manifest cannot be made with.
Rejected(entry) ==
  \/ Unsafe(entry)
  \/ /\ ~IsDir(entry.name)
     /\ \/ Relative(entry.name) \in seen \cup {<<>>}
        \/ Relative(entry.name) = <<Plugin>> /\ entry.data # X64

\* One pass of the loop.  A directory is not listed.
CheckEntry ==
  /\ manifestPc = "entries" /\ next <= Len(archive)
  /\ IF Rejected(Entry) THEN manifestPc' = "refused" /\ UNCHANGED <<next, seen, files>>
     ELSE /\ next' = next + 1
          /\ IF IsDir(Entry.name) THEN UNCHANGED <<seen, files>>
             ELSE LET path == Relative(Entry.name)
                  IN seen' = seen \cup {path} /\ files' = Append(files, <<path, Entry.data>>)
          /\ UNCHANGED manifestPc
  /\ UNCHANGED <<archive, versions, output>>

EndOfArchive ==
  /\ manifestPc = "entries" /\ next > Len(archive)
  /\ manifestPc' = IF {<<Plugin>>, <<Readme>>} \subseteq seen THEN "made" ELSE "refused"
  /\ UNCHANGED <<archive, versions, output, next, seen, files>>

\* main: the manifest is written, but not over the archive.
WriteManifest ==
  /\ manifestPc = "made"
  /\ manifestPc' = IF output = "archive" THEN "refused" ELSE "written"
  /\ UNCHANGED <<archive, versions, output, next, seen, files>>

ManifestNext == Version \/ CheckEntry \/ EndOfArchive \/ WriteManifest

ManifestSpec == ManifestInit /\ [][ManifestNext]_manifestVars

-----------------------------------------------------------------------------
(* Properties.                                                             *)

\* Where an entry lands when the archive is unpacked in a directory: ".." goes
\* up from where the parts before it have led; what leaves the directory ends at
\* the root.
Lands(name) ==
  LET at[k \in 0 .. Len(name)] ==
        IF k = 0 THEN IF name[1] = "" THEN Root ELSE <<>>
        ELSE IF at[k - 1] = Root \/ name[k] \in {"", "."} THEN at[k - 1]
        ELSE IF name[k] # ".." THEN Append(at[k - 1], name[k])
        ELSE IF at[k - 1] = <<>> THEN Root ELSE Front(at[k - 1])
  IN at[Len(name)]

FilesOf(a) == {i \in DOMAIN a : ~IsDir(a[i].name)}

\* A manifest that is written lists every file of the archive at the place below
\* XLinSpeak where unpacking puts it, each place once, with the content that is
\* found there afterwards, and the plugin and its README are among them.
ManifestIsTrue ==
  manifestPc = "written" =>
    /\ \A i \in FilesOf(archive) :
         /\ ~archive[i].link /\ IsPrefix(<<"XLinSpeak">>, Lands(archive[i].name))
         /\ <<Tail(Lands(archive[i].name)), archive[i].data>> \in ToSet(files)
    /\ Len(files) = Cardinality(FilesOf(archive))
    /\ Cardinality({f[1] : f \in ToSet(files)}) = Len(files)
    /\ <<<<Plugin>>, X64>> \in ToSet(files)
    /\ \E i \in FilesOf(archive) : Lands(archive[i].name) = <<"XLinSpeak", Readme>>
=============================================================================
