------------------------- MODULE SupportingMaterial -------------------------
(***************************************************************************)
(* Reading what is attached to a Work item (supporting_material.py,        *)
(* documents.py): a caller pages through the references with a cursor, and *)
(* previews one attached Artifact's local document.  A page takes three    *)
(* statements (the item, the references, their nodes) and a preview reads  *)
(* a file in chunks; the item, its edges and the file change in between.   *)
(*                                                                         *)
(* References are numbers in the order of their resource names.  The item  *)
(* names some of them in its fields, which only change with its version;   *)
(* edges of the graph name others, and change without it.                  *)
(***************************************************************************)
EXTENDS Naturals, Sequences, FiniteSets, SequencesExt

CONSTANTS
    Refs,          \* the references
    PageLimit,     \* the limit the caller pages with
    NoCursor,      \* no cursor
    DocumentMax,   \* MAX_DOCUMENT_BYTES, in chunks
    MaxAttached,   \* bound: edits of the item and its edges
    MaxFileWrites  \* bound: writes to the document

VARIABLES
    attached, \* the item: its version, the references of its fields and of its edges
    pager,    \* the caller that pages
    file,     \* what the document's name is: there, regular, and every inode it has been
    preview   \* the call that reads it

materialVars == <<attached, pager, file, preview>>

NoBinding == [version |-> 0, references |-> {}]

NoTraversal == [at |-> "idle", cursor |-> NoCursor, bound |-> NoBinding, seen |-> NoBinding,
                page |-> <<>>, got |-> <<>>]

\* What the metadata of an Artifact may say of its document.
Artifacts ==
    [node : {"there", "missing", "malformed"}, media : {"text", "other"},
     location : {"none", "remote", "unusable", "outside", "inside"}, roots : BOOLEAN]

NoPreview == [at |-> "idle", artifact |-> CHOOSE a \in Artifacts : TRUE, inode |-> 0,
              before |-> 0, chunks |-> <<>>, result |-> "none"]

MaterialInit ==
    /\ attached = [version |-> 1, fields |-> Refs, edges |-> {}]
    /\ pager = NoTraversal
    /\ file = [there |-> TRUE, regular |-> TRUE, writes |-> 1,
               inodes |-> <<[changed |-> 1, chunks |-> <<1, 1>>]>>]
    /\ preview = NoPreview

-----------------------------------------------------------------------------
(* Writers.                                                                 *)

EditFields(S) ==
    /\ attached.version < MaxAttached
    /\ attached' = [attached EXCEPT !.fields = S, !.version = @ + 1]
    /\ UNCHANGED <<pager, file, preview>>

EditEdges(S) ==
    /\ attached.edges # S
    /\ attached' = [attached EXCEPT !.edges = S]
    /\ UNCHANGED <<pager, file, preview>>

CurrentMaterial == Len(file.inodes)

\* Written in place, with the same or another length; a write moves the times.
WriteFile(length) ==
    /\ file.writes < MaxFileWrites
    /\ file' = [file EXCEPT
          !.writes = @ + 1,
          !.inodes[CurrentMaterial] = [changed |-> file.writes + 1,
                               chunks |-> [i \in 1 .. length |-> file.writes + 1]]]
    /\ UNCHANGED <<attached, pager, preview>>

\* Replaced by another file, regular or not, or removed: the old inode loses its name, which
\* moves its ctime, and a descriptor on it still reads it.
ReplaceDocument(there, regular) ==
    /\ file.writes < MaxFileWrites
    /\ file' = [there |-> there, regular |-> regular, writes |-> file.writes + 1,
                inodes |-> Append([file.inodes EXCEPT ![CurrentMaterial].changed = file.writes + 1],
                                  [changed |-> file.writes + 1, chunks |-> <<file.writes + 1>>])]
    /\ UNCHANGED <<attached, pager, preview>>

-----------------------------------------------------------------------------
(* Pages of references.                                                     *)

Pager(new) == pager' = new /\ UNCHANGED <<attached, file, preview>>

\* supporting_material._binding, of the item as a page read it
Binding == [version |-> attached.version, references |-> attached.fields]

\* Mutant of SameBinding: a cursor is taken for the item it names, whatever its version.
AnyVersionMut(bound, seen) == TRUE

\* supporting_material._decode_cursor: another version or other references restart.
SameBinding(bound, seen) == bound = seen

\* SupportingMaterialReader.read up to the references: the item is read, its binding made
\* and the cursor compared with it.
StartPage ==
    /\ pager.at = "idle"
    /\ IF pager.cursor # NoCursor /\ ~SameBinding(pager.bound, Binding)
       THEN Pager([NoTraversal EXCEPT !.at = "restart"])
       ELSE Pager([pager EXCEPT !.at = "item", !.seen = Binding, !.bound = Binding])

After(r) == pager.cursor = NoCursor \/ r > pager.cursor

\* storage.supporting_material_references: the fields of the item as it was read, the edges
\* as they are now, after the cursor, in order, one more than the limit.
ReadReferences ==
    /\ pager.at = "item"
    /\ LET all == SetToSortSeq({r \in pager.seen.references \cup attached.edges : After(r)}, <)
       IN  Pager([pager EXCEPT !.at = "nodes",
                               !.page = SubSeq(all, 1, IF Len(all) > PageLimit
                                                       THEN PageLimit + 1 ELSE Len(all))])

\* storage.supporting_material_nodes and the envelope: the page without the one more, and a
\* cursor at its last reference if there was one more.
AnswerPage ==
    /\ pager.at = "nodes"
    /\ LET more == Len(pager.page) > PageLimit
           page == IF more THEN SubSeq(pager.page, 1, PageLimit) ELSE pager.page
       IN  Pager([pager EXCEPT !.at = IF more THEN "idle" ELSE "done",
                               !.cursor = IF more THEN Last(page) ELSE NoCursor,
                               !.page = <<>>, !.got = @ \o page])

\* The caller starts over, after a restart or when it has everything.
PageAgain == pager.at \in {"restart", "done"} /\ Pager(NoTraversal)

-----------------------------------------------------------------------------
(* The preview of a document.                                               *)

Preview(new) == preview' = new /\ UNCHANGED <<attached, pager, file>>

Shows(state) == Preview([NoPreview EXCEPT !.at = "shown", !.result = state])

\* supporting_material._item and _safe_location, as far as work_document looks: only an
\* available record has metadata to read from.
Resolution(a) ==
    CASE a.node = "missing" -> "missing"
      [] a.node = "malformed" -> "malformed"
      [] OTHER -> "available"

\* documents._local_path, _absolute_path and the choice of the root: the states that are
\* answered before the file is opened.
BeforeOpening(a) ==
    CASE Resolution(a) = "missing" -> "missing"
      [] Resolution(a) = "malformed" -> "unavailable"
      [] a.location \in {"none", "remote"} -> "metadata_only"
      [] a.location = "unusable" -> "unavailable"
      [] ~a.roots -> "unconfigured"
      [] a.location = "outside" -> "unavailable"
      [] a.media # "text" -> "unsupported"
      [] OTHER -> "open"

\* work_document after the item was admitted: attached_artifact, then the preview begins.
StartPreview(a) ==
    /\ preview.at = "idle"
    /\ IF BeforeOpening(a) = "open"
       THEN Preview([NoPreview EXCEPT !.at = "open", !.artifact = a])
       ELSE Shows(BeforeOpening(a))

\* documents._document_descriptor and the first fstat: one descriptor from here on.
OpenDocument ==
    /\ preview.at = "open"
    /\ LET opened == file.inodes[CurrentMaterial]
       IN  IF ~file.there THEN Shows("missing")
           ELSE IF ~file.regular \/ Len(opened.chunks) > DocumentMax THEN Shows("unsupported")
           ELSE Preview([preview EXCEPT !.at = "read", !.inode = CurrentMaterial,
                                        !.before = opened.changed])

Held == file.inodes[preview.inode]

\* One os.read: a chunk, or the end of the file.  A chunk beyond the limit ends the preview.
ReadChunk ==
    /\ preview.at = "read"
    /\ IF Len(preview.chunks) >= Len(Held.chunks)
       THEN Preview([preview EXCEPT !.at = "check"])
       ELSE IF Len(preview.chunks) = DocumentMax
       THEN Shows("unsupported")
       ELSE Preview([preview EXCEPT !.chunks = Append(@, Held.chunks[Len(@) + 1])])

\* The second fstat.
CheckDocument ==
    /\ preview.at = "check"
    /\ IF Held.changed # preview.before
       THEN Shows("unavailable")
       ELSE Preview([preview EXCEPT !.at = "shown", !.result = "readable"])

PreviewAgain == preview.at = "shown" /\ Preview(NoPreview)

\* The two readers share nothing, so each can be explored by itself.
PagesNext ==
    \/ \E S \in SUBSET Refs : EditFields(S) \/ EditEdges(S)
    \/ StartPage \/ ReadReferences \/ AnswerPage \/ PageAgain

DocumentNext ==
    \/ \E n \in 1 .. DocumentMax + 1 : WriteFile(n)
    \/ \E there, regular \in BOOLEAN : ReplaceDocument(there, regular)
    \/ \E a \in Artifacts : StartPreview(a)
    \/ OpenDocument \/ ReadChunk \/ CheckDocument \/ PreviewAgain

MaterialSpec == MaterialInit /\ [][PagesNext \/ DocumentNext]_materialVars

-----------------------------------------------------------------------------

\* Paging ends with every reference the item's fields named, each exactly once and in
\* order, at one version of the item: a page of another version restarts the caller
\* (SupportingMaterialCursorChanged), whatever the edges do meanwhile.  And a document that
\* is shown as readable is the whole of one content its file had, never parts of two.
MaterialIsWhole ==
    /\ pager.at = "done" =>
          /\ pager.bound.references \subseteq ToSet(pager.got)
          /\ \A i, j \in DOMAIN pager.got : i < j => pager.got[i] < pager.got[j]
    /\ preview.result = "readable" =>
          /\ Len(preview.chunks) <= DocumentMax
          /\ preview.chunks = Held.chunks \/ Held.changed # preview.before
          /\ Cardinality(ToSet(preview.chunks)) <= 1
=============================================================================
