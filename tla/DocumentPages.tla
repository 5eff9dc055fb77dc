---------------------------- MODULE DocumentPages ----------------------------
(* The rendered pages of a document lesson (apps/lms/pdf_pages.py): files    *)
(* of a storage that never overwrites, described by a manifest that is       *)
(* written last. The upload's task, the readers of the lesson and the        *)
(* pre-render command all render, in any number at once.                     *)
EXTENDS Naturals

CONSTANTS
    Renderers,      \* tasks, requests and commands that may render at once
    MaxPages,       \* bound: pages of a document
    MaxDocs,        \* bound: documents uploaded for the lesson
    MaxFaults       \* bound: crashes and storage errors

ASSUME PagesAssumption ==
    MaxPages \in Nat \ {0} /\ MaxDocs \in Nat \ {0} /\ MaxFaults \in Nat

PageNumbers == 1..MaxPages
Manifest == 0                   \* manifest.json, among the files of the directory
\* A document: which upload it is (0: none), and how many pages it has. The
\* signature of the code, name and size, tells one upload from another.
Docs == [v : 0..MaxDocs, n : 0..MaxPages]
NoDoc == [v |-> 0, n |-> 0]

VARIABLES
    document,       \* lesson.document_file
    manifest,       \* the document manifest.json describes
    page,           \* the upload each page-N.webp shows, 0 when there is no file
    rd_pc, rd_doc, rd_files, rd_page,   \* a render: its copy of the lesson, the files
                                    \* it has yet to wipe, the page it is at
    overlapped,     \* two renders have been under way at once
    mixed,          \* ... of two different documents
    torn,           \* a wipe stopped short of a file
    faults

fileVars == <<manifest, page>>
renderVars == <<rd_pc, rd_doc, rd_files, rd_page>>
pagesVars == <<document, fileVars, renderVars, overlapped, mixed, torn, faults>>

PagesInit ==
    /\ document \in [v : {1}, n : PageNumbers]
    /\ manifest = NoDoc /\ page = [p \in PageNumbers |-> 0]
    /\ rd_pc = [r \in Renderers |-> "idle"] /\ rd_doc = [r \in Renderers |-> NoDoc]
    /\ rd_files = [r \in Renderers |-> {}] /\ rd_page = [r \in Renderers |-> 0]
    /\ overlapped = FALSE /\ mixed = FALSE /\ torn = FALSE /\ faults = 0

-----------------------------------------------------------------------------
Busy == {r \in Renderers : rd_pc[r] # "idle"}

Finish(r) ==
    /\ rd_pc' = [rd_pc EXCEPT ![r] = "idle"] /\ rd_doc' = [rd_doc EXCEPT ![r] = NoDoc]
    /\ rd_files' = [rd_files EXCEPT ![r] = {}] /\ rd_page' = [rd_page EXCEPT ![r] = 0]

\* The admin uploads another document. The task it queues is a render that may
\* come at any time.
update_lesson(n) ==
    /\ document.v < MaxDocs
    /\ document' = [v |-> document.v + 1, n |-> n]
    /\ UNCHANGED <<fileVars, renderVars, overlapped, mixed, torn, faults>>

\* A task, a reader or the command loads the lesson; `force` renders whatever
\* the manifest says.
LoadLesson(r, force) ==
    /\ rd_pc[r] = "idle"
    /\ rd_pc' = [rd_pc EXCEPT ![r] = IF force THEN "list" ELSE "ensure"]
    /\ rd_doc' = [rd_doc EXCEPT ![r] = document]
    /\ overlapped' = (overlapped \/ Busy # {})
    /\ mixed' = (mixed \/ \E q \in Busy : rd_doc[q] # document)
    /\ UNCHANGED <<document, fileVars, rd_files, rd_page, torn, faults>>

\* A manifest of the document the caller has loaded spares the render.
ensure_document_pages(r) ==
    /\ rd_pc[r] = "ensure"
    /\ IF manifest = rd_doc[r]
       THEN Finish(r)
       ELSE rd_pc' = [rd_pc EXCEPT ![r] = "list"] /\ UNCHANGED <<rd_doc, rd_files, rd_page>>
    /\ UNCHANGED <<document, fileVars, overlapped, mixed, torn, faults>>

Files ==
    {p \in PageNumbers : page[p] # 0} \cup (IF manifest = NoDoc THEN {} ELSE {Manifest})

\* _wipe_rendered lists the directory once ...
ListFiles(r) ==
    /\ rd_pc[r] = "list"
    /\ rd_pc' = [rd_pc EXCEPT ![r] = IF Files = {} THEN "page" ELSE "wipe"]
    /\ rd_files' = [rd_files EXCEPT ![r] = Files]
    /\ rd_page' = [rd_page EXCEPT ![r] = 1]
    /\ UNCHANGED <<document, fileVars, rd_doc, overlapped, mixed, torn, faults>>

Wiped(r, f) ==
    /\ rd_pc[r] = "wipe" /\ f \in rd_files[r]
    /\ rd_files' = [rd_files EXCEPT ![r] = @ \ {f}]
    /\ rd_pc' = [rd_pc EXCEPT ![r] = IF rd_files[r] = {f} THEN "page" ELSE @]
    /\ UNCHANGED <<document, rd_doc, rd_page, overlapped, mixed>>

\* ... and deletes what it saw, in no order of its own,
_wipe_rendered(r, f) ==
    /\ Wiped(r, f)
    /\ IF f = Manifest
       THEN manifest' = NoDoc /\ UNCHANGED page
       ELSE page' = [page EXCEPT ![f] = 0] /\ UNCHANGED manifest
    /\ UNCHANGED <<torn, faults>>

\* ... passing over a file it cannot delete.
DeleteFails(r, f) ==
    /\ faults < MaxFaults /\ faults' = faults + 1
    /\ Wiped(r, f)
    /\ torn' = TRUE
    /\ UNCHANGED fileVars

\* default_storage.save: a name already taken is left as it is, and the new
\* file gets a name nobody reads.
Saved(old, none, new) == IF old = none THEN new ELSE old

\* Mutant: a render that finds a page already there leaves the rest to whoever
\* saved it.
YieldToOther(r) ==
    /\ rd_pc[r] = "page"
    /\ IF page[rd_page[r]] # 0
       THEN Finish(r) /\ UNCHANGED page
       ELSE /\ page' = [page EXCEPT ![rd_page[r]] = rd_doc[r].v]
            /\ rd_page' = [rd_page EXCEPT ![r] = @ + 1]
            /\ rd_pc' = [rd_pc EXCEPT ![r] = IF rd_page[r] = rd_doc[r].n THEN "manifest" ELSE @]
            /\ UNCHANGED <<rd_doc, rd_files>>
    /\ UNCHANGED <<document, manifest, overlapped, mixed, torn, faults>>

SavePage(r) ==
    /\ rd_pc[r] = "page"
    /\ page' = [page EXCEPT ![rd_page[r]] = Saved(@, 0, rd_doc[r].v)]
    /\ rd_page' = [rd_page EXCEPT ![r] = @ + 1]
    /\ rd_pc' = [rd_pc EXCEPT ![r] = IF rd_page[r] = rd_doc[r].n THEN "manifest" ELSE @]
    /\ UNCHANGED <<document, manifest, rd_doc, rd_files, overlapped, mixed, torn, faults>>

SaveManifest(r) ==
    /\ rd_pc[r] = "manifest"
    /\ manifest' = Saved(manifest, NoDoc, rd_doc[r])
    /\ Finish(r)
    /\ UNCHANGED <<document, page, overlapped, mixed, torn, faults>>

\* The storage refuses a file and the render gives up, or its process dies.
RenderStops(r) ==
    /\ rd_pc[r] # "idle" /\ faults < MaxFaults /\ faults' = faults + 1
    /\ torn' = (torn \/ (rd_pc[r] = "wipe" /\ manifest = rd_doc[r]))
    /\ Finish(r)
    /\ UNCHANGED <<document, fileVars, overlapped, mixed>>

RenderStep(r) ==
    \/ \E force \in BOOLEAN : LoadLesson(r, force)
    \/ ensure_document_pages(r) \/ ListFiles(r)
    \/ \E f \in {Manifest} \cup PageNumbers : _wipe_rendered(r, f) \/ DeleteFails(r, f)
    \/ SavePage(r) \/ SaveManifest(r) \/ RenderStops(r)

PagesNext ==
    \/ \E n \in PageNumbers : update_lesson(n)
    \/ \E r \in Renderers : RenderStep(r)

PagesSpec == PagesInit /\ [][PagesNext]_pagesVars

-----------------------------------------------------------------------------
\* Type invariant of the lesson, the storage and the renders.
PagesTypeOK ==
    /\ document \in Docs /\ manifest \in Docs /\ page \in [PageNumbers -> 0..MaxDocs]
    /\ rd_pc \in [Renderers -> {"idle", "ensure", "list", "wipe", "page", "manifest"}]
    /\ rd_doc \in [Renderers -> Docs]
    /\ rd_files \in [Renderers -> SUBSET ({Manifest} \cup PageNumbers)]
    /\ rd_page \in [Renderers -> 0..MaxPages + 1]
    /\ overlapped \in BOOLEAN /\ mixed \in BOOLEAN /\ torn \in BOOLEAN /\ faults \in 0..MaxFaults

\* Every page the manifest promises is there, and shows the manifest's document.
Complete == \A p \in 1..manifest.n : page[p] = manifest.v

\* _render_and_store survives a process that dies or a storage that fails at any
\* point, because the manifest is written last: as long as renders do not overlap
\* and no wipe leaves a file behind, the manifest that readers of the lesson take
\* for fresh describes pages that are all there and all of the lesson's document.
CrashLeavesNoFalseManifest ==
    /\ ~overlapped /\ ~torn /\ manifest = document
    /\ \A r \in Renderers : rd_pc[r] # "wipe"
    => Complete

\* Renders of one document may overlap in any way (the task, the first readers
\* and the command): none waits for another, yet once all have run to their end
\* the manifest's pages are all there, although each wiped what others had saved.
OverlappingRendersAgree ==
    Busy = {} /\ faults = 0 /\ ~mixed /\ manifest = document => Complete

\* A manifest that readers take for fresh is complete, in both situations.
FreshManifestIsComplete == CrashLeavesNoFalseManifest /\ OverlappingRendersAgree

\* What _wipe_rendered says of a file it cannot delete, "for instance because of
\* a parallel render": the fresh manifest never refers to it. So a manifest of
\* the lesson's document would never name a page of another one.
FreshManifestNamesNoOldPage ==
    manifest = document => \A p \in 1..manifest.n : page[p] \in {0, document.v}
=============================================================================
