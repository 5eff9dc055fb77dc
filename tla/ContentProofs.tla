---------------------------- MODULE ContentProofs ---------------------------
(* Proofs about content that several processes write without a lock:        *)
(* DocumentPages, for any number of renders, pages, uploads and faults, and *)
(* TabyinSync, for any source and any number of runs, changes of the source *)
(* and failed pages.                                                        *)
EXTENDS DocumentPages, TabyinSync, TLAPS

-----------------------------------------------------------------------------
(* The inductive invariant.                                                 *)

\* A version names one document; the manifest and the renders describe ones that
\* were uploaded.
Uploaded(d) == d.v <= document.v /\ (d.v = document.v => d = document)

VersionsNameDocuments ==
    /\ document.v > 0 /\ document.n > 0
    /\ Uploaded(manifest) /\ (manifest.v = 0 => manifest = NoDoc)
    /\ \A r \in Busy :
          /\ Uploaded(rd_doc[r]) /\ rd_doc[r].v > 0 /\ rd_doc[r].n > 0
          /\ manifest.v = rd_doc[r].v => manifest = rd_doc[r]
          /\ \A q \in Busy : rd_doc[q].v = rd_doc[r].v => rd_doc[q] = rd_doc[r]

\* Where a render is; and, as far as renders do not mix, that they are of one
\* document, which no manifest is ahead of.
RendersAgree ==
    /\ \A r \in Renderers :
          /\ rd_pc[r] = "wipe" => rd_page[r] = 1 /\ rd_files[r] # {}
          /\ rd_pc[r] = "page" => rd_page[r] \in 1..rd_doc[r].n
    /\ mixed => overlapped
    /\ ~overlapped => \A q, r \in Busy : q = r
    /\ ~mixed => \A r \in Busy :
          manifest.v <= rd_doc[r].v /\ \A q \in Busy : rd_doc[q] = rd_doc[r]

\* A render on its own wipes whatever there is, then fills an empty directory.
FillsAlone(r) ==
    /\ rd_pc[r] = "wipe" => Files \subseteq rd_files[r]
    /\ rd_pc[r] \in {"page", "manifest"} => manifest = NoDoc
    /\ rd_pc[r] = "page" =>
          \A p \in PageNumbers : page[p] = IF p < rd_page[r] THEN rd_doc[r].v ELSE 0
    /\ rd_pc[r] = "manifest" => \A p \in 1..rd_doc[r].n : page[p] = rd_doc[r].v

AloneIsWhole ==
    ~overlapped /\ ~torn => /\ \A r \in Renderers : FillsAlone(r)
                            /\ CrashLeavesNoFalseManifest

\* Of overlapping renders, one that deletes a page has yet to save it.
WillSave(r, p) == rd_pc[r] \in {"list", "wipe"} \/ (rd_pc[r] = "page" /\ rd_page[r] <= p)
KeptPage(p, v) == page[p] = v \/ \E r \in Renderers : WillSave(r, p)

KeepsTogether(r) ==
    /\ rd_pc[r] \in {"wipe", "page", "manifest"} =>
          \A p \in PageNumbers :
              page[p] \in {0, rd_doc[r].v} \/ (rd_pc[r] = "wipe" /\ p \in rd_files[r])
    /\ rd_pc[r] = "page" => \A p \in 1..rd_doc[r].n : p < rd_page[r] => KeptPage(p, rd_doc[r].v)
    /\ rd_pc[r] = "manifest" => \A p \in 1..rd_doc[r].n : KeptPage(p, rd_doc[r].v)

TogetherIsWhole ==
    ~mixed /\ faults = 0 =>
        /\ \A r \in Renderers : KeepsTogether(r)
        /\ manifest = document => \A p \in 1..document.n : KeptPage(p, document.v)

PagesInv ==
    /\ PagesTypeOK /\ VersionsNameDocuments /\ RendersAgree
    /\ AloneIsWhole /\ TogetherIsWhole

-----------------------------------------------------------------------------
OthersStay(r) ==
    \A q \in Renderers \ {r} :
        /\ rd_pc'[q] = rd_pc[q] /\ rd_doc'[q] = rd_doc[q]
        /\ rd_files'[q] = rd_files[q] /\ rd_page'[q] = rd_page[q]

LEMMA FinishIdles ==
    ASSUME PagesTypeOK, NEW r \in Renderers, Finish(r)
    PROVE  /\ OthersStay(r) /\ rd_pc'[r] = "idle"
           /\ rd_pc' \in [Renderers -> {"idle", "ensure", "list", "wipe", "page", "manifest"}]
           /\ rd_doc' \in [Renderers -> Docs]
           /\ rd_files' \in [Renderers -> SUBSET ({Manifest} \cup PageNumbers)]
           /\ rd_page' \in [Renderers -> 0..MaxPages + 1]
<1>1. NoDoc \in Docs /\ 0 \in 0..MaxPages + 1
  BY PagesAssumption DEF NoDoc, Docs
<1> QED
  BY Zenon, <1>1 DEF PagesTypeOK, Finish, OthersStay

LEMMA VersionsAreNumbers ==
    ASSUME PagesTypeOK
    PROVE  /\ document.v \in Nat /\ manifest.v \in Nat /\ \A r \in Busy : rd_doc[r].v \in Nat
           /\ NoDoc \in Docs /\ NoDoc.v = 0
BY PagesAssumption DEF PagesTypeOK, Docs, Busy, NoDoc

LEMMA PagesInitially == PagesInit => PagesInv
<1> SUFFICES ASSUME PagesInit PROVE PagesInv
  BY Zenon
<1>1. PagesTypeOK
  <2>1. document \in Docs /\ NoDoc \in Docs
    BY PagesAssumption DEF PagesInit, Docs, NoDoc, PageNumbers
  <2>2. page \in [PageNumbers -> 0..MaxDocs] /\ rd_page \in [Renderers -> 0..MaxPages + 1]
    BY PagesAssumption DEF PagesInit
  <2>3. rd_files \in [Renderers -> SUBSET ({Manifest} \cup PageNumbers)] /\ faults \in 0..MaxFaults
    BY PagesAssumption DEF PagesInit
  <2> QED
    BY Zenon, <2>1, <2>2, <2>3 DEF PagesInit, PagesTypeOK
<1>2. document.v = 1 /\ document.n > 0 /\ manifest = NoDoc /\ NoDoc.v = 0 /\ Busy = {}
  BY PagesAssumption DEF PagesInit, PageNumbers, Busy, NoDoc
<1>3. VersionsNameDocuments
  BY <1>2 DEF VersionsNameDocuments, Uploaded
<1>4. RendersAgree
  BY Zenon, <1>2 DEF RendersAgree, PagesInit
<1>5. manifest # document
  BY <1>2
<1>6. AloneIsWhole
  BY Zenon, <1>5 DEF AloneIsWhole, FillsAlone, CrashLeavesNoFalseManifest, PagesInit
<1>7. TogetherIsWhole
  BY Zenon, <1>5 DEF TogetherIsWhole, KeepsTogether, PagesInit
<1> QED
  BY Zenon, <1>1, <1>3, <1>4, <1>6, <1>7 DEF PagesInv

\* What the manifest and the renders describe, when a render goes on or ends.
LEMMA DescribedStay ==
    ASSUME PagesInv, NEW r \in Renderers, OthersStay(r), document' = document,
           r \in Busy, r \in Busy' => rd_doc'[r] = rd_doc[r],
           manifest' \in {manifest, NoDoc, rd_doc[r]}
    PROVE  VersionsNameDocuments'
<1>1. /\ Busy' \subseteq Busy /\ \A q \in Busy' : rd_doc'[q] = rd_doc[q]
      /\ NoDoc.v = 0
  BY Zenon DEF Busy, OthersStay, NoDoc
<1>2. VersionsNameDocuments
  BY Zenon DEF PagesInv
<1>3. Uploaded(manifest') /\ (manifest'.v = 0 => manifest' = NoDoc)
  <2>1. Uploaded(NoDoc)
    BY <1>1, <1>2, VersionsAreNumbers DEF PagesInv, VersionsNameDocuments, Uploaded
  <2>2. Uploaded(rd_doc[r]) /\ rd_doc[r].v # 0
    BY <1>2, VersionsAreNumbers DEF PagesInv, VersionsNameDocuments
  <2> QED
    BY Zenon, <1>2, <2>1, <2>2 DEF VersionsNameDocuments
<1>4. \A q \in Busy : manifest'.v = rd_doc[q].v => manifest' = rd_doc[q]
  BY <1>1, <1>2 DEF VersionsNameDocuments
<1> QED
  BY <1>1, <1>2, <1>3, <1>4 DEF VersionsNameDocuments, Uploaded

\* Where the renders are, in the same steps.
LEMMA AgreementStays ==
    ASSUME PagesInv, NEW r \in Renderers, OthersStay(r), UNCHANGED <<overlapped, mixed>>,
           r \in Busy, r \in Busy' => rd_doc'[r] = rd_doc[r],
           manifest' \in {manifest, NoDoc, rd_doc[r]},
           rd_pc'[r] = "wipe" => rd_page'[r] = 1 /\ rd_files'[r] # {},
           rd_pc'[r] = "page" => rd_page'[r] \in 1..rd_doc[r].n
    PROVE  RendersAgree'
<1>1. /\ Busy' \subseteq Busy /\ \A q \in Busy' : rd_doc'[q] = rd_doc[q]
      /\ NoDoc.v = 0
  BY Zenon DEF Busy, OthersStay, NoDoc
<1>2. \A q \in Busy : rd_doc[q].v \in Nat
  BY DEF PagesInv, PagesTypeOK, Docs, Busy
<1>3. ~mixed => \A q \in Busy : manifest'.v <= rd_doc[q].v
  BY <1>1, <1>2 DEF PagesInv, RendersAgree
<1>4. \A q \in Renderers :
        /\ rd_pc'[q] = "wipe" => rd_page'[q] = 1 /\ rd_files'[q] # {}
        /\ rd_pc'[q] = "page" => rd_page'[q] \in 1..rd_doc'[q].n
  BY Zenon DEF PagesInv, RendersAgree, OthersStay, Busy
<1> QED
  BY <1>1, <1>3, <1>4 DEF PagesInv, RendersAgree

\* A render on its own has only itself to answer for.
LEMMA AloneStep ==
    ASSUME PagesInv, NEW r \in Renderers, OthersStay(r), r \in Busy,
           UNCHANGED <<document, overlapped>>,
           ~overlapped /\ ~torn' => ~torn /\ FillsAlone(r)',
           ~overlapped /\ ~torn' /\ manifest' = document /\ rd_pc'[r] # "wipe" => Complete'
    PROVE  AloneIsWhole'
<1> SUFFICES ASSUME ~overlapped, ~torn'
             PROVE  (\A q \in Renderers : FillsAlone(q)') /\ CrashLeavesNoFalseManifest'
  BY Zenon DEF AloneIsWhole
<1>1. \A q \in Renderers \ {r} : rd_pc'[q] = "idle"
  BY Zenon DEF PagesInv, RendersAgree, Busy, OthersStay
<1>2. \A q \in Renderers \ {r} : FillsAlone(q)'
  BY Zenon, <1>1 DEF FillsAlone
<1>3. CrashLeavesNoFalseManifest'
  BY Zenon DEF CrashLeavesNoFalseManifest
<1> QED
  BY Zenon, <1>2, <1>3

\* Renders of one document keep what the others count on.
LEMMA TogetherStep ==
    ASSUME PagesInv, NEW r \in Renderers, OthersStay(r), UNCHANGED <<document, mixed, faults>>,
           ~mixed, faults = 0, KeepsTogether(r)',
           \A q \in Busy : \A p \in PageNumbers : page'[p] \in {page[p], 0, rd_doc[q].v},
           \A q \in Busy : \A p \in 1..rd_doc[q].n, v \in {rd_doc[q].v} :
               KeptPage(p, v) => KeptPage(p, v)',
           manifest' = document => \A p \in 1..document.n : KeptPage(p, document.v)'
    PROVE  TogetherIsWhole'
<1>1. \A q \in Renderers : KeepsTogether(q)
  BY Zenon DEF PagesInv, TogetherIsWhole
<1>2. ASSUME NEW q \in Renderers \ {r} PROVE KeepsTogether(q)'
  <2>1. /\ rd_pc'[q] = rd_pc[q] /\ rd_doc'[q] = rd_doc[q]
        /\ rd_files'[q] = rd_files[q] /\ rd_page'[q] = rd_page[q]
    BY Zenon DEF OthersStay
  <2>2. CASE rd_pc[q] = "idle"
    BY Zenon, <2>1, <2>2 DEF KeepsTogether
  <2>3. CASE q \in Busy
    <3>1. ASSUME NEW p \in 1..rd_doc[q].n, NEW v \in {rd_doc[q].v}, KeptPage(p, v)
          PROVE  KeptPage(p, v)'
      BY Zenon, <2>3, <3>1
    <3> QED
      BY <1>1, <2>1, <2>3, <3>1 DEF KeepsTogether, KeptPage, WillSave
  <2> QED
    BY Zenon, <2>2, <2>3 DEF Busy
<1> QED
  BY Zenon, <1>2 DEF TogetherIsWhole, KeptPage

-----------------------------------------------------------------------------
LEMMA UploadStep ==
    ASSUME PagesInv, NEW n \in PageNumbers, update_lesson(n)
    PROVE  PagesInv'
<1> USE DEF fileVars, renderVars
<1>1. /\ document' = [v |-> document.v + 1, n |-> n] /\ document.v + 1 \in 0..MaxDocs
      /\ UNCHANGED <<manifest, page, rd_pc, rd_doc, rd_files, rd_page>>
      /\ UNCHANGED <<overlapped, mixed, torn, faults>>
  BY PagesAssumption DEF update_lesson, PagesInv, PagesTypeOK, Docs
<1>2. PagesTypeOK'
  BY <1>1, PagesAssumption DEF PagesInv, PagesTypeOK, Docs, PageNumbers
<1>3. Busy' = Busy /\ document'.v = document.v + 1 /\ document'.n = n /\ n > 0
  BY <1>1 DEF Busy, PageNumbers
<1>4. /\ document.v \in Nat /\ manifest.v \in Nat /\ \A r \in Busy : rd_doc[r].v \in Nat
  BY DEF PagesInv, PagesTypeOK, Docs, Busy
<1>5. VersionsNameDocuments'
  BY <1>1, <1>3, <1>4 DEF PagesInv, VersionsNameDocuments, Uploaded
<1>6. manifest' # document'
  BY <1>1, <1>3, <1>4 DEF PagesInv, VersionsNameDocuments, Uploaded
<1>7. RendersAgree'
  BY Zenon, <1>1, <1>3 DEF PagesInv, RendersAgree
<1>8. AloneIsWhole'
  BY Zenon, <1>1, <1>6 DEF PagesInv, AloneIsWhole, FillsAlone, CrashLeavesNoFalseManifest, Files
<1>9. TogetherIsWhole'
  BY Zenon, <1>1, <1>6 DEF PagesInv, TogetherIsWhole, KeepsTogether, KeptPage, WillSave
<1> QED
  BY Zenon, <1>2, <1>5, <1>7, <1>8, <1>9 DEF PagesInv

LEMMA LoadStep ==
    ASSUME PagesInv, NEW r \in Renderers, NEW force \in BOOLEAN, LoadLesson(r, force)
    PROVE  PagesInv'
<1> USE DEF fileVars
<1>1. /\ rd_pc[r] = "idle" /\ rd_pc'[r] \in {"ensure", "list"} /\ rd_doc'[r] = document
      /\ OthersStay(r) /\ UNCHANGED <<document, manifest, page, torn, faults>>
  BY Zenon DEF LoadLesson, PagesInv, PagesTypeOK, OthersStay
<1>2. overlapped' = (overlapped \/ Busy # {})
      /\ mixed' = (mixed \/ \E q \in Busy : rd_doc[q] # document)
  BY Zenon DEF LoadLesson
<1>3. overlapped' \in BOOLEAN /\ mixed' \in BOOLEAN
  BY <1>2, Zenon
<1>4. PagesTypeOK'
  BY Zenon, <1>3 DEF LoadLesson, PagesInv, PagesTypeOK
<1>5. Busy' = Busy \cup {r} /\ r \notin Busy
  BY Zenon, <1>1 DEF Busy, OthersStay
<1>6. \A q \in Busy : rd_doc'[q] = rd_doc[q]
  BY Zenon, <1>1, <1>5 DEF OthersStay, Busy
<1>7. VersionsNameDocuments'
  <2>1. Uploaded(document) /\ document.v > 0 /\ document.n > 0
    BY VersionsAreNumbers DEF PagesInv, VersionsNameDocuments, Uploaded
  <2> QED
    BY <1>1, <1>5, <1>6, <2>1 DEF PagesInv, VersionsNameDocuments, Uploaded
<1>8. ~overlapped' => ~overlapped /\ Busy = {}
  BY <1>2, Zenon
<1>9. ~mixed' => ~mixed /\ \A q \in Busy : rd_doc[q] = document
  BY <1>2, Zenon
<1>10. mixed' => overlapped'
  BY <1>2, Zenon DEF PagesInv, RendersAgree
<1>11. RendersAgree'
  <2>1. \A q \in Renderers :
          /\ rd_pc'[q] = "wipe" => rd_page'[q] = 1 /\ rd_files'[q] # {}
          /\ rd_pc'[q] = "page" => rd_page'[q] \in 1..rd_doc'[q].n
    BY Zenon, <1>1 DEF PagesInv, RendersAgree, OthersStay
  <2>2. ~mixed' => \A p \in Busy' :
          manifest'.v <= rd_doc'[p].v /\ \A q \in Busy' : rd_doc'[q] = rd_doc'[p]
    BY Zenon, <1>1, <1>5, <1>6, <1>9 DEF PagesInv, VersionsNameDocuments, Uploaded
  <2> QED
    BY Zenon, <1>5, <1>8, <1>10, <2>1, <2>2 DEF RendersAgree
<1>12. AloneIsWhole'
  <2> SUFFICES ASSUME ~overlapped', ~torn'
               PROVE  (\A q \in Renderers : FillsAlone(q)') /\ CrashLeavesNoFalseManifest'
    BY Zenon DEF AloneIsWhole
  <2>1. \A q \in Renderers : rd_pc[q] = "idle" /\ rd_pc'[q] \in {"idle", "ensure", "list"}
    BY Zenon, <1>1, <1>8 DEF Busy, OthersStay
  <2>2. CrashLeavesNoFalseManifest
    BY Zenon, <1>1, <1>8 DEF PagesInv, AloneIsWhole
  <2> QED
    BY Zenon, <1>1, <1>8, <2>1, <2>2 DEF FillsAlone, CrashLeavesNoFalseManifest, Complete
<1>13. TogetherIsWhole'
  <2> SUFFICES ASSUME ~mixed', faults' = 0 PROVE TogetherIsWhole'
    BY Zenon DEF TogetherIsWhole
  <2>1. TogetherIsWhole /\ ~mixed /\ faults = 0
    BY Zenon, <1>1, <1>9 DEF PagesInv
  <2>2. ASSUME NEW p, NEW v, KeptPage(p, v) PROVE KeptPage(p, v)'
    BY Zenon, <1>1, <2>2 DEF KeptPage, WillSave, OthersStay
  <2>3. ASSUME NEW q \in Renderers PROVE KeepsTogether(q)'
    BY <1>1, <2>1, <2>2 DEF TogetherIsWhole, KeepsTogether, KeptPage, WillSave, OthersStay
  <2>4. manifest' = document => \A p \in 1..document.n : KeptPage(p, document.v)'
    BY Zenon, <1>1, <2>1, <2>2 DEF TogetherIsWhole
  <2> QED
    BY Zenon, <1>1, <2>3, <2>4 DEF TogetherIsWhole, KeptPage, WillSave
<1> QED
  BY Zenon, <1>4, <1>7, <1>11, <1>12, <1>13 DEF PagesInv

\* A render that ends without a trace on the files: the manifest was fresh, or
\* the render stops.
LEMMA EnsureStep ==
    ASSUME PagesInv, NEW r \in Renderers, ensure_document_pages(r)
    PROVE  PagesInv'
<1> USE DEF fileVars
<1>1. /\ rd_pc[r] = "ensure" /\ rd_pc'[r] \in {"idle", "list"} /\ OthersStay(r)
      /\ rd_pc'[r] = "list" => rd_doc'[r] = rd_doc[r]
      /\ UNCHANGED <<document, manifest, page, overlapped, mixed, torn, faults>>
  BY Zenon, FinishIdles DEF ensure_document_pages, PagesInv, PagesTypeOK, OthersStay
<1>2. PagesTypeOK'
  <2>1. CASE Finish(r)
    BY Zenon, <1>1, <2>1, FinishIdles DEF PagesInv, PagesTypeOK
  <2>2. CASE /\ rd_pc' = [rd_pc EXCEPT ![r] = "list"]
             /\ UNCHANGED <<rd_doc, rd_files, rd_page>>
    BY Zenon, <1>1, <2>2 DEF PagesInv, PagesTypeOK
  <2> QED
    BY Zenon, <2>1, <2>2 DEF ensure_document_pages
<1>3. r \in Busy /\ (r \in Busy' => rd_doc'[r] = rd_doc[r])
  BY Zenon, <1>1 DEF Busy
<1>4. VersionsNameDocuments'
  BY Zenon, <1>1, <1>3, DescribedStay
<1>5. RendersAgree'
  BY Zenon, <1>1, <1>3, AgreementStays
<1>6. AloneIsWhole'
  <2>1. FillsAlone(r)'
    BY Zenon, <1>1 DEF FillsAlone
  <2>2. ~overlapped /\ ~torn /\ manifest = document => Complete
    <3> SUFFICES ASSUME ~overlapped, ~torn, manifest = document PROVE Complete
      BY Zenon
    <3>1. \A q \in Renderers : rd_pc[q] # "wipe"
      BY <1>1 DEF PagesInv, RendersAgree, Busy
    <3> QED
      BY Zenon, <3>1 DEF PagesInv, AloneIsWhole, CrashLeavesNoFalseManifest
  <2>3. Complete => Complete'
    BY Zenon, <1>1 DEF Complete
  <2> QED
    BY Zenon, <1>1, <1>3, <2>1, <2>2, <2>3, AloneStep
<1>7. TogetherIsWhole'
  <2> SUFFICES ASSUME ~mixed, faults = 0 PROVE TogetherIsWhole'
    BY Zenon, <1>1 DEF TogetherIsWhole
  <2>1. ASSUME NEW p, NEW v, KeptPage(p, v) PROVE KeptPage(p, v)'
    BY Zenon, <1>1, <2>1 DEF KeptPage, WillSave, OthersStay
  <2>2. KeepsTogether(r)'
    BY Zenon, <1>1 DEF KeepsTogether
  <2>3. manifest' = document => \A p \in 1..document.n : KeptPage(p, document.v)'
    BY Zenon, <1>1, <2>1 DEF PagesInv, TogetherIsWhole
  <2> QED
    BY Zenon, <1>1, <2>1, <2>2, <2>3, TogetherStep
<1> QED
  BY Zenon, <1>2, <1>4, <1>5, <1>6, <1>7 DEF PagesInv

LEMMA ListStep ==
    ASSUME PagesInv, NEW r \in Renderers, ListFiles(r)
    PROVE  PagesInv'
<1> USE DEF fileVars
<1>1. /\ rd_pc[r] = "list" /\ OthersStay(r) /\ rd_files'[r] = Files /\ rd_page'[r] = 1
      /\ rd_pc'[r] = (IF Files = {} THEN "page" ELSE "wipe") /\ rd_doc' = rd_doc
      /\ UNCHANGED <<document, manifest, page, overlapped, mixed, torn, faults>>
  BY Zenon DEF ListFiles, PagesInv, PagesTypeOK, OthersStay
<1>2. PagesTypeOK'
  <2>1. Files \in SUBSET ({Manifest} \cup PageNumbers) /\ 1 \in 0..MaxPages + 1
    BY PagesAssumption DEF Files
  <2> QED
    BY Zenon, <1>1, <2>1 DEF ListFiles, PagesInv, PagesTypeOK
<1>3. r \in Busy /\ r \in Busy'
  BY Zenon, <1>1 DEF Busy
<1>4. VersionsNameDocuments'
  BY Zenon, <1>1, <1>3, DescribedStay
<1>5. rd_doc[r].n \in Nat /\ rd_doc[r].n > 0 /\ document # NoDoc
  BY <1>3 DEF PagesInv, PagesTypeOK, Docs, Busy, VersionsNameDocuments, NoDoc
<1>6. RendersAgree'
  BY <1>1, <1>3, <1>5, AgreementStays
<1>7. \A p \in PageNumbers : page[p] # 0 => p \in Files
  BY Zenon DEF Files
<1>8. Files = {} => manifest = NoDoc
  BY Zenon DEF Files
<1>9. AloneIsWhole'
  <2>1. Files' = Files
    BY Zenon, <1>1 DEF Files
  <2>2. FillsAlone(r)'
    BY <1>1, <1>7, <1>8, <2>1 DEF FillsAlone, PageNumbers
  <2>3. manifest' = document => rd_pc'[r] = "wipe"
    BY Zenon, <1>1, <1>5, <1>8
  <2> QED
    BY Zenon, <1>1, <1>3, <2>2, <2>3, AloneStep
<1>10. TogetherIsWhole'
  <2> SUFFICES ASSUME ~mixed, faults = 0 PROVE TogetherIsWhole'
    BY Zenon, <1>1 DEF TogetherIsWhole
  <2>1. ASSUME NEW p \in PageNumbers PROVE WillSave(r, p)'
    BY <1>1 DEF WillSave, PageNumbers
  <2>2. ASSUME NEW p \in PageNumbers, NEW v PROVE KeptPage(p, v)'
    BY Zenon, <2>1 DEF KeptPage
  <2>3. KeepsTogether(r)'
    BY <1>1, <1>7 DEF KeepsTogether, PageNumbers
  <2>4. document.n \in 0..MaxPages /\ \A q \in Busy : rd_doc[q].n \in 0..MaxPages
    BY Zenon DEF PagesInv, PagesTypeOK, Docs, Busy
  <2>5. manifest' = document => \A p \in 1..document.n : KeptPage(p, document.v)'
    BY <2>2, <2>4, PagesAssumption DEF PageNumbers
  <2>6. \A q \in Busy : \A p \in 1..rd_doc[q].n, v \in {rd_doc[q].v} : KeptPage(p, v) => KeptPage(p, v)'
    BY <2>2, <2>4, PagesAssumption DEF PageNumbers
  <2> QED
    BY Zenon, <1>1, <2>3, <2>5, <2>6, TogetherStep
<1> QED
  BY <1>2, <1>4, <1>6, <1>9, <1>10 DEF PagesInv

\* The state of the render in both outcomes of a deletion.
LEMMA WipedMoves ==
    ASSUME PagesInv, NEW r \in Renderers, NEW f \in {Manifest} \cup PageNumbers, Wiped(r, f)
    PROVE  /\ rd_pc[r] = "wipe" /\ OthersStay(r) /\ rd_files'[r] = rd_files[r] \ {f}
           /\ f \in rd_files[r] /\ rd_pc'[r] \in {"wipe", "page"}
           /\ rd_pc'[r] = "page" <=> rd_files'[r] = {}
           /\ rd_page'[r] = 1 /\ rd_page[r] = 1 /\ rd_doc' = rd_doc
           /\ r \in Busy /\ r \in Busy' /\ rd_doc[r].n \in Nat /\ rd_doc[r].n > 0
           /\ document # NoDoc
           /\ UNCHANGED <<document, overlapped, mixed>>
           /\ rd_pc' \in [Renderers -> {"idle", "ensure", "list", "wipe", "page", "manifest"}]
           /\ rd_files' \in [Renderers -> SUBSET ({Manifest} \cup PageNumbers)]
           /\ rd_page' = rd_page
<1>1. /\ rd_pc[r] = "wipe" /\ OthersStay(r) /\ rd_files'[r] = rd_files[r] \ {f}
      /\ f \in rd_files[r] /\ rd_page' = rd_page /\ rd_doc' = rd_doc
      /\ rd_pc'[r] = (IF rd_files[r] = {f} THEN "page" ELSE "wipe")
      /\ UNCHANGED <<document, overlapped, mixed>>
      /\ rd_pc' \in [Renderers -> {"idle", "ensure", "list", "wipe", "page", "manifest"}]
      /\ rd_files' \in [Renderers -> SUBSET ({Manifest} \cup PageNumbers)]
  BY Zenon DEF Wiped, PagesInv, PagesTypeOK, OthersStay
<1>2. r \in Busy /\ r \in Busy'
  BY Zenon, <1>1 DEF Busy
<1>3. rd_doc[r].n \in Nat /\ rd_doc[r].n > 0 /\ document # NoDoc
  BY <1>2 DEF PagesInv, PagesTypeOK, Docs, Busy, VersionsNameDocuments, NoDoc
<1>4. rd_page[r] = 1
  BY Zenon, <1>1 DEF PagesInv, RendersAgree
<1>5. rd_pc'[r] = "page" <=> rd_files'[r] = {}
  BY Zenon, <1>1
<1> QED
  BY Zenon, <1>1, <1>2, <1>3, <1>4, <1>5

LEMMA WipeStep ==
    ASSUME PagesInv, NEW r \in Renderers, NEW f \in {Manifest} \cup PageNumbers,
           _wipe_rendered(r, f)
    PROVE  PagesInv'
<1>1. Wiped(r, f) /\ UNCHANGED <<torn, faults>>
  BY Zenon DEF _wipe_rendered
<1>2. /\ manifest' = IF f = Manifest THEN NoDoc ELSE manifest
      /\ page' \in [PageNumbers -> 0..MaxDocs]
      /\ \A p \in PageNumbers : page'[p] = IF p = f THEN 0 ELSE page[p]
  BY PagesAssumption DEF _wipe_rendered, PagesInv, PagesTypeOK, Manifest, PageNumbers
<1>3. /\ rd_pc[r] = "wipe" /\ OthersStay(r) /\ rd_files'[r] = rd_files[r] \ {f}
      /\ f \in rd_files[r] /\ rd_pc'[r] \in {"wipe", "page"}
      /\ rd_pc'[r] = "page" <=> rd_files'[r] = {}
      /\ rd_page'[r] = 1 /\ rd_page[r] = 1 /\ rd_doc' = rd_doc
      /\ r \in Busy /\ r \in Busy' /\ rd_doc[r].n \in Nat /\ rd_doc[r].n > 0
      /\ document # NoDoc /\ UNCHANGED <<document, overlapped, mixed>>
  BY Zenon, <1>1, WipedMoves
<1>4. PagesTypeOK'
  <2>1. manifest' \in Docs
    BY Zenon, <1>2, VersionsAreNumbers DEF PagesInv, PagesTypeOK
  <2> QED
    BY Zenon, <1>1, <1>2, <1>3, <2>1, WipedMoves DEF PagesInv, PagesTypeOK
<1>5. VersionsNameDocuments'
  BY Zenon, <1>2, <1>3, DescribedStay
<1>6. RendersAgree'
  BY <1>2, <1>3, AgreementStays
<1>7. AloneIsWhole'
  <2>1. ASSUME ~overlapped, ~torn PROVE FillsAlone(r)'
    <3>1. Files \subseteq rd_files[r]
      BY Zenon, <1>3, <2>1 DEF PagesInv, AloneIsWhole, FillsAlone
    <3>2. Files' \subseteq rd_files'[r]
      BY Zenon, <1>2, <1>3, <3>1 DEF Files, Manifest, PageNumbers
    <3>3. rd_pc'[r] = "page" => manifest' = NoDoc /\ \A p \in PageNumbers : page'[p] = 0
      BY Zenon, <1>3, <3>2 DEF Files
    <3> QED
      BY <1>3, <3>2, <3>3 DEF FillsAlone, PageNumbers
  <2>2. ASSUME ~overlapped, ~torn, rd_pc'[r] # "wipe" PROVE manifest' # document
    BY Zenon, <1>3, <2>1, <2>2 DEF FillsAlone
  <2> QED
    BY Zenon, <1>1, <1>3, <2>1, <2>2, AloneStep
<1>8. TogetherIsWhole'
  <2> SUFFICES ASSUME ~mixed, faults = 0 PROVE TogetherIsWhole'
    BY Zenon, <1>1, <1>3 DEF TogetherIsWhole
  <2>1. ASSUME NEW p \in PageNumbers PROVE WillSave(r, p)'
    BY <1>3 DEF WillSave, PageNumbers
  <2>2. ASSUME NEW p \in PageNumbers, NEW v PROVE KeptPage(p, v)'
    BY Zenon, <2>1 DEF KeptPage
  <2>3. KeepsTogether(r)'
    <3>1. \A p \in PageNumbers : page[p] \in {0, rd_doc[r].v} \/ p \in rd_files[r]
      BY Zenon, <1>3 DEF PagesInv, TogetherIsWhole, KeepsTogether
    <3> QED
      BY <1>2, <1>3, <3>1 DEF KeepsTogether, PageNumbers
  <2>4. document.n \in 0..MaxPages /\ \A q \in Busy : rd_doc[q].n \in 0..MaxPages
    BY Zenon DEF PagesInv, PagesTypeOK, Docs, Busy
  <2>5. manifest' = document => \A p \in 1..document.n : KeptPage(p, document.v)'
    BY <2>2, <2>4, PagesAssumption DEF PageNumbers
  <2>6. \A q \in Busy : \A p \in 1..rd_doc[q].n, v \in {rd_doc[q].v} : KeptPage(p, v) => KeptPage(p, v)'
    BY <2>2, <2>4, PagesAssumption DEF PageNumbers
  <2>7. \A q \in Busy : \A p \in PageNumbers : page'[p] \in {page[p], 0, rd_doc[q].v}
    BY Zenon, <1>2
  <2> QED
    BY Zenon, <1>1, <1>3, <2>3, <2>5, <2>6, <2>7, TogetherStep
<1> QED
  BY Zenon, <1>4, <1>5, <1>6, <1>7, <1>8 DEF PagesInv

\* A storage error is a fault, and the wipe is torn.
LEMMA DeleteFailsStep ==
    ASSUME PagesInv, NEW r \in Renderers, NEW f \in {Manifest} \cup PageNumbers,
           DeleteFails(r, f)
    PROVE  PagesInv'
<1>1. Wiped(r, f) /\ torn' = TRUE /\ faults' = faults + 1 /\ faults < MaxFaults
      /\ UNCHANGED <<manifest, page>>
  BY Zenon DEF DeleteFails, fileVars
<1>2. faults' \in 0..MaxFaults /\ faults' # 0
  BY <1>1, PagesAssumption DEF PagesInv, PagesTypeOK
<1>3. PagesTypeOK'
  BY Zenon, <1>1, <1>2, WipedMoves DEF PagesInv, PagesTypeOK
<1>4. VersionsNameDocuments'
  BY Zenon, <1>1, WipedMoves, DescribedStay
<1>5. RendersAgree'
  BY <1>1, WipedMoves, AgreementStays
<1> QED
  BY Zenon, <1>1, <1>2, <1>3, <1>4, <1>5 DEF PagesInv, AloneIsWhole, TogetherIsWhole

LEMMA SavePageStep ==
    ASSUME PagesInv, NEW r \in Renderers, SavePage(r)
    PROVE  PagesInv'
<1> DEFINE at == rd_page[r]
           d == rd_doc[r]
<1>1. r \in Busy /\ at \in 1..d.n /\ d.n \in 1..MaxPages /\ d.v \in 1..MaxDocs /\ d \in Docs
  BY PagesAssumption
  DEF SavePage, PagesInv, PagesTypeOK, Docs, RendersAgree, VersionsNameDocuments, Busy
<1>2. /\ rd_pc[r] = "page" /\ OthersStay(r) /\ rd_page'[r] = at + 1 /\ rd_doc' = rd_doc
      /\ rd_pc'[r] = (IF at = d.n THEN "manifest" ELSE "page")
      /\ page'[at] = Saved(page[at], 0, d.v)
      /\ \A p \in PageNumbers : p # at => page'[p] = page[p]
      /\ UNCHANGED <<document, manifest, overlapped, mixed, torn, faults>>
  BY <1>1, PagesAssumption DEF SavePage, PagesInv, PagesTypeOK, OthersStay, PageNumbers
<1>3. PagesTypeOK'
  <2>1. Saved(page[at], 0, d.v) \in 0..MaxDocs /\ at + 1 \in 0..MaxPages + 1
    BY <1>1, PagesAssumption DEF Saved, PagesInv, PagesTypeOK, PageNumbers
  <2> QED
    BY Zenon, <1>2, <2>1 DEF SavePage, PagesInv, PagesTypeOK
<1>4. r \in Busy'
  BY Zenon, <1>2 DEF Busy
<1> HIDE DEF at, d
<1>5. VersionsNameDocuments'
  BY Zenon, <1>1, <1>2, DescribedStay DEF d
<1>6. RendersAgree'
  <2>1. rd_pc'[r] = "page" => rd_page'[r] \in 1..d.n
    BY <1>1, <1>2, PagesAssumption
  <2>2. rd_pc'[r] # "wipe"
    BY Zenon, <1>2
  <2> QED
    BY Zenon, <1>1, <1>2, <2>1, <2>2, AgreementStays DEF d
<1>7. AloneIsWhole'
  <2>1. ASSUME ~overlapped, ~torn
        PROVE  FillsAlone(r) /\ manifest = NoDoc
    BY Zenon, <1>2, <2>1 DEF PagesInv, AloneIsWhole, FillsAlone
  <2>2. ASSUME ~overlapped, ~torn, NEW p \in PageNumbers
        PROVE  page'[p] = IF p < at + 1 THEN d.v ELSE 0
    <3>1. page[p] = IF p < at THEN d.v ELSE 0
      BY Zenon, <1>2, <2>1, <2>2 DEF FillsAlone, at, d
    <3> QED
      BY <1>1, <1>2, <3>1, PagesAssumption DEF Saved, PageNumbers
  <2>3. ASSUME ~overlapped, ~torn PROVE FillsAlone(r)'
    <3>1. \A p \in 1..d.n : p \in PageNumbers /\ p < d.n + 1
      BY <1>1, PagesAssumption DEF PageNumbers
    <3> QED
      BY Zenon, <1>2, <2>1, <2>2, <2>3, <3>1 DEF FillsAlone, d
  <2>4. document # NoDoc
    BY DEF PagesInv, VersionsNameDocuments, NoDoc
  <2> QED
    BY Zenon, <1>1, <1>2, <2>1, <2>3, <2>4, AloneStep
<1>8. TogetherIsWhole'
  <2> SUFFICES ASSUME ~mixed, faults = 0 PROVE TogetherIsWhole'
    BY Zenon, <1>2 DEF TogetherIsWhole
  <2>1. KeepsTogether(r) /\ \A q \in Busy : rd_doc[q] = d
    BY Zenon, <1>1 DEF PagesInv, TogetherIsWhole, RendersAgree, Busy, d
  <2>2. \A p \in PageNumbers : page[p] \in {0, d.v}
    BY Zenon, <1>2, <2>1 DEF KeepsTogether, d
  <2>3. page'[at] = d.v /\ at \in PageNumbers
    BY <1>1, <1>2, <2>2, PagesAssumption DEF Saved, PageNumbers
  <2>4. ASSUME NEW p \in 1..d.n, NEW v, v = d.v, KeptPage(p, v) PROVE KeptPage(p, v)'
    <3>1. CASE p = at
      BY Zenon, <2>3, <2>4, <3>1 DEF KeptPage
    <3>2. CASE p # at
      <4>1. p \in PageNumbers
        BY <1>1, PagesAssumption DEF PageNumbers
      <4>2. WillSave(r, p) => WillSave(r, p)'
        BY <1>1, <1>2, <3>2, PagesAssumption DEF WillSave, at
      <4>3. \A q \in Renderers \ {r} : WillSave(q, p) => WillSave(q, p)'
        BY Zenon, <1>2 DEF OthersStay, WillSave
      <4> QED
        BY Zenon, <1>2, <2>4, <3>2, <4>1, <4>2, <4>3 DEF KeptPage
    <3> QED
      BY Zenon, <3>1, <3>2
  <2>5. \A p \in PageNumbers : page'[p] \in {0, d.v}
    BY Zenon, <1>2, <2>2, <2>3
  <2>6. ASSUME NEW p \in 1..d.n, p < at + 1, NEW v, v = d.v PROVE KeptPage(p, v)'
    <3>1. CASE p = at
      BY Zenon, <2>3, <2>6, <3>1 DEF KeptPage
    <3>2. CASE p < at
      <4>1. KeptPage(p, v)
        BY Zenon, <1>2, <2>1, <2>6, <3>2 DEF KeepsTogether, at, d
      <4> QED
        BY Zenon, <2>4, <2>6, <4>1
    <3> QED
      BY <1>1, <2>6, <3>1, <3>2, PagesAssumption
  <2>7. KeepsTogether(r)'
    <3>1. \A p \in 1..d.n : at = d.n => p < at + 1
      BY <1>1, PagesAssumption
    <3>2. rd_doc'[r] = d /\ rd_page'[r] = at + 1
      BY Zenon, <1>2 DEF d
    <3> QED
      BY Zenon, <1>2, <2>5, <2>6, <3>1, <3>2 DEF KeepsTogether, KeptPage, WillSave
  <2>8. manifest' = document => \A p \in 1..document.n : KeptPage(p, document.v)'
    <3> SUFFICES ASSUME manifest = document, NEW p \in 1..document.n
                 PROVE  KeptPage(p, document.v)'
      BY Zenon, <1>2
    <3>1. document = d
      <4>1. d.v \in Nat /\ document.v \in Nat /\ document.v <= d.v /\ Uploaded(d)
        BY Zenon, <1>1, VersionsAreNumbers DEF PagesInv, RendersAgree, VersionsNameDocuments, d
      <4> QED
        BY <4>1 DEF Uploaded
    <3>2. KeptPage(p, document.v)
      BY Zenon DEF PagesInv, TogetherIsWhole
    <3>3. \A v : v = d.v /\ KeptPage(p, v) => KeptPage(p, v)'
      BY Zenon, <2>4, <3>1
    <3>4. PICK v : v = document.v
      BY Zenon
    <3>5. KeptPage(p, v)'
      BY Zenon, <3>1, <3>2, <3>3, <3>4
    <3> QED
      BY Zenon, <1>2, <3>4, <3>5 DEF KeptPage
  <2>9. \A q \in Busy : \A p \in 1..rd_doc[q].n, v \in {rd_doc[q].v} : KeptPage(p, v) => KeptPage(p, v)'
    BY Zenon, <2>1, <2>4
  <2>10. \A q \in Busy : \A p \in PageNumbers : page'[p] \in {page[p], 0, rd_doc[q].v}
    BY Zenon, <2>1, <2>5
  <2> QED
    BY Zenon, <1>2, <2>7, <2>8, <2>9, <2>10, TogetherStep
<1> QED
  BY <1>3, <1>5, <1>6, <1>7, <1>8 DEF PagesInv

LEMMA SaveManifestStep ==
    ASSUME PagesInv, NEW r \in Renderers, SaveManifest(r)
    PROVE  PagesInv'
<1> DEFINE d == rd_doc[r]
<1>1. /\ rd_pc[r] = "manifest" /\ OthersStay(r) /\ rd_pc'[r] = "idle" /\ Finish(r)
      /\ manifest' = Saved(manifest, NoDoc, d)
      /\ UNCHANGED <<document, page, overlapped, mixed, torn, faults>>
  BY Zenon, FinishIdles DEF SaveManifest, PagesInv
<1>2. r \in Busy /\ r \notin Busy' /\ manifest' \in {manifest, d}
  BY Zenon, <1>1 DEF Busy, Saved
<1>3. PagesTypeOK'
  BY Zenon, <1>1, <1>2, FinishIdles DEF PagesInv, PagesTypeOK
<1>4. VersionsNameDocuments'
  BY Zenon, <1>1, <1>2, DescribedStay
<1>5. RendersAgree'
  BY Zenon, <1>1, <1>2, AgreementStays
<1>6. AloneIsWhole'
  <2>1. FillsAlone(r)'
    BY Zenon, <1>1 DEF FillsAlone
  <2>2. ASSUME ~overlapped, ~torn, manifest' = document PROVE Complete'
    <3>1. manifest = NoDoc /\ \A p \in 1..d.n : page[p] = d.v
      BY Zenon, <1>1, <2>2 DEF PagesInv, AloneIsWhole, FillsAlone
    <3>2. manifest' = d
      BY Zenon, <1>1, <3>1 DEF Saved
    <3> QED
      BY Zenon, <1>1, <3>1, <3>2 DEF Complete
  <2> QED
    BY Zenon, <1>1, <1>2, <2>1, <2>2, AloneStep
<1>7. TogetherIsWhole'
  <2> SUFFICES ASSUME ~mixed, faults = 0 PROVE TogetherIsWhole'
    BY Zenon, <1>1 DEF TogetherIsWhole
  <2>1. ASSUME NEW p, NEW v, KeptPage(p, v) PROVE KeptPage(p, v)'
    BY Zenon, <1>1, <2>1 DEF KeptPage, WillSave, OthersStay
  <2>2. KeepsTogether(r)'
    BY Zenon, <1>1 DEF KeepsTogether
  <2>3. manifest' = document => \A p \in 1..document.n : KeptPage(p, document.v)'
    <3> SUFFICES ASSUME manifest' = document, NEW p \in 1..document.n, NEW v, v = document.v
                 PROVE  KeptPage(p, v)'
      BY Zenon, <1>1 DEF KeptPage
    <3>1. CASE manifest = document
      BY Zenon, <2>1, <3>1 DEF PagesInv, TogetherIsWhole
    <3>2. CASE document = d
      <4>1. KeptPage(p, v)
        BY Zenon, <1>1, <3>2 DEF PagesInv, TogetherIsWhole, KeepsTogether
      <4> QED
        BY Zenon, <2>1, <4>1
    <3> QED
      BY Zenon, <1>2, <3>1, <3>2
  <2> QED
    BY Zenon, <1>1, <2>1, <2>2, <2>3, TogetherStep
<1> QED
  BY <1>3, <1>4, <1>5, <1>6, <1>7 DEF PagesInv

\* A render that stops leaves the files as they are, which is a fault.
LEMMA StopStep ==
    ASSUME PagesInv, NEW r \in Renderers, RenderStops(r)
    PROVE  PagesInv'
<1>1. /\ rd_pc[r] # "idle" /\ OthersStay(r) /\ rd_pc'[r] = "idle" /\ Finish(r)
      /\ faults' = faults + 1 /\ faults < MaxFaults
      /\ torn' = (torn \/ (rd_pc[r] = "wipe" /\ manifest = rd_doc[r]))
      /\ UNCHANGED <<document, manifest, page, overlapped, mixed>>
  BY Zenon, FinishIdles DEF RenderStops, fileVars, PagesInv
<1>2. r \in Busy /\ r \notin Busy'
  BY Zenon, <1>1 DEF Busy
<1>3. faults' \in 0..MaxFaults /\ faults' # 0
  BY <1>1, PagesAssumption DEF PagesInv, PagesTypeOK
<1>4. torn' \in BOOLEAN
  BY <1>1, Zenon
<1>5. PagesTypeOK'
  BY Zenon, <1>1, <1>3, <1>4, FinishIdles DEF PagesInv, PagesTypeOK
<1>6. VersionsNameDocuments'
  BY Zenon, <1>1, <1>2, DescribedStay
<1>7. RendersAgree'
  BY Zenon, <1>1, <1>2, AgreementStays
<1>8. ~torn' => ~torn /\ (rd_pc[r] = "wipe" => manifest # rd_doc[r])
  BY <1>1, Zenon
<1>9. AloneIsWhole'
  <2>1. FillsAlone(r)'
    BY Zenon, <1>1 DEF FillsAlone
  <2>2. ASSUME ~overlapped, ~torn', manifest' = document PROVE Complete'
    <3>1. rd_pc[r] # "wipe"
      <4>1. manifest.v <= rd_doc[r].v /\ Uploaded(rd_doc[r])
        BY Zenon, <1>2, <2>2 DEF PagesInv, RendersAgree, VersionsNameDocuments
      <4>2. manifest.v = rd_doc[r].v
        BY <1>1, <1>2, <2>2, <4>1, VersionsAreNumbers DEF PagesInv, Uploaded
      <4>3. manifest = rd_doc[r]
        BY Zenon, <1>2, <4>2 DEF PagesInv, VersionsNameDocuments
      <4> QED
        BY Zenon, <1>8, <2>2, <4>3
    <3>2. \A q \in Renderers : rd_pc[q] # "wipe"
      BY Zenon, <1>2, <2>2, <3>1 DEF PagesInv, RendersAgree, Busy
    <3>3. Complete
      BY Zenon, <1>1, <1>8, <2>2, <3>2 DEF PagesInv, AloneIsWhole, CrashLeavesNoFalseManifest
    <3> QED
      BY Zenon, <1>1, <3>3 DEF Complete
  <2> QED
    BY Zenon, <1>1, <1>2, <1>8, <2>1, <2>2, AloneStep
<1> QED
  BY Zenon, <1>3, <1>5, <1>6, <1>7, <1>9 DEF PagesInv, TogetherIsWhole

LEMMA PagesStep == PagesInv /\ [PagesNext]_pagesVars => PagesInv'
<1> SUFFICES ASSUME PagesInv, [PagesNext]_pagesVars PROVE PagesInv'
  BY Zenon
<1>1. CASE UNCHANGED pagesVars
  BY <1>1
  DEF pagesVars, fileVars, renderVars, PagesInv, PagesTypeOK, VersionsNameDocuments, Uploaded,
      RendersAgree, AloneIsWhole, FillsAlone, CrashLeavesNoFalseManifest, Complete, Files, Busy,
      TogetherIsWhole, KeepsTogether, KeptPage, WillSave
<1> QED
  BY Zenon, <1>1, UploadStep, LoadStep, EnsureStep, ListStep, WipeStep, DeleteFailsStep,
     SavePageStep,
     SaveManifestStep, StopStep
  DEF PagesNext, RenderStep

\* The invariant holds through any uploads, renders, crashes and storage errors.
THEOREM PagesInvariance == PagesSpec => []PagesInv
BY PagesInitially, PagesStep, PTL DEF PagesSpec

\* The lesson, the storage and the renders keep their types.
THEOREM PagesTypeCorrect == PagesSpec => []PagesTypeOK
BY PagesInvariance, PTL DEF PagesInv

\* A manifest that readers take for fresh is complete: after a crash at any
\* point when renders do not overlap, and after any overlap of renders of one
\* document that all ran to their end (pdf_pages.py, _render_and_store).
THEOREM FreshManifestAlwaysComplete == PagesSpec => []FreshManifestIsComplete
<1>1. PagesInv => CrashLeavesNoFalseManifest
  BY Zenon DEF PagesInv, AloneIsWhole, CrashLeavesNoFalseManifest
<1>2. PagesInv => OverlappingRendersAgree
  <2> SUFFICES ASSUME PagesInv, Busy = {}, faults = 0, ~mixed, manifest = document
               PROVE  Complete
    BY Zenon DEF OverlappingRendersAgree
  <2>1. \A r \in Renderers : rd_pc[r] = "idle"
    BY Zenon DEF Busy
  <2>2. \A p \in 1..document.n : KeptPage(p, document.v)
    BY Zenon DEF PagesInv, TogetherIsWhole
  <2> QED
    BY Zenon, <2>1, <2>2 DEF KeptPage, WillSave, Complete
<1>3. PagesInv => FreshManifestIsComplete
  BY Zenon, <1>1, <1>2 DEF FreshManifestIsComplete
<1> QED
  BY <1>3, PagesInvariance, PTL

-----------------------------------------------------------------------------
(* TabyinSync. The inductive invariant: what a run remembers of its pages,   *)
(* and what a full run that nothing has disturbed has already mirrored.      *)

Stages == {"idle", "fetch", "read", "write", "delete"}

SyncTypes ==
    /\ source \in Seq(Items) /\ hash \in [Items -> 0..MaxChanges] /\ changes \in 0..MaxChanges
    /\ content_hash \in [Items -> 0..Absent] /\ is_deleted_in_source \in [Rows -> BOOLEAN]
    /\ y_pc \in [Runs -> Stages] /\ y_page \in [Runs -> Nat] /\ y_total \in [Runs -> Nat]
    /\ y_ids \in [Runs -> SUBSET Items]
    /\ y_item \in [Runs -> [item : Items \cup {Absent}, hash : 0..Absent]]
    /\ y_known \in [Runs -> 0..Absent] /\ y_unchanged \in [Runs -> 0..MAX_UNCHANGED_PAGES - 1]
    /\ y_clean \in [Runs -> BOOLEAN]

\* A run under way is at one of its pages; from the fetch to the write it holds an
\* item of the source; only a full run comes to the deletion, after its last page.
RunFits(y) ==
    /\ y_pc[y] = "idle" => y_ids[y] = {}
    /\ y_pc[y] # "idle" => y_page[y] \in 1..y_total[y]
    /\ y_pc[y] \in {"read", "write"} => y_item[y].item \in Items /\ y_item[y].hash \in 0..MaxChanges
    /\ y_pc[y] = "delete" => y \in FullRuns /\ y_page[y] = y_total[y]

\* The pages a run has written.
Done(y) == IF y_pc[y] = "delete" THEN y_total[y] ELSE y_page[y] - 1

PageHeld(y) ==
    /\ y_item[y] = [item |-> source[y_page[y]], hash |-> hash[source[y_page[y]]]]
    /\ source[y_page[y]] \in y_ids[y]

Undisturbed(y) ==
    /\ \A z \in Runs \ {y} : y_pc[z] = "idle"
    /\ y_total[y] = Len(source)
    /\ y_ids[y] \subseteq Range(source)
    /\ \A k \in 1..Done(y) : source[k] \in y_ids[y] /\ content_hash[source[k]] = hash[source[k]]
    /\ y_pc[y] \in {"read", "write"} => PageHeld(y)
    /\ y_pc[y] = "write" => y_known[y] = content_hash[source[y_page[y]]]

CleanRun(y) == y_clean[y] /\ y_pc[y] # "idle" => Undisturbed(y)

SyncInv ==
    /\ SyncTypes
    /\ \A y \in Runs : RunFits(y)
    /\ \A y \in FullRuns : CleanRun(y)

-----------------------------------------------------------------------------
\* A source whose item at one place is removed is still a list of items.
LEMMA RemovalIsSequence ==
  ASSUME NEW s \in Seq(Items), NEW k \in DOMAIN s
  PROVE SubSeq(s, 1, k - 1) \o SubSeq(s, k + 1, Len(s)) \in Seq(Items)
<1>1. k \in 1..Len(s) /\ Len(s) \in Nat
  OBVIOUS
<1>2. SubSeq(s, 1, k - 1) \in Seq(Items) /\ SubSeq(s, k + 1, Len(s)) \in Seq(Items)
  BY <1>1
<1> QED
  BY <1>2

LEMMA SyncInitially == TabyinInit => SyncInv
<1> SUFFICES ASSUME TabyinInit PROVE SyncInv
  BY Zenon
<1> USE TabyinAssumption
<1>1. SyncTypes
  BY DEF TabyinInit, SyncTypes, Stages, Absent, NoItem
<1>2. \A y \in Runs : y_pc[y] = "idle" /\ y_ids[y] = {}
  BY Zenon DEF TabyinInit
<1>3. \A y \in Runs : RunFits(y)
  BY Zenon, <1>2 DEF RunFits
<1>4. \A y \in FullRuns : CleanRun(y)
  BY Zenon, <1>2 DEF CleanRun, Runs
<1> QED
  BY Zenon, <1>1, <1>3, <1>4 DEF SyncInv

\* While a run is under way, no other full run counts as undisturbed.
LEMMA BusyRunDisturbs ==
  ASSUME SyncInv, NEW y \in Runs, y_pc[y] # "idle", NEW z \in FullRuns, z # y,
         y_clean'[z] => y_clean[z], y_pc'[z] = y_pc[z]
  PROVE CleanRun(z)'
<1>1. ~(y_clean[z] /\ y_pc[z] # "idle")
  BY Zenon DEF SyncInv, CleanRun, Undisturbed, Runs
<1> QED
  BY Zenon, <1>1 DEF CleanRun

\* What another run has in hand is its own.
LEMMA OtherRunsFit ==
  ASSUME SyncInv, NEW z \in Runs,
         y_pc'[z] = y_pc[z], y_page'[z] = y_page[z], y_total'[z] = y_total[z],
         y_ids'[z] = y_ids[z], y_item'[z] = y_item[z]
  PROVE RunFits(z)'
BY Zenon DEF SyncInv, RunFits

\* The memory of a run that ends, whichever way, is that of a run not started.
LEMMA EndRunEffect ==
  ASSUME SyncInv, NEW y \in Runs, EndRun(y)
  PROVE /\ y_pc' \in [Runs -> Stages] /\ y_page' \in [Runs -> Nat] /\ y_total' \in [Runs -> Nat]
        /\ y_ids' \in [Runs -> SUBSET Items]
        /\ y_item' \in [Runs -> [item : Items \cup {Absent}, hash : 0..Absent]]
        /\ y_known' \in [Runs -> 0..Absent]
        /\ y_unchanged' \in [Runs -> 0..MAX_UNCHANGED_PAGES - 1]
        /\ y_pc'[y] = "idle"
        /\ \A z \in Runs \ {y} : y_pc'[z] = y_pc[z]
        /\ \A z \in Runs : RunFits(z)'
<1> USE TabyinAssumption
<1>1. SyncTypes
  BY Zenon DEF SyncInv
<1>2. /\ y_pc' \in [Runs -> Stages] /\ y_page' \in [Runs -> Nat] /\ y_total' \in [Runs -> Nat]
      /\ y_ids' \in [Runs -> SUBSET Items]
      /\ y_unchanged' \in [Runs -> 0..MAX_UNCHANGED_PAGES - 1]
  BY <1>1 DEF EndRun, SyncTypes, Stages
<1>3. y_known' \in [Runs -> 0..Absent]
  BY <1>1 DEF EndRun, DropPage, SyncTypes, Absent
<1>4. NoItem \in [item : Items \cup {Absent}, hash : 0..Absent]
  BY DEF NoItem, Absent
<1>5. y_item' \in [Runs -> [item : Items \cup {Absent}, hash : 0..Absent]]
  BY Zenon, <1>1, <1>4 DEF EndRun, DropPage, SyncTypes
<1>6. y_pc'[y] = "idle" /\ y_ids'[y] = {}
  BY Zenon, <1>1 DEF EndRun, SyncTypes
<1>7. \A z \in Runs \ {y} :
        /\ y_pc'[z] = y_pc[z] /\ y_page'[z] = y_page[z] /\ y_total'[z] = y_total[z]
        /\ y_ids'[z] = y_ids[z] /\ y_item'[z] = y_item[z]
  BY Zenon, <1>1 DEF EndRun, DropPage, SyncTypes
<1>8. RunFits(y)'
  BY Zenon, <1>6 DEF RunFits
<1>9. \A z \in Runs : RunFits(z)'
  BY Zenon, <1>7, <1>8, OtherRunsFit
<1> QED
  BY Zenon, <1>2, <1>3, <1>5, <1>6, <1>7, <1>9

\* The next page: a full run has one more page behind it, and stays at its list.
LEMMA NextPageEffect ==
  ASSUME SyncInv, NEW y \in Runs, NEW changed \in BOOLEAN, y_pc[y] # "idle",
         NextPage(y, changed), y_pc'[y] # "idle" => UNCHANGED y_ids
  PROVE /\ y_pc' \in [Runs -> Stages] /\ y_page' \in [Runs -> Nat] /\ y_total' \in [Runs -> Nat]
        /\ y_ids' \in [Runs -> SUBSET Items]
        /\ y_item' \in [Runs -> [item : Items \cup {Absent}, hash : 0..Absent]]
        /\ y_known' \in [Runs -> 0..Absent]
        /\ y_unchanged' \in [Runs -> 0..MAX_UNCHANGED_PAGES - 1]
        /\ \A z \in Runs \ {y} : y_pc'[z] = y_pc[z]
        /\ \A z \in Runs : RunFits(z)'
        /\ y \in FullRuns =>
             /\ y_pc'[y] \in {"fetch", "delete"} /\ Done(y)' = y_page[y]
             /\ y_ids'[y] = y_ids[y] /\ y_total'[y] = y_total[y]
<1> USE TabyinAssumption
<1>1. SyncTypes /\ RunFits(y)
  BY Zenon DEF SyncInv
<1> DEFINE streak == IF changed THEN 0 ELSE y_unchanged[y] + 1
           last == y_page[y] = y_total[y]
                   \/ (y \in IncrementalRuns /\ streak >= MAX_UNCHANGED_PAGES)
<1>2. CASE last /\ y \in IncrementalRuns
  <2>1. y \notin FullRuns
    BY Zenon, <1>2
  <2>2. EndRun(y)
    BY Zenon, <1>2 DEF NextPage
  <2> QED
    BY Zenon, <2>1, <2>2, EndRunEffect
<1>3. CASE ~(last /\ y \in IncrementalRuns)
  <2>1. /\ y_pc' = [y_pc EXCEPT ![y] = IF last THEN "delete" ELSE "fetch"]
        /\ y_page' = [y_page EXCEPT ![y] = IF last THEN @ ELSE @ + 1]
        /\ y_unchanged' = [y_unchanged EXCEPT ![y] = IF y \in FullRuns THEN 0 ELSE streak]
        /\ DropPage(y) /\ UNCHANGED y_total
    BY Zenon, <1>3 DEF NextPage
  <2>2. streak \in Nat
    BY <1>1 DEF SyncTypes
  <2>3. /\ last => y \in FullRuns /\ y_page[y] = y_total[y]
        /\ ~last => y_page[y] # y_total[y]
        /\ y \in FullRuns \/ ~(streak >= MAX_UNCHANGED_PAGES)
    BY Zenon, <1>3 DEF Runs
  <2> HIDE DEF streak, last
  <2>4. y_pc'[y] = IF last THEN "delete" ELSE "fetch"
    BY Zenon, <1>1, <2>1 DEF SyncTypes
  <2>5. UNCHANGED y_ids /\ y_ids' \in [Runs -> SUBSET Items]
    BY Zenon, <1>1, <2>4 DEF SyncTypes
  <2>6. y_page[y] \in 1..y_total[y] /\ y_page[y] \in Nat /\ y_total[y] \in Nat
    BY Zenon, <1>1 DEF SyncTypes, RunFits
  <2>7. y_pc' \in [Runs -> Stages] /\ y_page' \in [Runs -> Nat] /\ y_total' \in [Runs -> Nat]
    BY <1>1, <2>1, <2>6 DEF SyncTypes, Stages
  <2>8. y_unchanged' \in [Runs -> 0..MAX_UNCHANGED_PAGES - 1]
    <3>1. (IF y \in FullRuns THEN 0 ELSE streak) \in 0..MAX_UNCHANGED_PAGES - 1
      BY <2>2, <2>3
    <3> QED
      BY Zenon, <1>1, <2>1, <3>1 DEF SyncTypes
  <2>9. NoItem \in [item : Items \cup {Absent}, hash : 0..Absent] /\ Absent \in 0..Absent
    BY DEF NoItem, Absent
  <2>10. /\ y_item' \in [Runs -> [item : Items \cup {Absent}, hash : 0..Absent]]
         /\ y_known' \in [Runs -> 0..Absent]
    BY Zenon, <1>1, <2>1, <2>9 DEF DropPage, SyncTypes
  <2>11. \A z \in Runs \ {y} :
          /\ y_pc'[z] = y_pc[z] /\ y_page'[z] = y_page[z] /\ y_total'[z] = y_total[z]
          /\ y_ids'[z] = y_ids[z] /\ y_item'[z] = y_item[z]
    BY Zenon, <1>1, <2>1, <2>5 DEF DropPage, SyncTypes
  <2>12. y_page'[y] = (IF last THEN y_page[y] ELSE y_page[y] + 1) /\ y_total'[y] = y_total[y]
    BY Zenon, <1>1, <2>1 DEF SyncTypes
  <2>13. RunFits(y)'
    BY <2>3, <2>4, <2>6, <2>12 DEF RunFits
  <2>14. \A z \in Runs : RunFits(z)'
    BY Zenon, <2>11, <2>13, OtherRunsFit
  <2>15. Done(y)' = y_page[y]
    BY <2>3, <2>4, <2>6, <2>12 DEF Done
  <2>16. y_pc'[y] \in {"fetch", "delete"} /\ y_ids'[y] = y_ids[y] /\ y_total'[y] = y_total[y]
    BY Zenon, <2>4, <2>5, <2>12
  <2> QED
    BY Zenon, <2>5, <2>7, <2>8, <2>10, <2>11, <2>14, <2>15, <2>16
<1> QED
  BY Zenon, <1>2, <1>3

\* A change of the source disturbs every run.
LEMMA SourceStep ==
  ASSUME SyncInv, NEW list \in Seq(Items), NEW content \in [Items -> 0..MaxChanges],
         SourceChanges(list, content)
  PROVE SyncInv'
<1> USE TabyinAssumption
<1>1. SyncTypes'
  BY DEF SyncInv, SyncTypes, SourceChanges, mirrorVars, runVars, Stages
<1>2. \A z \in Runs : RunFits(z)'
  BY Zenon, OtherRunsFit DEF SourceChanges, runVars
<1>3. \A z \in FullRuns : ~y_clean'[z]
  BY Zenon DEF SourceChanges, Runs
<1> QED
  BY Zenon, <1>1, <1>2, <1>3 DEF SyncInv, CleanRun

LEMMA StartStep ==
  ASSUME SyncInv, NEW y \in Runs, run_sync(y)
  PROVE SyncInv'
<1> USE TabyinAssumption
<1>1. SyncTypes /\ RunFits(y) /\ y_pc[y] = "idle"
  BY Zenon DEF SyncInv, run_sync
<1>2. Len(source) \in Nat \ {0}
  BY <1>1 DEF run_sync, SyncTypes
<1>3. SyncTypes'
  BY Zenon, <1>1, <1>2 DEF SyncTypes, run_sync, sourceVars, mirrorVars, Stages
<1>4. y_pc'[y] = "fetch" /\ y_page'[y] = 1 /\ y_total'[y] = Len(source) /\ y_ids'[y] = {}
  BY Zenon, <1>1 DEF SyncTypes, run_sync, RunFits
<1>5. RunFits(y)'
  BY <1>2, <1>4 DEF RunFits
<1>6. \A z \in Runs \ {y} :
        /\ y_pc'[z] = y_pc[z] /\ y_page'[z] = y_page[z] /\ y_total'[z] = y_total[z]
        /\ y_ids'[z] = y_ids[z] /\ y_item'[z] = y_item[z]
  BY Zenon, <1>1 DEF SyncTypes, run_sync
<1>7. \A z \in Runs : RunFits(z)'
  BY Zenon, <1>5, <1>6, OtherRunsFit
<1>8. \A z \in Runs : y_clean'[z] = (z = y /\ Alone(y))
  BY Zenon DEF run_sync
<1>9. ASSUME Alone(y) PROVE Undisturbed(y)'
  <2>1. \A z \in Runs \ {y} : y_pc'[z] = "idle"
    BY Zenon, <1>6, <1>9 DEF Alone
  <2>2. Done(y)' = 0
    BY <1>4 DEF Done
  <2>3. y_total'[y] = Len(source')
    BY Zenon, <1>4 DEF run_sync, sourceVars
  <2> QED
    BY <1>4, <2>1, <2>2, <2>3 DEF Undisturbed
<1>10. \A z \in FullRuns : CleanRun(z)'
  BY Zenon, <1>8, <1>9 DEF CleanRun, Runs
<1> QED
  BY Zenon, <1>3, <1>7, <1>10 DEF SyncInv

LEMMA FetchFailsStep ==
  ASSUME SyncInv, NEW y \in Runs, FetchFails(y)
  PROVE SyncInv'
<1>1. y_pc[y] # "idle" /\ NextPage(y, FALSE) /\ (y_pc'[y] # "idle" => UNCHANGED y_ids)
  BY Zenon DEF FetchFails
<1>2. y_clean' = [y_clean EXCEPT ![y] = FALSE] /\ y_clean' \in [Runs -> BOOLEAN]
  BY Zenon DEF SyncInv, SyncTypes, FetchFails
<1>3. SyncTypes'
  BY Zenon, <1>1, <1>2, NextPageEffect DEF SyncInv, SyncTypes, FetchFails, sourceVars, mirrorVars
<1>4. \A z \in Runs : RunFits(z)'
  BY Zenon, <1>1, NextPageEffect
<1>5. ~y_clean'[y] /\ \A z \in Runs \ {y} : y_clean'[z] = y_clean[z] /\ y_pc'[z] = y_pc[z]
  BY Zenon, <1>1, <1>2, NextPageEffect DEF SyncInv, SyncTypes
<1>6. \A z \in FullRuns : CleanRun(z)'
  <2> TAKE z \in FullRuns
  <2>1. CASE z = y
    BY Zenon, <1>5, <2>1 DEF CleanRun
  <2>2. CASE z # y
    BY Zenon, <1>1, <1>5, <2>2, BusyRunDisturbs DEF Runs
  <2> QED
    BY Zenon, <2>1, <2>2
<1> QED
  BY Zenon, <1>3, <1>4, <1>6 DEF SyncInv

LEMMA FetchPageStep ==
  ASSUME SyncInv, NEW y \in Runs, FetchPage(y)
  PROVE SyncInv'
<1> USE TabyinAssumption
<1>1. /\ SyncTypes /\ RunFits(y) /\ y_pc[y] = "fetch"
      /\ UNCHANGED <<source, hash, changes, content_hash, is_deleted_in_source, y_clean>>
  BY Zenon DEF SyncInv, FetchPage, sourceVars, mirrorVars
<1>2. y_page[y] \in 1..y_total[y] /\ y_page[y] \in Nat /\ y_total[y] \in Nat /\ Len(source) \in Nat
  BY <1>1 DEF SyncTypes, RunFits
<1>3. CASE y_page[y] <= Len(source)
  <2> DEFINE i == source[y_page[y]]
  <2>1. i \in Items /\ hash[i] \in 0..MaxChanges /\ i \in Range(source)
    BY <1>1, <1>2, <1>3 DEF SyncTypes, Range
  <2>2. /\ y_item' = [y_item EXCEPT ![y] = [item |-> i, hash |-> hash[i]]]
        /\ y_ids' = [y_ids EXCEPT ![y] = @ \cup {i}]
        /\ y_pc' = [y_pc EXCEPT ![y] = "read"]
        /\ UNCHANGED <<y_page, y_total, y_known, y_unchanged>>
    BY Zenon, <1>3 DEF FetchPage
  <2> HIDE DEF i
  <2>3. [item |-> i, hash |-> hash[i]] \in [item : Items \cup {Absent}, hash : 0..Absent]
    BY <2>1 DEF Absent
  <2>4. y_item' \in [Runs -> [item : Items \cup {Absent}, hash : 0..Absent]]
    BY Zenon, <1>1, <2>2, <2>3 DEF SyncTypes
  <2>5. y_pc' \in [Runs -> Stages] /\ y_ids' \in [Runs -> SUBSET Items]
    BY Zenon, <1>1, <2>1, <2>2 DEF SyncTypes, Stages
  <2>6. SyncTypes'
    BY Zenon, <1>1, <2>2, <2>4, <2>5 DEF SyncTypes
  <2>7. /\ y_pc'[y] = "read" /\ y_item'[y] = [item |-> i, hash |-> hash[i]]
        /\ y_ids'[y] = y_ids[y] \cup {i}
    BY Zenon, <1>1, <2>2 DEF SyncTypes
  <2>8. RunFits(y)'
    BY <1>2, <2>1, <2>2, <2>7 DEF RunFits
  <2>9. \A z \in Runs \ {y} :
          /\ y_pc'[z] = y_pc[z] /\ y_page'[z] = y_page[z] /\ y_total'[z] = y_total[z]
          /\ y_ids'[z] = y_ids[z] /\ y_item'[z] = y_item[z]
    BY Zenon, <1>1, <2>2 DEF SyncTypes
  <2>10. \A z \in Runs : RunFits(z)'
    BY <2>8, <2>9, OtherRunsFit
  <2>11. ASSUME y \in FullRuns, y_clean[y] PROVE Undisturbed(y)'
    <3>1. Undisturbed(y)
      BY Zenon, <1>1, <2>11 DEF SyncInv, CleanRun
    <3>2. Done(y)' = Done(y)
      BY Zenon, <1>1, <2>2, <2>7 DEF Done
    <3>3. \A k \in 1..Done(y)' : /\ source'[k] \in y_ids'[y]
                                 /\ content_hash'[source'[k]] = hash'[source'[k]]
      BY Zenon, <1>1, <2>7, <3>1, <3>2 DEF Undisturbed
    <3>4. \A z \in Runs \ {y} : y_pc'[z] = "idle"
      BY Zenon, <2>9, <3>1 DEF Undisturbed
    <3>5. PageHeld(y)'
      BY Zenon, <1>1, <2>2, <2>7 DEF PageHeld, i
    <3>6. y_total'[y] = Len(source') /\ y_ids'[y] \subseteq Range(source')
      BY Zenon, <1>1, <2>1, <2>2, <2>7, <3>1 DEF Undisturbed
    <3> QED
      BY Zenon, <2>7, <3>3, <3>4, <3>5, <3>6 DEF Undisturbed
  <2>12. \A z \in FullRuns : CleanRun(z)'
    <3> TAKE z \in FullRuns
    <3>1. CASE z = y
      BY Zenon, <1>1, <2>11, <3>1 DEF CleanRun
    <3>2. CASE z # y
      BY Zenon, <1>1, <2>9, <3>2, BusyRunDisturbs DEF Runs
    <3> QED
      BY Zenon, <3>1, <3>2
  <2> QED
    BY <2>6, <2>10, <2>12 DEF SyncInv
<1>4. CASE ~(y_page[y] <= Len(source))
  <2>1. y_pc[y] # "idle" /\ NextPage(y, FALSE) /\ (y_pc'[y] # "idle" => UNCHANGED y_ids)
    BY Zenon, <1>1, <1>4 DEF FetchPage
  <2>2. SyncTypes'
    BY Zenon, <1>1, <2>1, NextPageEffect DEF SyncTypes
  <2>3. \A z \in Runs : RunFits(z)'
    BY Zenon, <2>1, NextPageEffect
  <2>4. \A z \in FullRuns : CleanRun(z)'
    <3> TAKE z \in FullRuns
    <3>1. CASE z = y
      <4>1. y_clean[y] => y_total[y] = Len(source)
        BY Zenon, <1>1, <3>1 DEF SyncInv, CleanRun, Undisturbed
      <4>2. y_total[y] # Len(source)
        BY <1>2, <1>4
      <4> QED
        BY Zenon, <1>1, <3>1, <4>1, <4>2 DEF CleanRun
    <3>2. CASE z # y
      BY Zenon, <1>1, <2>1, <3>2, NextPageEffect, BusyRunDisturbs DEF Runs
    <3> QED
      BY <3>1, <3>2
  <2> QED
    BY <2>2, <2>3, <2>4 DEF SyncInv
<1> QED
  BY Zenon, <1>3, <1>4

LEMMA ReadStep ==
  ASSUME SyncInv, NEW y \in Runs, ReadExisting(y)
  PROVE SyncInv'
<1>1. /\ SyncTypes /\ RunFits(y) /\ y_pc[y] = "read"
      /\ y_known' = [y_known EXCEPT ![y] = content_hash[y_item[y].item]]
      /\ y_pc' = [y_pc EXCEPT ![y] = "write"]
      /\ UNCHANGED <<source, hash, changes, content_hash, is_deleted_in_source, y_page, y_total,
                     y_ids, y_item, y_unchanged, y_clean>>
  BY Zenon DEF SyncInv, ReadExisting, sourceVars, mirrorVars
<1>2. content_hash[y_item[y].item] \in 0..Absent
  BY Zenon, <1>1 DEF SyncTypes, RunFits
<1>3. SyncTypes'
  BY Zenon, <1>1, <1>2 DEF SyncTypes, Stages
<1>4. y_pc'[y] = "write" /\ \A z \in Runs \ {y} : y_pc'[z] = y_pc[z]
  BY Zenon, <1>1 DEF SyncTypes
<1>5. RunFits(y)'
  BY Zenon, <1>1, <1>4 DEF RunFits
<1>6. \A z \in Runs : RunFits(z)'
  BY Zenon, <1>1, <1>4, <1>5, OtherRunsFit
<1>7. ASSUME y \in FullRuns, y_clean[y] PROVE Undisturbed(y)'
  <2>1. Undisturbed(y)
    BY Zenon, <1>1, <1>7 DEF SyncInv, CleanRun
  <2>2. Done(y)' = Done(y)
    BY Zenon, <1>1, <1>4 DEF Done
  <2>3. PageHeld(y)' /\ y_item[y].item = source[y_page[y]]
    BY <1>1, <2>1 DEF Undisturbed, PageHeld
  <2>4. y_known'[y] = content_hash'[source'[y_page'[y]]]
    BY Zenon, <1>1, <2>3 DEF SyncTypes
  <2> QED
    BY Zenon, <1>1, <1>4, <2>1, <2>2, <2>3, <2>4 DEF Undisturbed
<1>8. \A z \in FullRuns : CleanRun(z)'
  <2> TAKE z \in FullRuns
  <2>1. CASE z = y
    BY Zenon, <1>1, <1>7, <2>1 DEF CleanRun
  <2>2. CASE z # y
    BY Zenon, <1>1, <1>4, <2>2, BusyRunDisturbs DEF Runs
  <2> QED
    BY <2>1, <2>2
<1> QED
  BY <1>3, <1>6, <1>8 DEF SyncInv

\* Whatever an upsert finds, the row of an item read from an undisturbed source
\* ends with the source's content.
LEMMA UpsertStep ==
  ASSUME SyncInv, NEW y \in Runs, _upsert_batch(y)
  PROVE SyncInv'
<1> DEFINE i == y_item[y].item
           h == y_item[y].hash
<1>1. /\ SyncTypes /\ RunFits(y) /\ y_pc[y] = "write"
      /\ UNCHANGED <<source, hash, changes, y_clean>>
      /\ IF y_known[y] = h THEN UNCHANGED <<content_hash, is_deleted_in_source>>
         ELSE /\ content_hash' = [content_hash EXCEPT ![i] = h]
              /\ is_deleted_in_source' = [is_deleted_in_source EXCEPT ![i] = FALSE]
      /\ NextPage(y, y_known[y] # h)
      /\ y_pc'[y] # "idle" => UNCHANGED y_ids
  BY Zenon DEF SyncInv, _upsert_batch, sourceVars, mirrorVars
<1>2. i \in Items /\ i \in Rows /\ h \in 0..MaxChanges
  BY Zenon, <1>1 DEF RunFits, Rows
<1>3. h \in 0..Absent
  BY <1>2, TabyinAssumption DEF Absent
<1>4. content_hash' \in [Items -> 0..Absent] /\ is_deleted_in_source' \in [Rows -> BOOLEAN]
  BY Zenon, <1>1, <1>3 DEF SyncTypes
<1>5. PICK changed \in BOOLEAN : NextPage(y, changed)
  BY Zenon, <1>1
<1>6. SyncTypes'
  BY Zenon, <1>1, <1>4, <1>5, NextPageEffect DEF SyncTypes
<1>7. \A z \in Runs : RunFits(z)'
  BY Zenon, <1>1, <1>5, NextPageEffect
<1>8. \A z \in Runs \ {y} : y_pc'[z] = y_pc[z]
  BY Zenon, <1>1, <1>5, NextPageEffect
<1>9. ASSUME y \in FullRuns, y_clean[y] PROVE Undisturbed(y)'
  <2>1. Undisturbed(y) /\ PageHeld(y)
    BY Zenon, <1>1, <1>9 DEF SyncInv, CleanRun, Undisturbed
  <2>2. /\ y_pc'[y] \in {"fetch", "delete"} /\ Done(y)' = y_page[y]
        /\ y_ids'[y] = y_ids[y] /\ y_total'[y] = y_total[y]
    BY Zenon, <1>1, <1>5, <1>9, NextPageEffect
  <2>3. i = source[y_page[y]] /\ h = hash[i] /\ i \in y_ids[y] /\ y_known[y] = content_hash[i]
    BY <1>1, <2>1 DEF PageHeld, Undisturbed
  <2>4. content_hash'[i] = hash[i]
    BY Zenon, <1>1, <1>2, <2>3 DEF SyncTypes
  <2>5. \A j \in Items : j # i => content_hash'[j] = content_hash[j]
    BY Zenon, <1>1 DEF SyncTypes
  <2>6. y_page[y] \in Nat /\ y_page[y] \in 1..Len(source) /\ Len(source) \in Nat
    BY <1>1, <2>1 DEF SyncTypes, RunFits, Undisturbed
  <2>7. ASSUME NEW k \in 1..y_page[y]
        PROVE source[k] \in y_ids[y] /\ content_hash'[source[k]] = hash[source[k]]
    <3>1. source[k] \in Items
      BY <1>1, <2>6, <2>7 DEF SyncTypes
    <3>2. CASE source[k] = i
      BY Zenon, <2>3, <2>4, <3>2
    <3>3. CASE source[k] # i
      <4>1. k \in 1..y_page[y] - 1
        BY <2>3, <2>6, <3>3
      <4>2. k \in 1..Done(y)
        BY Zenon, <1>1, <4>1 DEF Done
      <4> QED
        BY Zenon, <2>1, <2>5, <3>1, <3>3, <4>2 DEF Undisturbed
    <3> QED
      BY Zenon, <3>2, <3>3
  <2>8. \A k \in 1..Done(y)' : /\ source'[k] \in y_ids'[y]
                               /\ content_hash'[source'[k]] = hash'[source'[k]]
    BY Zenon, <1>1, <2>2, <2>7
  <2>9. \A z \in Runs \ {y} : y_pc'[z] = "idle"
    BY Zenon, <1>8, <2>1 DEF Undisturbed
  <2>10. y_total'[y] = Len(source') /\ y_ids'[y] \subseteq Range(source')
    BY Zenon, <1>1, <2>1, <2>2 DEF Undisturbed
  <2> QED
    BY Zenon, <2>2, <2>8, <2>9, <2>10 DEF Undisturbed
<1>10. \A z \in FullRuns : CleanRun(z)'
  <2> TAKE z \in FullRuns
  <2>1. CASE z = y
    BY Zenon, <1>1, <1>9, <2>1 DEF CleanRun
  <2>2. CASE z # y
    BY Zenon, <1>1, <1>8, <2>2, BusyRunDisturbs DEF Runs
  <2> QED
    BY Zenon, <2>1, <2>2
<1> QED
  BY Zenon, <1>6, <1>7, <1>10 DEF SyncInv

\* A run that ends, by a refused row or after the deletion, holds nothing.
LEMMA EndStep ==
  ASSUME SyncInv, NEW y \in Runs, y_pc[y] # "idle", EndRun(y),
         is_deleted_in_source' \in [Rows -> BOOLEAN],
         UNCHANGED <<source, hash, changes, content_hash, y_clean>>
  PROVE SyncInv'
<1>1. SyncTypes'
  BY Zenon, EndRunEffect DEF SyncInv, SyncTypes
<1>2. \A z \in Runs : RunFits(z)'
  BY Zenon, EndRunEffect
<1>3. y_pc'[y] = "idle" /\ \A z \in Runs \ {y} : y_pc'[z] = y_pc[z]
  BY Zenon, EndRunEffect
<1>4. \A z \in FullRuns : CleanRun(z)'
  <2> TAKE z \in FullRuns
  <2>1. CASE z = y
    BY Zenon, <1>3, <2>1 DEF CleanRun
  <2>2. CASE z # y
    BY Zenon, <1>3, <2>2, BusyRunDisturbs DEF Runs
  <2> QED
    BY Zenon, <2>1, <2>2
<1> QED
  BY Zenon, <1>1, <1>2, <1>4 DEF SyncInv

LEMMA ApproveStep ==
  ASSUME SyncInv, NEW r \in Submissions, approve_user_submission(r)
  PROVE SyncInv'
<1>1. /\ is_deleted_in_source' = [is_deleted_in_source EXCEPT ![r] = FALSE]
      /\ UNCHANGED <<source, hash, changes, content_hash, y_pc, y_page, y_total, y_ids, y_item,
                     y_known, y_unchanged, y_clean>>
  BY Zenon DEF approve_user_submission, sourceVars, runVars
<1>2. SyncTypes'
  BY Zenon, <1>1 DEF SyncInv, SyncTypes, Rows
<1>3. \A z \in Runs : RunFits(z)'
  BY Zenon, <1>1, OtherRunsFit
<1>4. \A z \in FullRuns : CleanRun(z)'
  BY Zenon, <1>1 DEF SyncInv, CleanRun, Undisturbed, PageHeld, Done
<1> QED
  BY Zenon, <1>2, <1>3, <1>4 DEF SyncInv

LEMMA SyncStep == SyncInv /\ [TabyinNext]_tabyinVars => SyncInv'
<1> SUFFICES ASSUME SyncInv, [TabyinNext]_tabyinVars PROVE SyncInv'
  BY Zenon
<1>1. /\ source \in Seq(Items) /\ hash \in [Items -> 0..MaxChanges]
      /\ changes \in 0..MaxChanges
  BY Zenon DEF SyncInv, SyncTypes
<1>2. CASE \E i \in Items : SourceEdits(i)
  <2>1. PICK i \in Items : SourceEdits(i)
    BY Zenon, <1>2
  <2>2. [hash EXCEPT ![i] = changes + 1] \in [Items -> 0..MaxChanges]
    BY <1>1, <2>1, TabyinAssumption DEF SourceEdits, SourceChanges
  <2> QED
    BY Zenon, <1>1, <2>1, <2>2, SourceStep DEF SourceEdits
<1>3. CASE \E i \in Items : SourceAdds(i)
  <2>1. PICK i \in Items : SourceAdds(i)
    BY <1>3
  <2>2. <<i>> \o source \in Seq(Items)
    BY <1>1
  <2> QED
    BY Zenon, <1>1, <2>1, <2>2, SourceStep DEF SourceAdds
<1>4. CASE \E k \in DOMAIN source : SourceRemoves(k)
  BY Zenon, <1>1, <1>4, RemovalIsSequence, SourceStep DEF SourceRemoves
<1>5. CASE \E y \in Runs : run_sync(y)
  BY Zenon, <1>5, StartStep
<1>6. CASE \E y \in Runs : FetchPage(y)
  BY <1>6, FetchPageStep
<1>7. CASE \E y \in Runs : FetchFails(y)
  BY <1>7, FetchFailsStep
<1>8. CASE \E y \in Runs : ReadExisting(y)
  BY <1>8, ReadStep
<1>9. CASE \E y \in Runs : _upsert_batch(y)
  BY <1>9, UpsertStep
<1>10. CASE \E y \in Runs : UpsertFails(y)
  <2>1. PICK y \in Runs : UpsertFails(y)
    BY Zenon, <1>10
  <2>2. is_deleted_in_source' \in [Rows -> BOOLEAN]
    BY Zenon, <2>1 DEF UpsertFails, mirrorVars, SyncInv, SyncTypes
  <2> QED
    BY Zenon, <2>1, <2>2, EndStep DEF UpsertFails, sourceVars, mirrorVars
<1>11. CASE \E y \in FullRuns : _soft_delete_missing(y)
  <2>1. PICK y \in FullRuns : _soft_delete_missing(y)
    BY <1>11
  <2>2. is_deleted_in_source' \in [Rows -> BOOLEAN]
    BY Zenon, <2>1 DEF _soft_delete_missing, SyncInv, SyncTypes
  <2> QED
    BY Zenon, <2>1, <2>2, EndStep DEF _soft_delete_missing, sourceVars, Runs
<1>12. CASE \E r \in Submissions : approve_user_submission(r)
  BY Zenon, <1>12, ApproveStep
<1>13. CASE UNCHANGED tabyinVars
  <2>1. UNCHANGED <<source, hash, changes, content_hash, is_deleted_in_source, y_pc, y_page,
                    y_total, y_ids, y_item, y_known, y_unchanged, y_clean>>
    BY Zenon, <1>13 DEF tabyinVars, sourceVars, mirrorVars, runVars
  <2>2. SyncTypes' /\ \A z \in Runs : RunFits(z)'
    BY Zenon, <2>1, OtherRunsFit DEF SyncInv, SyncTypes
  <2>3. \A z \in FullRuns : CleanRun(z)'
    BY Zenon, <2>1 DEF SyncInv, CleanRun, Undisturbed, PageHeld, Done
  <2> QED
    BY Zenon, <2>2, <2>3 DEF SyncInv
<1> QED
  BY Zenon, <1>2, <1>3, <1>4, <1>5, <1>6, <1>7, <1>8, <1>9, <1>10, <1>11, <1>12, <1>13
  DEF TabyinNext, _process_page

\* The invariant holds, whatever the source does while it is read, whichever
\* pages fail and however the runs of the task overlap (SyncEngine).
THEOREM SyncInvariance == TabyinSpec => []SyncInv
<1>1. TabyinSpec => TabyinInit /\ [][TabyinNext]_tabyinVars
  BY Zenon DEF TabyinSpec
<1> QED
  BY <1>1, SyncInitially, SyncStep, PTL

\* Page counters stay within the pages of the run and the streak of unchanged
\* pages below its limit (sync_full, sync_incremental).
THEOREM TabyinTypeCorrect == TabyinSpec => []TabyinTypeOK
<1>1. SyncInv => TabyinTypeOK
  BY TabyinAssumption DEF SyncInv, SyncTypes, RunFits, TabyinTypeOK
<1> QED
  BY <1>1, SyncInvariance, PTL

\* The deletion of an undisturbed full run leaves the wall as the source is: every
\* page of the list was read and written, and only what is outside it is hidden.
LEMMA CleanDeletion ==
  ASSUME SyncInv, NEW y \in FullRuns, _soft_delete_missing(y), y_clean[y]
  PROVE /\ Mirrored'
        /\ \A i \in Range(source) : is_deleted_in_source'[i] => is_deleted_in_source[i]
<1> DEFINE missing == {r \in Existing \ y_ids[y] : ~is_deleted_in_source[r] /\ y_ids[y] # {}}
<1>1. /\ SyncTypes /\ RunFits(y) /\ y_pc[y] = "delete" /\ Undisturbed(y) /\ y \in Runs
      /\ UNCHANGED <<source, hash, content_hash>>
      /\ is_deleted_in_source' = [r \in Rows |-> is_deleted_in_source[r] \/ r \in missing]
  BY Zenon DEF SyncInv, CleanRun, _soft_delete_missing, sourceVars, Runs
<1>2. Len(source) \in Nat \ {0} /\ Done(y) = Len(source)
  BY <1>1 DEF SyncTypes, RunFits, Undisturbed, Done
<1>3. \A i \in Range(source) : i \in Items /\ i \in y_ids[y] /\ content_hash[i] = hash[i]
  <2> TAKE i \in Range(source)
  <2>1. PICK k \in DOMAIN source : source[k] = i
    BY Zenon DEF Range
  <2>2. k \in 1..Done(y) /\ source[k] \in Items
    BY <1>1, <1>2 DEF SyncTypes
  <2> QED
    BY Zenon, <1>1, <2>1, <2>2 DEF Undisturbed
<1>4. y_ids[y] # {}
  BY <1>1, <1>2 DEF Undisturbed
<1>5. ASSUME NEW i \in Items, i \notin Range(source), content_hash[i] # Absent
      PROVE is_deleted_in_source'[i]
  <2>1. i \in Existing \ y_ids[y] /\ i \in Rows
    BY Zenon, <1>1, <1>5 DEF Existing, Undisturbed, Rows
  <2>2. is_deleted_in_source[i] \/ i \in missing
    BY Zenon, <1>4, <2>1
  <2> QED
    BY Zenon, <1>1, <2>1, <2>2
<1>6. Mirrored'
  BY Zenon, <1>1, <1>3, <1>5 DEF Mirrored
<1>7. \A i \in Range(source) : is_deleted_in_source'[i] => is_deleted_in_source[i]
  BY Zenon, <1>1, <1>3 DEF Rows
<1> QED
  BY Zenon, <1>6, <1>7

\* sync_full, for any source, any number of pages and of runs: a full run that
\* nothing disturbs hides exactly the mirrored contents the source no longer has
\* and leaves the others as the source has them.
THEOREM UndisturbedRunMirrors == TabyinSpec => CleanRunMirrors
<1>1. SyncInv /\ [TabyinNext]_tabyinVars =>
        [\A y \in FullRuns : _soft_delete_missing(y) /\ y_clean[y] =>
            /\ Mirrored'
            /\ \A i \in Range(source) : is_deleted_in_source'[i] => is_deleted_in_source[i]
        ]_tabyinVars
  BY Zenon, CleanDeletion
<1>2. TabyinSpec => [][TabyinNext]_tabyinVars
  BY Zenon DEF TabyinSpec
<1> QED
  BY <1>1, <1>2, SyncInvariance, PTL DEF CleanRunMirrors
=============================================================================
