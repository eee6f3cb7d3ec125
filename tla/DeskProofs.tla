----------------------------- MODULE DeskProofs -----------------------------
(***************************************************************************)
(* What is proved of Desk, for every set of documents, paths and texts and *)
(* every bound: its invariants, its action properties, and that it         *)
(* implements KeptWork.                                                    *)
(***************************************************************************)
EXTENDS Desk, TLAPS

-----------------------------------------------------------------------------
(* The inductive invariant.  Documents and window state are parameters: a   *)
(* dispatch is judged on what its handler leaves, before what follows it.   *)

\* What the window points to is open.
Coherent(docs, u) ==
  /\ u.focus # NoText => docs[u.focus].open
  /\ u.pending.doc # NoText => docs[u.pending.doc].open
  /\ u.retaining # NoText => u.window = "open" /\ docs[u.retaining].open

Copied(docs) ==
  \A d \in Docs : docs[d].open /\ docs[d].text # docs[d].saved => docs[d].copy = docs[d].text

\* The document of a write stays where it is until the write has returned.
Target ==
  /\ ui.window = "open"
  /\ op.doc # NoText => doc[op.doc].open /\ (op.new \/ op.path = doc[op.doc].path)
  /\ \A d \in op.rest : doc[d].open
  /\ op.stage # "failed" => op.doc # NoText
  /\ op.new \/ op.stage \in {"stage", "sync", "replace", "observe"} => op.path \in Paths
  /\ op.after = "reload" => op.doc = ui.focus

\* What a step of a write may rely on.
Progress ==
  /\ op.stage = "replace" => op.temp = "whole"
  /\ op.stage \in {"stage", "sync", "replace"} /\ ~op.new =>
       op.raced \/ disk[op.path].text = doc[op.doc].base
  /\ op.stage = "ok" => ~Unsaved(op.doc)

Underway == op.stage # "idle" => Target /\ Progress

\* Theme changes and a request to close wait in the workshop, past the metre draft.
PanelsWait ==
  /\ panels.changed => panels.shop
  /\ panels.quit => panels.shop /\ ~panels.metre

Inv ==
  /\ TypeOK /\ FilesAreWhole /\ Coherent(doc, ui) /\ Copied(doc)
  /\ Underway /\ PanelsWait

-----------------------------------------------------------------------------
(* A dispatch *)

\* Document d as KeptWork sees it.
View(docs, u, c, d) ==
  [open |-> docs[d].open /\ u.window = "open", path |-> docs[d].path, text |-> docs[d].text,
   seen |-> docs[d].saved, copy |-> docs[d].copy, agreed |-> d \in c]

\* What follows every dispatch leaves the text alone and brings the copies up to date.
LEMMA SyncShape ==
  ASSUME NEW docs \in [Docs -> Document], NEW ok \in BOOLEAN
  PROVE  /\ sync_recovery(docs, ok) \in [Docs -> Document]
         /\ Copied(sync_recovery(docs, ok))
         /\ \A d \in Docs :
              LET e == sync_recovery(docs, ok)[d]
              IN  /\ e.open = docs[d].open /\ e.path = docs[d].path /\ e.text = docs[d].text
                  /\ e.saved = docs[d].saved
                  /\ ~docs[d].open => e = docs[d]
                  /\ docs[d].open /\ docs[d].text # docs[d].saved => e.copy = docs[d].text
  <1> DEFINE new == sync_recovery(docs, ok)
  <1>1. ASSUME NEW d \in Docs
        PROVE  /\ new[d] \in Document
               /\ new[d].open = docs[d].open /\ new[d].path = docs[d].path
               /\ new[d].text = docs[d].text /\ new[d].saved = docs[d].saved
               /\ ~docs[d].open => new[d] = docs[d]
               /\ docs[d].open /\ docs[d].text # docs[d].saved => new[d].copy = docs[d].text
    <2>1. docs[d] \in Document
      OBVIOUS
    <2>2. CASE docs[d].open /\ docs[d].text # docs[d].saved
      <3>1. new[d] = [docs[d] EXCEPT !.copy = docs[d].text]
        BY <2>2 DEF sync_recovery
      <3> QED
        BY <2>1, <2>2, <3>1 DEF Document
    <2>3. CASE docs[d].open /\ docs[d].text = docs[d].saved /\ ok
      <3>1. new[d] = [docs[d] EXCEPT !.copy = NoText]
        BY <2>3 DEF sync_recovery
      <3> QED
        BY <2>1, <2>3, <3>1 DEF Document
    <2>4. CASE /\ ~(docs[d].open /\ docs[d].text # docs[d].saved)
               /\ ~(docs[d].open /\ docs[d].text = docs[d].saved /\ ok)
      <3>1. new[d] = docs[d]
        BY <2>4 DEF sync_recovery
      <3> QED
        BY <2>1, <2>4, <3>1
    <2> QED
      BY <2>2, <2>3, <2>4
  <1>2. new \in [Docs -> Document]
    BY <1>1 DEF sync_recovery
  <1>3. Copied(new)
    BY <1>1 DEF Copied
  <1> QED
    BY <1>1, <1>2, <1>3

\* The worker's answer, when it is taken, ends the retention and nothing else.
LEMMA DrainShape ==
  ASSUME NEW u \in Ui
  PROVE  /\ drain_retention(u) \in Ui
         /\ drain_retention(u).focus = u.focus /\ drain_retention(u).pending = u.pending
         /\ drain_retention(u).window = u.window
         /\ drain_retention(u).retaining \in {u.retaining, NoText}
  BY DEF drain_retention, Ui

\* The step of a document that KeptWork allows before the copies are brought up
\* to date, it allows after.
LEMMA SyncView ==
  ASSUME NEW docs \in [Docs -> Document], NEW u \in Ui, NEW c, NEW ok \in BOOLEAN,
         NEW d \in Docs, doc \in [Docs -> Document], ui.window = "open",
         u.window = "open" \/ docs = doc,
         KW!DocStep(View(doc, ui, consent.docs, d), View(docs, u, c, d))
  PROVE  KW!DocStep(View(doc, ui, consent.docs, d),
                    View(sync_recovery(docs, ok), drain_retention(u), c, d))
  <1> DEFINE w == View(doc, ui, consent.docs, d)
             m == View(docs, u, c, d)
             n == View(sync_recovery(docs, ok), drain_retention(u), c, d)
  <1>1. /\ n.open = m.open /\ n.path = m.path /\ n.text = m.text /\ n.seen = m.seen
        /\ n.agreed = m.agreed
    BY SyncShape, DrainShape DEF View
  <1>2. m.open /\ m.text # m.seen => n.copy = m.text
    <2> SUFFICES ASSUME m.open, m.text # m.seen PROVE n.copy = m.text
      OBVIOUS
    <2>1. docs[d].open /\ docs[d].text # docs[d].saved
      BY DEF View
    <2>2. sync_recovery(docs, ok)[d].copy = docs[d].text
      BY <2>1, SyncShape
    <2> QED
      BY <2>2 DEF View
  <1>3. ~docs[d].open => n = m
    BY SyncShape, DrainShape DEF View
  <1>4. w.open <=> doc[d].open
    BY DEF View
  <1>5. CASE m = w
    <2>1. CASE docs[d].open /\ m.open
      <3>1. w.open /\ n.open
        BY <1>1, <1>5, <2>1
      <3>2. n.copy = w.text \/ ~KW!Unsaved(w)
        BY <1>2, <1>5, <2>1 DEF KW!Unsaved
      <3> QED
        BY <1>1, <1>5, <3>1, <3>2 DEF KW!DocStep, KW!IsKept
    <2>2. CASE docs[d].open /\ ~m.open
      <3>1. docs = doc
        BY <2>2 DEF View
      <3>2. w.open
        BY <1>4, <2>2, <3>1
      <3> QED
        BY <1>5, <2>2, <3>2
    <2>3. CASE ~docs[d].open
      BY <1>3, <1>5, <2>3 DEF KW!DocStep
    <2> QED
      BY <2>1, <2>2, <2>3
  <1>6. CASE KW!Opens(w, m) \/ KW!Types(w, m) \/ KW!IsSaved(w, m) \/ KW!IsReloaded(w, m)
    BY <1>1, <1>6 DEF KW!DocStep, KW!Opens, KW!Types, KW!IsSaved, KW!IsReloaded
  <1>7. CASE KW!IsKept(w, m)
    <2>1. n.copy = w.text \/ ~KW!Unsaved(w)
      BY <1>2, <1>7 DEF KW!IsKept, KW!Unsaved
    <2> QED
      BY <1>1, <1>7, <2>1 DEF KW!DocStep, KW!IsKept
  <1>8. CASE KW!Leaves(w, m)
    BY <1>1, <1>8 DEF KW!DocStep, KW!Leaves
  <1> QED
    BY <1>5, <1>6, <1>7, <1>8 DEF KW!DocStep

\* When every document makes a step KeptWork allows and the files stay, the
\* whole is a step of KeptWork.
LEMMA WorkStep ==
  ASSUME disk' = disk,
         \A d \in Docs : KW!DocStep(View(doc, ui, consent.docs, d), View(doc', ui', consent'.docs, d))
  PROVE  KW!Next
  BY DEF KW!Next, View

\* The window goes with everything settled or given up.
CloseAgreed ==
  /\ ~panels'.metre /\ ~panels'.changed
  /\ panels'.draft => consent'.draft \/ ui.discard

\* What a handler may leave for what follows every dispatch.
Allowed(docs, u) ==
  /\ docs \in [Docs -> Document] /\ u \in Ui
  /\ Coherent(docs, u)
  /\ u.window = ui.window \/ (docs = doc /\ CloseAgreed)
  /\ \A d \in Docs : KW!DocStep(View(doc, ui, consent.docs, d), View(docs, u, consent'.docs, d))

\* A handler leaves docs and u, then what follows every dispatch happens.
DispatchStep ==
  \E shop \in BOOLEAN, ok \in BOOLEAN, docs \in [Docs -> Document], u \in Ui :
    AfterDispatch(shop, docs, u, ok) /\ (shop => docs = doc) /\ Allowed(docs, u)

\* No write is under way afterwards.
Quiet ==
  /\ disk' = disk /\ op' \in Write /\ op'.stage = "idle"
  /\ panels' \in Panels /\ PanelsWait'
  /\ consent' \in [docs : SUBSET Docs, draft : BOOLEAN]

\* What is proved of every step.
Good == Inv' /\ KW!Next /\ (ui'.window # ui.window => CloseAgreed)

LEMMA DispatchGood ==
  ASSUME Inv, ui.window = "open", DispatchStep, Quiet
  PROVE  Good
  <1>1. PICK shop \in BOOLEAN, ok \in BOOLEAN, docs \in [Docs -> Document], u \in Ui :
          /\ AfterDispatch(shop, docs, u, ok)
          /\ shop => docs = doc
          /\ Coherent(docs, u)
          /\ u.window = ui.window \/ (docs = doc /\ CloseAgreed)
          /\ \A d \in Docs : KW!DocStep(View(doc, ui, consent.docs, d), View(docs, u, consent'.docs, d))
    BY DEF DispatchStep, Allowed
  <1>2. doc \in [Docs -> Document] /\ disk \in [Paths -> File] /\ FilesAreWhole /\ Copied(doc)
    BY DEF Inv, TypeOK
  <1>3. /\ doc' \in [Docs -> Document] /\ ui' \in Ui /\ Coherent(doc', ui') /\ Copied(doc')
        /\ ui'.window = u.window
        /\ \A d \in Docs : KW!DocStep(View(doc, ui, consent.docs, d), View(doc', ui', consent'.docs, d))
    <2>1. CASE shop
      BY <1>1, <1>2, <2>1 DEF AfterDispatch
    <2>2. CASE ~shop
      <3>1. doc' = sync_recovery(docs, ok) /\ ui' = drain_retention(u)
        BY <1>1, <2>2 DEF AfterDispatch
      <3>2. doc' \in [Docs -> Document] /\ ui' \in Ui /\ Copied(doc') /\ ui'.window = u.window
        BY <3>1, SyncShape, DrainShape
      <3>3. Coherent(doc', ui')
        <4>1. /\ ui'.focus = u.focus /\ ui'.pending = u.pending /\ ui'.window = u.window
              /\ ui'.retaining \in {u.retaining, NoText}
          BY <3>1, DrainShape
        <4>2. \A d \in Docs : doc'[d].open = docs[d].open
          BY <3>1, SyncShape
        <4>3. /\ u.focus \in Docs \cup {NoText} /\ u.pending.doc \in Docs \cup {NoText}
              /\ u.retaining \in Docs \cup {NoText}
          BY DEF Ui, Prompt
        <4> QED
          BY <1>1, <4>1, <4>2, <4>3 DEF Coherent
      <3>4. u.window = "open" \/ docs = doc
        BY <1>1
      <3>5. ASSUME NEW d \in Docs
            PROVE  KW!DocStep(View(doc, ui, consent.docs, d), View(doc', ui', consent'.docs, d))
        BY <1>1, <1>2, <3>1, <3>4, SyncView
      <3> QED
        BY <3>2, <3>3, <3>5
    <2> QED
      BY <2>1, <2>2
  <1>4. KW!Next
    BY <1>3, WorkStep DEF Quiet
  <1>5. ui'.window # ui.window => CloseAgreed
    BY <1>1, <1>3
  <1>6. TypeOK' /\ FilesAreWhole'
    BY <1>2, <1>3 DEF Quiet, TypeOK, FilesAreWhole
  <1>7. Underway' /\ PanelsWait'
    BY DEF Quiet, Underway
  <1>8. Coherent(doc, ui)' /\ Copied(doc)'
    BY <1>3
  <1> QED
    BY <1>4, <1>5, <1>6, <1>7, <1>8 DEF Inv, Good

-----------------------------------------------------------------------------
(* What a document may do in a handler *)

\* Types that the handlers build from.
LEMMA Types ==
  ASSUME Inv
  PROVE  /\ \A d \in Docs : doc[d] \in Document
         /\ \A p \in Paths : disk[p] \in File /\ disk[p].text \in Texts \cup {NoText}
         /\ ui \in Ui /\ panels \in Panels /\ op \in Write
         /\ consent \in [docs : SUBSET Docs, draft : BOOLEAN]
         /\ ui.focus \in Docs \cup {NoText} /\ ui.pending \in Prompt
         /\ ui.pending.doc \in Docs \cup {NoText} /\ ui.retaining \in Docs \cup {NoText}
  BY DEF Inv, TypeOK, FilesAreWhole, Ui, Prompt, File

\* A document the handler leaves alone makes no step.
LEMMA Alone ==
  ASSUME NEW docs, NEW u, NEW c, NEW d \in Docs, docs[d] = doc[d], u.window = ui.window,
         d \in c <=> d \in consent.docs
  PROVE  KW!DocStep(View(doc, ui, consent.docs, d), View(docs, u, c, d))
  <1>1. (d \in c) = (d \in consent.docs)
    OBVIOUS
  <1>2. View(doc, ui, consent.docs, d) = View(docs, u, c, d)
    BY <1>1 DEF View
  <1> QED
    BY <1>2 DEF KW!DocStep

\* An open document keeps its text when only the agreement about it changes.
LEMMA Kept ==
  ASSUME NEW docs, NEW u, NEW c, NEW d \in Docs, doc[d].open, docs[d] = doc[d],
         ui.window = "open", u.window = "open"
  PROVE  KW!DocStep(View(doc, ui, consent.docs, d), View(docs, u, c, d))
  <1> DEFINE w == View(doc, ui, consent.docs, d)
             n == View(docs, u, c, d)
  <1>1. w.open /\ n.open
    BY DEF View
  <1>2. n.path = w.path /\ n.text = w.text /\ n.seen = w.seen /\ n.copy = w.copy
    BY DEF View
  <1> QED
    BY <1>1, <1>2 DEF KW!DocStep, KW!IsKept

\* A handler that leaves the documents alone.
LEMMA SameAllowed ==
  ASSUME Inv, ui.window = "open", NEW u \in Ui, Coherent(doc, u), u.window = "open",
         \A d \in Docs : ~doc[d].open => (d \in consent'.docs <=> d \in consent.docs)
  PROVE  Allowed(doc, u)
  <1>1. ASSUME NEW d \in Docs
        PROVE  KW!DocStep(View(doc, ui, consent.docs, d), View(doc, u, consent'.docs, d))
    BY Alone, Kept
  <1>2. doc \in [Docs -> Document]
    BY DEF Inv, TypeOK
  <1> QED
    BY <1>1, <1>2 DEF Allowed

LEMMA SameDocs ==
  ASSUME Inv, ui.window = "open", NEW shop \in BOOLEAN, NEW ok \in BOOLEAN, NEW u \in Ui,
         Coherent(doc, u), u.window = "open", AfterDispatch(shop, doc, u, ok),
         \A d \in Docs : ~doc[d].open => (d \in consent'.docs <=> d \in consent.docs)
  PROVE  DispatchStep
  BY SameAllowed DEF DispatchStep, Allowed

\* close_document: the tab goes or, while it is retained, nothing does.
LEMMA CloseShape ==
  ASSUME NEW docs \in [Docs -> Document], NEW u \in Ui, Coherent(docs, u), NEW d \in Docs
  PROVE  LET r == AfterClose(docs, u, d)
         IN  /\ r.docs \in [Docs -> Document] /\ r.ui \in Ui /\ Coherent(r.docs, r.ui)
             /\ r.ui.window = u.window
             /\ \A e \in Docs \ {d} : r.docs[e] = docs[e]
             /\ r.docs[d] = docs[d] \/ (~r.docs[d].open /\ r.docs[d].copy = NoText)
  <1> DEFINE r == AfterClose(docs, u, d)
  <1>0. Closed \in Document /\ ~Closed.open /\ Closed.copy = NoText
    BY DEF Closed, Document
  <1>1. CASE u.retaining = d
    BY <1>1 DEF AfterClose
  <1>2. CASE u.retaining # d
    <2> DEFINE left == {e \in Docs \ {d} : docs[e].open}
               focus == IF u.focus # d THEN u.focus
                        ELSE IF left = {} THEN NoText ELSE CHOOSE e \in left : TRUE
               pending == IF u.pending.doc = d THEN [u.pending EXCEPT !.doc = NoText] ELSE u.pending
    <2>1. r.docs = [docs EXCEPT ![d] = Closed]
          /\ r.ui = [u EXCEPT !.focus = focus, !.pending = pending]
      BY <1>2 DEF AfterClose
    <2>2. focus \in Docs \cup {NoText} /\ (focus # NoText => focus # d /\ docs[focus].open)
      <3>1. CASE u.focus # d
        BY <3>1 DEF Ui, Coherent
      <3>2. CASE u.focus = d /\ left = {}
        BY <3>2
      <3>3. CASE u.focus = d /\ left # {}
        BY <3>3
      <3> QED
        BY <3>1, <3>2, <3>3
    <2>3. pending \in Prompt /\ (pending.doc # NoText => pending.doc # d /\ pending.doc = u.pending.doc)
      BY DEF Ui, Prompt
    <2> HIDE DEF focus, pending, left
    <2>4. /\ r.ui \in Ui /\ r.ui.focus = focus /\ r.ui.pending = pending
          /\ r.ui.window = u.window /\ r.ui.retaining = u.retaining
      BY <2>1, <2>2, <2>3 DEF Ui
    <2>5. r.docs \in [Docs -> Document] /\ ~r.docs[d].open /\ r.docs[d].copy = NoText
          /\ \A e \in Docs \ {d} : r.docs[e] = docs[e]
      BY <1>0, <2>1
    <2>6. u.retaining \in Docs \cup {NoText} /\ u.pending.doc \in Docs \cup {NoText}
      BY DEF Ui, Prompt
    <2>7. Coherent(r.docs, r.ui)
      BY <1>2, <2>2, <2>3, <2>4, <2>5, <2>6 DEF Coherent
    <2> QED
      BY <2>4, <2>5, <2>7
  <1> QED
    BY <1>1, <1>2

\* docs are the documents with d as its file has it, or as it was.
ReloadedTo(docs, d) ==
  /\ docs \in [Docs -> Document] /\ \A e \in Docs : docs[e].open = doc[e].open
  /\ \A e \in Docs \ {d} : docs[e] = doc[e]
  /\ \/ docs[d] = doc[d]
     \/ /\ docs[d].path = doc[d].path /\ docs[d].path \in Paths
        /\ docs[d].text = disk[docs[d].path].text /\ docs[d].saved = docs[d].text

\* reload: the file's text, whole, or nothing.
LEMMA ReloadShape ==
  ASSUME Inv, NEW d \in Docs, doc[d].open
  PROVE  ReloadedTo(Reloaded(doc, d), d)
  <1> DEFINE f == disk[doc[d].path]
  <1>1. doc \in [Docs -> Document] /\ doc[d] \in Document
    BY DEF Inv, TypeOK
  <1>2. CASE doc[d].ro \/ doc[d].path = NoText \/ f = NoFile
    <2>1. Reloaded(doc, d) = doc
      BY <1>2 DEF Reloaded
    <2> QED
      BY <1>1, <2>1 DEF ReloadedTo
  <1>3. CASE ~(doc[d].ro \/ doc[d].path = NoText \/ f = NoFile)
    <2> DEFINE e == [doc[d] EXCEPT !.text = f.text, !.saved = f.text, !.base = f.text,
                                   !.handle = f.handle]
    <2>1. Reloaded(doc, d) = [doc EXCEPT ![d] = e]
      BY <1>3 DEF Reloaded
    <2>2. doc[d].path \in Paths
      BY <1>1, <1>3 DEF Document
    <2>3. f.text \in Texts \cup {NoText} /\ f.handle \in Handles \cup {0}
      BY <2>2, Types DEF File
    <2>4. e \in Document /\ e.open = doc[d].open /\ e.path = doc[d].path /\ e.text = f.text
          /\ e.saved = f.text
      BY <1>1, <2>3 DEF Document
    <2> HIDE DEF e
    <2> QED
      BY <1>1, <2>1, <2>2, <2>4 DEF ReloadedTo
  <1> QED
    BY <1>2, <1>3

\* What a handler for the desk finds.
LEMMA AtDeskState ==
  ASSUME Inv, AtDesk
  PROVE  ui.window = "open" /\ op.stage = "idle" /\ panels.shop = FALSE
  BY DEF AtDesk, Ready, Inv, TypeOK, Panels

\* A handler that neither writes nor touches the panels is quiet.
LEMMA StaysQuiet ==
  ASSUME Inv, op.stage = "idle", UNCHANGED <<disk, panels, op>>,
         consent' \in [docs : SUBSET Docs, draft : BOOLEAN]
  PROVE  Quiet
  BY DEF Inv, TypeOK, PanelsWait, Quiet

\* What a tab may open on: what a file holds, or a fresh document.
OpensOn(e) ==
  /\ e \in Document /\ e.open /\ e.text = e.saved
  /\ e.path # NoText => e.path \in Paths /\ e.text = disk[e.path].text

\* docs are the documents with tab d open.
OpenedTo(docs, d) ==
  /\ docs \in [Docs -> Document] /\ \A e \in Docs \ {d} : docs[e] = doc[e]
  /\ OpensOn(docs[d])

\* A tab opens.
LEMMA OpensTab ==
  ASSUME Inv, ui.window = "open", NEW d \in Docs, ~doc[d].open,
         NEW docs, OpenedTo(docs, d),
         NEW ok \in BOOLEAN, AfterDispatch(FALSE, docs, Focused(d), ok),
         \A c \in Docs \ {d} : c \in consent'.docs <=> c \in consent.docs
  PROVE  DispatchStep
  <1> DEFINE u == Focused(d)
             e == docs[d]
  <1>1. doc \in [Docs -> Document] /\ ui \in Ui /\ Coherent(doc, ui)
    BY DEF Inv, TypeOK
  <1>0. e \in Document /\ e.open /\ e.text = e.saved
        /\ (e.path # NoText => e.path \in Paths /\ e.text = disk[e.path].text)
    BY DEF OpensOn, OpenedTo
  <1>2. docs \in [Docs -> Document] /\ docs[d] = e /\ \A c \in Docs \ {d} : docs[c] = doc[c]
    BY DEF OpenedTo
  <1>3. u \in Ui /\ u.focus = d /\ u.pending = ui.pending /\ u.window = ui.window
        /\ u.retaining = ui.retaining
    BY <1>1 DEF Focused, Ui
  <1> HIDE DEF u
  <1>4. Coherent(docs, u)
    BY <1>0, <1>1, <1>2, <1>3, Types DEF Coherent
  <1>5. ASSUME NEW c \in Docs
        PROVE  KW!DocStep(View(doc, ui, consent.docs, c), View(docs, u, consent'.docs, c))
    <2>1. CASE c = d
      <3> DEFINE w == View(doc, ui, consent.docs, d)
                 n == View(docs, u, consent'.docs, d)
      <3>1. ~w.open /\ n.open
        BY <1>0, <1>2, <1>3 DEF View
      <3>2. n.text = e.text /\ n.seen = e.saved /\ n.path = e.path
        BY <1>2 DEF View
      <3> QED
        BY <1>0, <2>1, <3>1, <3>2 DEF KW!DocStep, KW!Opens
    <2>2. CASE c # d
      BY <1>2, <1>3, <2>2, Alone
    <2> QED
      BY <2>1, <2>2
  <1> QED
    BY <1>2, <1>3, <1>4, <1>5 DEF DispatchStep, Allowed, u

\* A tab closes by close_document; unsaved text goes by agreement only.
LEMMA ClosesAllowed ==
  ASSUME Inv, ui.window = "open", NEW d \in Docs, doc[d].open, NEW u \in Ui, Coherent(doc, u),
         u.window = "open",
         Unsaved(d) => d \in consent'.docs,
         \A e \in Docs \ {d} : e \in consent'.docs <=> e \in consent.docs
  PROVE  Allowed(AfterClose(doc, u, d).docs, AfterClose(doc, u, d).ui)
  <1> DEFINE docs == AfterClose(doc, u, d).docs
             v == AfterClose(doc, u, d).ui
  <1>1. doc \in [Docs -> Document]
    BY DEF Inv, TypeOK
  <1>2. /\ docs \in [Docs -> Document] /\ v \in Ui /\ Coherent(docs, v) /\ v.window = "open"
        /\ \A e \in Docs \ {d} : docs[e] = doc[e]
        /\ docs[d] = doc[d] \/ ~docs[d].open
    BY <1>1, CloseShape
  <1> HIDE DEF docs, v
  <1>3. ASSUME NEW c \in Docs
        PROVE  KW!DocStep(View(doc, ui, consent.docs, c), View(docs, v, consent'.docs, c))
    <2>1. CASE c # d
      BY <1>2, <2>1, Alone
    <2>2. CASE c = d /\ docs[d] = doc[d]
      BY <1>2, <2>2, Kept
    <2>3. CASE c = d /\ ~docs[d].open
      <3> DEFINE w == View(doc, ui, consent.docs, d)
                 n == View(docs, v, consent'.docs, d)
      <3>1. w.open /\ ~n.open
        BY <2>3 DEF View
      <3>2. w.text # w.seen => Unsaved(d)
        BY DEF View, Unsaved
      <3>3. Unsaved(d) => n.agreed
        BY DEF View
      <3> QED
        BY <2>3, <3>1, <3>2, <3>3 DEF KW!DocStep, KW!Leaves, KW!Unsaved
    <2> QED
      BY <1>2, <2>1, <2>2, <2>3
  <1> QED
    BY <1>2, <1>3 DEF Allowed, docs, v

LEMMA ClosesTab ==
  ASSUME Inv, ui.window = "open", NEW d \in Docs, doc[d].open, NEW u \in Ui, Coherent(doc, u),
         u.window = "open", NEW ok \in BOOLEAN,
         AfterDispatch(FALSE, AfterClose(doc, u, d).docs, AfterClose(doc, u, d).ui, ok),
         Unsaved(d) => d \in consent'.docs,
         \A e \in Docs \ {d} : e \in consent'.docs <=> e \in consent.docs
  PROVE  DispatchStep
  <1> DEFINE docs == AfterClose(doc, u, d).docs
             v == AfterClose(doc, u, d).ui
  <1>1. Allowed(docs, v)
    BY ClosesAllowed
  <1>2. AfterDispatch(FALSE, docs, v, ok)
    OBVIOUS
  <1> HIDE DEF docs, v
  <1> QED
    BY <1>1, <1>2 DEF DispatchStep, Allowed

\* A document is reloaded; unsaved text goes by agreement only.
LEMMA ReloadAllowed ==
  ASSUME Inv, ui.window = "open", NEW d \in Docs, doc[d].open, NEW u \in Ui, Coherent(doc, u),
         u.window = "open", NEW docs, ReloadedTo(docs, d),
         Unsaved(d) => d \in consent'.docs,
         \A e \in Docs \ {d} : e \in consent'.docs <=> e \in consent.docs
  PROVE  Allowed(docs, u)
  <1>0. /\ docs \in [Docs -> Document] /\ \A e \in Docs : docs[e].open = doc[e].open
        /\ \A e \in Docs \ {d} : docs[e] = doc[e]
        /\ \/ docs[d] = doc[d]
           \/ /\ docs[d].path = doc[d].path /\ docs[d].path \in Paths
              /\ docs[d].text = disk[docs[d].path].text /\ docs[d].saved = docs[d].text
    BY DEF ReloadedTo
  <1>1. Coherent(docs, u)
    <2>1. /\ u.focus \in Docs \cup {NoText} /\ u.pending.doc \in Docs \cup {NoText}
          /\ u.retaining \in Docs \cup {NoText}
      BY DEF Ui, Prompt
    <2> QED
      BY <1>0, <2>1 DEF Coherent
  <1>2. ASSUME NEW c \in Docs
        PROVE  KW!DocStep(View(doc, ui, consent.docs, c), View(docs, u, consent'.docs, c))
    <2>1. CASE c # d
      BY <1>0, <2>1, Alone
    <2>2. CASE c = d /\ docs[d] = doc[d]
      BY <2>2, Kept
    <2>3. CASE c = d /\ docs[d] # doc[d]
      <3> DEFINE w == View(doc, ui, consent.docs, d)
                 n == View(docs, u, consent'.docs, d)
      <3>1. w.open /\ n.open
        BY <1>0 DEF View
      <3>2. (w.text # w.seen => Unsaved(d)) /\ (Unsaved(d) => n.agreed)
        BY DEF View, Unsaved
      <3>3. n.path = w.path /\ n.path \in Paths /\ n.text = disk[n.path].text /\ n.seen = n.text
        BY <1>0, <2>3 DEF View
      <3> QED
        BY <2>3, <3>1, <3>2, <3>3 DEF KW!DocStep, KW!IsReloaded, KW!Unsaved
    <2> QED
      BY <2>1, <2>2, <2>3
  <1> QED
    BY <1>0, <1>1, <1>2 DEF Allowed

LEMMA Reloads ==
  ASSUME Inv, ui.window = "open", NEW d \in Docs, doc[d].open, NEW u \in Ui, Coherent(doc, u),
         u.window = "open", NEW ok \in BOOLEAN, NEW docs, ReloadedTo(docs, d),
         AfterDispatch(FALSE, docs, u, ok),
         Unsaved(d) => d \in consent'.docs,
         \A e \in Docs \ {d} : e \in consent'.docs <=> e \in consent.docs
  PROVE  DispatchStep
  <1>1. Allowed(docs, u)
    BY ReloadAllowed
  <1> QED
    BY <1>1 DEF DispatchStep, Allowed

-----------------------------------------------------------------------------
(* Handlers on documents *)

\* OpenPath, by showing the tab the file has or opening one.
LEMMA OpenPathGood ==
  ASSUME Inv, NEW d \in Docs, NEW p \in Paths, OpenPath(d, p)
  PROVE  Good
  <1>1. /\ ui.window = "open" /\ op.stage = "idle" /\ panels.shop = FALSE
        /\ disk[p] # NoFile /\ UNCHANGED <<disk, panels, op>>
        /\ consent' = [consent EXCEPT !.docs = consent.docs \ {d}]
    BY AtDeskState DEF OpenPath
  <1>2. consent' \in [docs : SUBSET Docs, draft : BOOLEAN] /\ consent'.docs = consent.docs \ {d}
    BY <1>1 DEF Inv, TypeOK
  <1>3. Quiet
    BY <1>1, <1>2, StaysQuiet
  <1>4. DispatchStep
    <2>1. CASE \E e \in Docs : doc[e].open /\ doc[e].path = p
      <3>1. doc[d].open
        BY <2>1 DEF OpenPath
      <3>2. PICK ok \in BOOLEAN : AfterDispatch(FALSE, doc, Focused(d), ok)
        BY <1>1, <2>1 DEF OpenPath, Handled, HandledIn
      <3>3. Focused(d) \in Ui /\ Coherent(doc, Focused(d)) /\ Focused(d).window = "open"
        BY <1>1, <3>1, Types DEF Inv, Focused, Ui, Coherent
      <3> QED
        BY <1>1, <1>2, <3>1, <3>2, <3>3, SameDocs
    <2>2. CASE ~ \E e \in Docs : doc[e].open /\ doc[e].path = p
      <3> DEFINE e == Opened(p, disk[p])
      <3>1. ~doc[d].open
        BY <2>2 DEF OpenPath
      <3>2. PICK ok \in BOOLEAN : AfterDispatch(FALSE, [doc EXCEPT ![d] = e], Focused(d), ok)
        BY <1>1, <2>2 DEF OpenPath, Handled, HandledIn
      <3>3. e \in Document /\ e.open /\ e.text = e.saved /\ e.path = p /\ e.text = disk[p].text
        BY Types DEF Opened, Document, File
      <3>4. e.path # NoText => e.path \in Paths /\ e.text = disk[e.path].text
        BY <3>3
      <3>5. OpensOn(e)
        BY <3>3, <3>4 DEF OpensOn
      <3> DEFINE docs == [doc EXCEPT ![d] = e]
      <3> HIDE DEF e
      <3>6. AfterDispatch(FALSE, docs, Focused(d), ok)
        BY <3>2
      <3>7. OpenedTo(docs, d)
        BY <3>5 DEF OpenedTo, OpensOn, Inv, TypeOK
      <3> HIDE DEF docs
      <3>8. \A c \in Docs \ {d} : c \in consent'.docs <=> c \in consent.docs
        BY <1>2
      <3> QED
        BY <1>1, <3>1, <3>6, <3>7, <3>8, OpensTab
    <2> QED
      BY <2>1, <2>2
  <1> QED
    BY <1>1, <1>3, <1>4, DispatchGood

\* NewDocument.
LEMMA NewDocumentGood ==
  ASSUME Inv, NEW d \in Docs, NewDocument(d)
  PROVE  Good
  <1>1. /\ ui.window = "open" /\ op.stage = "idle" /\ panels.shop = FALSE
        /\ UNCHANGED <<disk, panels, op>> /\ ~doc[d].open
        /\ consent' = [consent EXCEPT !.docs = consent.docs \ {d}]
    BY AtDeskState DEF NewDocument
  <1>2. consent' \in [docs : SUBSET Docs, draft : BOOLEAN] /\ consent'.docs = consent.docs \ {d}
    BY <1>1 DEF Inv, TypeOK
  <1>3. PICK ok \in BOOLEAN : AfterDispatch(FALSE, [doc EXCEPT ![d] = Scratch], Focused(d), ok)
    BY <1>1 DEF NewDocument, Handled, HandledIn
  <1>4. Scratch \in Document /\ Scratch.open /\ Scratch.text = Scratch.saved /\ Scratch.path = NoText
    BY DeskAssumption DEF Scratch, Closed, Document
  <1>5. OpensOn(Scratch)
    BY <1>4 DEF OpensOn
  <1>6. DispatchStep
    <2> DEFINE docs == [doc EXCEPT ![d] = Scratch]
    <2>1. AfterDispatch(FALSE, docs, Focused(d), ok)
      BY <1>3
    <2>2. OpenedTo(docs, d)
      BY <1>5 DEF OpenedTo, OpensOn, Inv, TypeOK
    <2> HIDE DEF docs
    <2>3. \A c \in Docs \ {d} : c \in consent'.docs <=> c \in consent.docs
      BY <1>2
    <2> QED
      BY <1>1, <2>1, <2>2, <2>3, OpensTab
  <1> QED
    BY <1>1, <1>2, <1>6, StaysQuiet, DispatchGood

\* Focus.
LEMMA FocusGood ==
  ASSUME Inv, NEW d \in Docs, Focus(d)
  PROVE  Good
  <1>1. /\ ui.window = "open" /\ op.stage = "idle" /\ panels.shop = FALSE
        /\ UNCHANGED <<disk, panels, op, consent>> /\ doc[d].open
    BY AtDeskState DEF Focus
  <1>2. PICK ok \in BOOLEAN : AfterDispatch(FALSE, doc, Focused(d), ok)
    BY <1>1 DEF Focus, Handled, HandledIn
  <1>3. Focused(d) \in Ui /\ Coherent(doc, Focused(d)) /\ Focused(d).window = "open"
    BY <1>1, Types DEF Inv, Focused, Ui, Coherent
  <1>4. DispatchStep
    BY <1>1, <1>2, <1>3, SameDocs
  <1> QED
    BY <1>1, <1>4, Types, StaysQuiet, DispatchGood

\* Edit: what the user had agreed to lose is another text now.
LEMMA EditGood ==
  ASSUME Inv, NEW d \in Docs, NEW x \in Texts, Edit(d, x)
  PROVE  Good
  <1> DEFINE docs == [doc EXCEPT ![d].text = x]
  <1>1. /\ ui.window = "open" /\ op.stage = "idle" /\ panels.shop = FALSE
        /\ UNCHANGED <<disk, panels, op>> /\ d = ui.focus
        /\ consent' = [consent EXCEPT !.docs = consent.docs \ {d}]
    BY AtDeskState DEF Edit
  <1>2. consent' \in [docs : SUBSET Docs, draft : BOOLEAN] /\ consent'.docs = consent.docs \ {d}
    BY <1>1 DEF Inv, TypeOK
  <1>3. PICK ok \in BOOLEAN : AfterDispatch(FALSE, docs, ui, ok)
    BY <1>1 DEF Edit, Handled, HandledIn
  <1>4. doc[d].open
    BY <1>1, DeskAssumption DEF Inv, Coherent
  <1>5. /\ docs \in [Docs -> Document] /\ \A e \in Docs \ {d} : docs[e] = doc[e]
        /\ docs[d].open /\ docs[d].path = doc[d].path /\ docs[d].saved = doc[d].saved
    BY <1>4 DEF Inv, TypeOK, Document
  <1> HIDE DEF docs
  <1>6. Coherent(docs, ui)
    BY <1>5, Types DEF Inv, Coherent
  <1>7. ASSUME NEW c \in Docs
        PROVE  KW!DocStep(View(doc, ui, consent.docs, c), View(docs, ui, consent'.docs, c))
    <2>1. CASE c = d
      <3> DEFINE w == View(doc, ui, consent.docs, d)
                 n == View(docs, ui, consent'.docs, d)
      <3>1. w.open /\ n.open /\ ~n.agreed
        BY <1>1, <1>2, <1>4, <1>5 DEF View
      <3>2. n.path = w.path /\ n.seen = w.seen
        BY <1>5 DEF View
      <3> QED
        BY <2>1, <3>1, <3>2 DEF KW!DocStep, KW!Types
    <2>2. CASE c # d
      BY <1>2, <1>5, <2>2, Alone
    <2> QED
      BY <2>1, <2>2
  <1>8. DispatchStep
    BY <1>1, <1>3, <1>5, <1>6, <1>7, Types DEF DispatchStep, Allowed
  <1> QED
    BY <1>1, <1>2, <1>8, StaysQuiet, DispatchGood

\* request_close_tile.
LEMMA CloseTabGood ==
  ASSUME Inv, NEW d \in Docs, CloseTab(d)
  PROVE  Good
  <1>1. /\ ui.window = "open" /\ op.stage = "idle" /\ panels.shop = FALSE
        /\ UNCHANGED <<disk, panels, op, consent>> /\ doc[d].open
    BY AtDeskState DEF CloseTab
  <1>2. DispatchStep
    <2>1. CASE Unsaved(d)
      <3> DEFINE u == [ui EXCEPT !.focus = d, !.pending = [kind |-> "close", doc |-> d]]
      <3>1. PICK ok \in BOOLEAN : AfterDispatch(FALSE, doc, u, ok)
        BY <1>1, <2>1 DEF CloseTab, Handled, HandledIn
      <3>2. [kind |-> "close", doc |-> d] \in Prompt
        BY DEF Prompt
      <3>3. u \in Ui /\ Coherent(doc, u) /\ u.window = "open"
        BY <1>1, <3>2, Types DEF Inv, Ui, Coherent
      <3> QED
        BY <1>1, <3>1, <3>3, SameDocs
    <2>2. CASE ~Unsaved(d)
      <3>1. PICK ok \in BOOLEAN :
              AfterDispatch(FALSE, AfterClose(doc, ui, d).docs, AfterClose(doc, ui, d).ui, ok)
        BY <1>1, <2>2 DEF CloseTab, Handled, HandledIn
      <3>2. ui \in Ui /\ Coherent(doc, ui)
        BY DEF Inv, TypeOK
      <3> QED
        BY <1>1, <2>2, <3>1, <3>2, ClosesTab
    <2> QED
      BY <2>1, <2>2
  <1> QED
    BY <1>1, <1>2, Types, StaysQuiet, DispatchGood

\* A handler that asks the user something else, or nothing any more.
LEMMA AsksGood ==
  ASSUME Inv, ui.window = "open", op.stage = "idle", UNCHANGED <<disk, panels, op>>,
         consent' \in [docs : SUBSET Docs, draft : BOOLEAN],
         \A d \in Docs : ~doc[d].open => (d \in consent'.docs <=> d \in consent.docs),
         NEW ok \in BOOLEAN, NEW kind \in {"none", "quit", "close", "reload", "metadata"},
         NEW focus \in Docs \cup {NoText}, focus # NoText => doc[focus].open,
         NEW u, u = [ui EXCEPT !.focus = focus, !.pending = [kind |-> kind, doc |-> NoText]],
         AfterDispatch(FALSE, doc, u, ok)
  PROVE  Good
  <1>1. [kind |-> kind, doc |-> NoText] \in Prompt
    BY DEF Prompt
  <1>2. u \in Ui /\ Coherent(doc, u) /\ u.window = "open"
    BY <1>1, Types DEF Inv, Ui, Coherent
  <1>3. DispatchStep
    BY <1>2, SameDocs
  <1> QED
    BY <1>3, StaysQuiet, DispatchGood

\* The window with another prompt, as a record of its own.
LEMMA PromptShape ==
  ASSUME Inv
  PROVE  /\ \A p : [ui EXCEPT !.pending = p] = [ui EXCEPT !.focus = ui.focus, !.pending = p]
         /\ Answered = [ui EXCEPT !.focus = ui.focus, !.pending = [kind |-> "none", doc |-> NoText]]
         /\ \A d : [Answered EXCEPT !.focus = d]
                     = [ui EXCEPT !.focus = d, !.pending = [kind |-> "none", doc |-> NoText]]
         /\ ui.focus # NoText => doc[ui.focus].open
         /\ Answered \in Ui /\ Answered.window = ui.window /\ Answered.focus = ui.focus
         /\ Answered.retaining = ui.retaining /\ Coherent(doc, Answered)
  BY Types DEF Inv, Answered, NoPrompt, Ui, Prompt, Coherent

\* Reload.
LEMMA ReloadGood ==
  ASSUME Inv, Reload
  PROVE  Good
  <1>1. /\ ui.window = "open" /\ op.stage = "idle" /\ panels.shop = FALSE
        /\ UNCHANGED <<disk, panels, op, consent>> /\ ui.focus \in Docs /\ doc[ui.focus].open
    BY AtDeskState, Types, PromptShape DEF Reload
  <1>2. CASE Unsaved(ui.focus)
    <2>1. PICK ok \in BOOLEAN :
            AfterDispatch(FALSE, doc, [ui EXCEPT !.pending = [kind |-> "reload", doc |-> NoText]], ok)
      BY <1>1, <1>2 DEF Reload, Handled, HandledIn
    <2> QED
      BY <1>1, <2>1, Types, PromptShape, AsksGood
  <1>3. CASE ~Unsaved(ui.focus)
    <2>1. PICK ok \in BOOLEAN : AfterDispatch(FALSE, Reloaded(doc, ui.focus), ui, ok)
      BY <1>1, <1>3 DEF Reload, Handled, HandledIn
    <2>2. ui \in Ui /\ Coherent(doc, ui)
      BY DEF Inv, TypeOK
    <2>3. DispatchStep
      <3> DEFINE docs == Reloaded(doc, ui.focus)
      <3>1. ReloadedTo(docs, ui.focus)
        BY <1>1, ReloadShape
      <3>2. AfterDispatch(FALSE, docs, ui, ok)
        BY <2>1
      <3> HIDE DEF docs
      <3> QED
        BY <1>1, <1>3, <2>2, <3>1, <3>2, Reloads
    <2> QED
      BY <1>1, <2>3, Types, StaysQuiet, DispatchGood
  <1> QED
    BY <1>2, <1>3

\* retain_reviewed.
LEMMA RetainGood ==
  ASSUME Inv, Retain
  PROVE  Good
  <1> DEFINE u == [ui EXCEPT !.retaining = ui.focus]
  <1>1. /\ ui.window = "open" /\ op.stage = "idle" /\ panels.shop = FALSE
        /\ UNCHANGED <<disk, panels, op, consent>> /\ ui.focus \in Docs /\ doc[ui.focus].open
    BY AtDeskState, Types, PromptShape DEF Retain
  <1>2. PICK ok \in BOOLEAN : AfterDispatch(FALSE, doc, u, ok)
    BY <1>1 DEF Retain, Handled, HandledIn
  <1>3. u \in Ui /\ Coherent(doc, u) /\ u.window = "open"
    BY <1>1, Types DEF Inv, Ui, Coherent
  <1>4. DispatchStep
    BY <1>1, <1>2, <1>3, SameDocs
  <1> QED
    BY <1>1, <1>4, Types, StaysQuiet, DispatchGood

-----------------------------------------------------------------------------
(* Clearing copies *)

\* The copies of ds may go: their documents are saved, or given up.
Clearable(docs, ds, c) ==
  \A d \in ds : /\ docs[d].open \/ docs[d].copy = NoText
                /\ docs[d].open /\ docs[d].text # docs[d].saved => d \in c

\* after_successful_document_write touches nothing but the copies.
LEMMA ClearedShape ==
  ASSUME NEW docs \in [Docs -> Document], NEW ds \in SUBSET Docs, NEW ok \in BOOLEAN
  PROVE  /\ Cleared(docs, ds, ok) \in [Docs -> Document]
         /\ \A d \in Docs :
              LET e == Cleared(docs, ds, ok)[d]
              IN  /\ e.open = docs[d].open /\ e.path = docs[d].path /\ e.text = docs[d].text
                  /\ e.saved = docs[d].saved /\ e.base = docs[d].base
                  /\ d \notin ds => e = docs[d]
                  /\ docs[d].copy = NoText => e = docs[d]
  <1> DEFINE new == Cleared(docs, ds, ok)
  <1>1. ASSUME NEW d \in Docs
        PROVE  /\ new[d] \in Document
               /\ new[d].open = docs[d].open /\ new[d].path = docs[d].path
               /\ new[d].text = docs[d].text /\ new[d].saved = docs[d].saved
               /\ new[d].base = docs[d].base
               /\ d \notin ds => new[d] = docs[d]
               /\ docs[d].copy = NoText => new[d] = docs[d]
    <2>1. docs[d] \in Document
      OBVIOUS
    <2>2. CASE d \in ds /\ ok
      <3>1. new[d] = [docs[d] EXCEPT !.copy = NoText]
        BY <2>2 DEF Cleared
      <3> QED
        BY <2>1, <2>2, <3>1 DEF Document
    <2>3. CASE ~(d \in ds /\ ok)
      <3>1. new[d] = docs[d]
        BY <2>3 DEF Cleared
      <3> QED
        BY <2>1, <3>1
    <2> QED
      BY <2>2, <2>3
  <1>2. new \in [Docs -> Document]
    BY <1>1 DEF Cleared
  <1> QED
    BY <1>1, <1>2

\* A step KeptWork allows it also allows with the copy of a document that is
\* saved or given up cleared.
LEMMA ClearedStep ==
  ASSUME NEW w, NEW m, NEW n, KW!DocStep(w, m), m.open, m.text # m.seen => m.agreed,
         n.open = m.open, n.path = m.path, n.text = m.text, n.seen = m.seen, n.agreed = m.agreed
  PROVE  KW!DocStep(w, n)
  <1>1. CASE m = w \/ KW!IsKept(w, m)
    BY <1>1 DEF KW!DocStep, KW!IsKept, KW!Unsaved
  <1>2. CASE KW!Opens(w, m) \/ KW!Types(w, m)
    BY <1>2 DEF KW!DocStep, KW!Opens, KW!Types
  <1>3. CASE KW!IsSaved(w, m)
    BY <1>3 DEF KW!DocStep, KW!IsSaved
  <1>4. CASE KW!IsReloaded(w, m)
    BY <1>4 DEF KW!DocStep, KW!IsReloaded
  <1>5. ~KW!Leaves(w, m)
    BY DEF KW!Leaves
  <1> QED
    BY <1>1, <1>2, <1>3, <1>4, <1>5 DEF KW!DocStep

\* Clearing copies that may go is a step KeptWork allows.
LEMMA ClearedView ==
  ASSUME NEW docs \in [Docs -> Document], NEW ds \in SUBSET Docs, NEW ok \in BOOLEAN,
         NEW u, NEW c, NEW d \in Docs, u.window = "open", Clearable(docs, ds, c),
         KW!DocStep(View(doc, ui, consent.docs, d), View(docs, u, c, d))
  PROVE  KW!DocStep(View(doc, ui, consent.docs, d), View(Cleared(docs, ds, ok), u, c, d))
  <1> DEFINE w == View(doc, ui, consent.docs, d)
             m == View(docs, u, c, d)
             e == Cleared(docs, ds, ok)
             n == View(e, u, c, d)
  <1>1. /\ e[d].open = docs[d].open /\ e[d].path = docs[d].path /\ e[d].text = docs[d].text
        /\ e[d].saved = docs[d].saved
    BY ClearedShape
  <1>2. d \notin ds \/ docs[d].copy = NoText => e[d] = docs[d]
    BY ClearedShape
  <1> HIDE DEF e
  <1>3. /\ n.open = m.open /\ n.path = m.path /\ n.text = m.text /\ n.seen = m.seen
        /\ n.agreed = m.agreed
    BY <1>1 DEF View
  <1>4. d \notin ds \/ docs[d].copy = NoText => n = m
    BY <1>2 DEF View
  <1>5. d \in ds => docs[d].open \/ docs[d].copy = NoText
    BY DEF Clearable
  <1>6. d \in ds /\ docs[d].open => m.open /\ (m.text # m.seen => m.agreed)
    BY DEF Clearable, View
  <1>7. KW!DocStep(w, m)
    OBVIOUS
  <1>8. CASE n = m
    BY <1>7, <1>8 DEF e
  <1>9. CASE m.open /\ (m.text # m.seen => m.agreed)
    BY <1>3, <1>7, <1>9, ClearedStep DEF e
  <1> QED
    BY <1>4, <1>5, <1>6, <1>8, <1>9

\* Copies that may go are cleared by a handler.
LEMMA ClearsAllowed ==
  ASSUME ui.window = "open", NEW docs, NEW u, Allowed(docs, u), u.window = "open",
         NEW ok \in BOOLEAN, NEW ds \in SUBSET Docs, Clearable(docs, ds, consent'.docs)
  PROVE  Allowed(Cleared(docs, ds, ok), u)
  <1> DEFINE e == Cleared(docs, ds, ok)
  <1>1. docs \in [Docs -> Document] /\ u \in Ui /\ Coherent(docs, u)
    BY DEF Allowed
  <1>2. e \in [Docs -> Document] /\ \A d \in Docs : e[d].open = docs[d].open
    BY <1>1, ClearedShape
  <1>3. ASSUME NEW d \in Docs
        PROVE  KW!DocStep(View(doc, ui, consent.docs, d), View(e, u, consent'.docs, d))
    <2>1. KW!DocStep(View(doc, ui, consent.docs, d), View(docs, u, consent'.docs, d))
      BY DEF Allowed
    <2> QED
      BY <1>1, <2>1, ClearedView
  <1> HIDE DEF e
  <1>4. u.focus \in Docs \cup {NoText} /\ u.pending.doc \in Docs \cup {NoText}
        /\ u.retaining \in Docs \cup {NoText}
    BY <1>1 DEF Ui, Prompt
  <1>5. Coherent(e, u)
    BY <1>1, <1>2, <1>4 DEF Coherent
  <1>6. Allowed(e, u)
    BY <1>1, <1>2, <1>3, <1>5 DEF Allowed
  <1> QED
    BY <1>6 DEF e

\* A handler that clears copies before what follows every dispatch.
LEMMA ClearsCopies ==
  ASSUME ui.window = "open", NEW docs, NEW u, Allowed(docs, u), u.window = "open",
         NEW ds \in SUBSET Docs, Clearable(docs, ds, consent'.docs), NEW cleared \in BOOLEAN,
         NEW ok \in BOOLEAN, AfterDispatch(FALSE, Cleared(docs, ds, cleared), u, ok)
  PROVE  DispatchStep
  <1> DEFINE e == Cleared(docs, ds, cleared)
  <1>1. Allowed(e, u)
    BY ClearsAllowed
  <1>2. AfterDispatch(FALSE, e, u, ok)
    OBVIOUS
  <1> HIDE DEF e
  <1> QED
    BY <1>1, <1>2 DEF DispatchStep, Allowed

-----------------------------------------------------------------------------
(* Steps of a write *)

\* A step that leaves files and documents alone.
LEMMA AsideGood ==
  ASSUME Inv, ui.window = "open", UNCHANGED <<disk, doc, panels, consent>>,
         ui' \in Ui, ui'.window = "open", Coherent(doc, ui'), op' \in Write, Underway'
  PROVE  Good
  <1>1. ASSUME NEW d \in Docs
        PROVE  KW!DocStep(View(doc, ui, consent.docs, d), View(doc', ui', consent'.docs, d))
    BY Alone
  <1>2. KW!Next
    BY <1>1, WorkStep
  <1>3. TypeOK' /\ FilesAreWhole' /\ Copied(doc)' /\ PanelsWait'
    BY DEF Inv, TypeOK, FilesAreWhole, PanelsWait
  <1>4. Coherent(doc, ui)'
    OBVIOUS
  <1> QED
    BY <1>2, <1>3, <1>4 DEF Inv, Good

\* Begin: the write is for an open document, into its own file or a path the user gave.
LEMMA BeginGood ==
  ASSUME Inv, ui.window = "open", NEW d \in Docs, doc[d].open, NEW p \in Paths \cup {NoText},
         NEW after \in {"none", "close", "stale", "reload"}, Begin(d, p, after), disk' = disk,
         p # doc[d].path => p \in Paths,
         ui' \in Ui, ui'.window = "open", Coherent(doc, ui'),
         after = "reload" => d = ui'.focus
  PROVE  Good
  <1>1. /\ op' = [NoWrite EXCEPT !.doc = d, !.path = p, !.new = (p # doc[d].path),
                                 !.stage = "check", !.after = after]
        /\ UNCHANGED <<disk, doc, panels, consent>>
    BY DEF Begin
  <1>2. /\ op' \in Write /\ op'.doc = d /\ op'.path = p /\ op'.new = (p # doc[d].path)
        /\ op'.stage = "check" /\ op'.after = after /\ op'.rest = {}
    BY <1>1 DEF NoWrite, Write
  <1>3. op'.new <=> p # doc[d].path
    BY <1>2
  <1>4. d # NoText
    BY DeskAssumption
  <1>5. Target'
    BY <1>1, <1>2, <1>3, <1>4 DEF Target
  <1>6. Progress'
    BY <1>2 DEF Progress
  <1> QED
    BY <1>1, <1>2, <1>5, <1>6, AsideGood DEF Underway

LEMMA SaveGood ==
  ASSUME Inv, Save
  PROVE  Good
  <1>1. /\ ui.window = "open" /\ ui.focus \in Docs /\ doc[ui.focus].open
        /\ doc[ui.focus].path \in Paths \cup {NoText} /\ ui' = ui /\ disk' = disk
        /\ Begin(ui.focus, doc[ui.focus].path, "none")
    BY AtDeskState, Types, PromptShape DEF Save, Begin, Document
  <1>2. ui' \in Ui /\ Coherent(doc, ui')
    BY <1>1 DEF Inv, TypeOK
  <1> QED
    BY <1>1, <1>2, BeginGood

LEMMA SaveAsGood ==
  ASSUME Inv, NEW p \in Paths, SaveAs(p)
  PROVE  Good
  <1>1. /\ ui.window = "open" /\ ui.focus \in Docs /\ doc[ui.focus].open /\ ui' = ui
        /\ disk' = disk /\ Begin(ui.focus, p, "none")
    BY AtDeskState, Types, PromptShape DEF SaveAs, Begin
  <1>2. ui' \in Ui /\ Coherent(doc, ui')
    BY <1>1 DEF Inv, TypeOK
  <1> QED
    BY <1>1, <1>2, BeginGood

\* save_for_pending, for the document and the prompt the answer leaves.
LEMMA SaveForPendingGood ==
  ASSUME Inv, ui.window = "open", NEW d \in Docs, doc[d].open, NEW p \in Paths,
         NEW after \in {"none", "close", "stale", "reload"}, SaveForPending(d, p, after),
         disk' = disk, ui' \in Ui, ui'.window = "open", Coherent(doc, ui'),
         after = "reload" => d = ui'.focus
  PROVE  Good
  BY BeginGood DEF SaveForPending

LEMMA ConfirmSaveCloseGood ==
  ASSUME Inv, NEW p \in Paths, ConfirmSaveClose(p)
  PROVE  Good
  <1>1. ui.window = "open"
    BY AtDeskState DEF ConfirmSaveClose, Asks
  <1>2. CASE ui.pending.doc # NoText
    <2> DEFINE d == ui.pending.doc
    <2>1. /\ d \in Docs /\ doc[d].open /\ SaveForPending(d, p, "close") /\ disk' = disk
          /\ ui' = [Answered EXCEPT !.focus = d]
      BY <1>2, Types DEF Inv, Coherent, ConfirmSaveClose, SaveForPending, Begin
    <2>2. ui' \in Ui /\ ui'.window = "open" /\ Coherent(doc, ui')
      <3>1. /\ Answered \in Ui /\ Answered.window = "open" /\ Coherent(doc, Answered)
        BY <1>1, PromptShape
      <3> HIDE DEF d
      <3> QED
        BY <2>1, <3>1 DEF Ui, Coherent
    <2> HIDE DEF d
    <2> QED
      BY <1>1, <2>1, <2>2, SaveForPendingGood
  <1>3. CASE ui.pending.doc = NoText
    <2>1. /\ ui.focus \in Docs /\ doc[ui.focus].open /\ SaveForPending(ui.focus, p, "stale")
          /\ disk' = disk /\ ui' = Answered
      BY <1>3, Types, PromptShape DEF ConfirmSaveClose, SaveForPending, Begin
    <2> QED
      BY <1>1, <2>1, PromptShape, SaveForPendingGood
  <1> QED
    BY <1>2, <1>3

LEMMA ConfirmSaveReloadGood ==
  ASSUME Inv, NEW p \in Paths, ConfirmSaveReload(p)
  PROVE  Good
  <1>1. /\ ui.window = "open" /\ ui.focus \in Docs /\ doc[ui.focus].open
        /\ SaveForPending(ui.focus, p, "reload") /\ disk' = disk /\ ui' = Answered
    BY AtDeskState, Types, PromptShape DEF ConfirmSaveReload, Asks, SaveForPending, Begin
  <1>2. ui' \in Ui /\ ui'.window = "open" /\ Coherent(doc, ui') /\ ui'.focus = ui.focus
    BY <1>1, PromptShape
  <1> QED
    BY <1>1, <1>2, SaveForPendingGood

\* Save all starts with every unsaved document that has a path.
LEMMA ConfirmSaveQuitGood ==
  ASSUME Inv, ConfirmSaveQuit
  PROVE  Good
  <1> DEFINE rest == {d \in dirty_documents : doc[d].path # NoText \/ doc[d].ro}
  <1>1. /\ ui.window = "open" /\ ui' = Answered /\ UNCHANGED <<disk, doc, panels, consent>>
        /\ op' = [NoWrite EXCEPT !.stage = "failed", !.after = "quit", !.rest = rest]
    BY AtDeskState DEF ConfirmSaveQuit, Asks
  <1>2. rest \in SUBSET Docs /\ \A d \in rest : doc[d].open
    BY DEF dirty_documents, Unsaved
  <1> HIDE DEF rest
  <1>3. /\ op' \in Write /\ op'.doc = NoText /\ op'.path = NoText /\ op'.new = FALSE
        /\ op'.stage = "failed" /\ op'.after = "quit" /\ op'.rest = rest
    BY <1>1, <1>2 DEF NoWrite, Write
  <1>4. ui' \in Ui /\ ui'.window = "open" /\ Coherent(doc, ui')
    BY <1>1, PromptShape
  <1>5. Target'
    BY <1>1, <1>2, <1>3, <1>4 DEF Target
  <1>6. Progress'
    BY <1>3 DEF Progress
  <1> QED
    BY <1>1, <1>3, <1>4, <1>5, <1>6, AsideGood DEF Underway

\* The write goes to another stage.
LEMMA GoesShape ==
  ASSUME Inv, NEW stage \in {"stage", "sync", "replace", "observe", "ok", "failed"},
         NEW temp \in {"none", "partial", "whole"}, Goes(stage, temp)
  PROVE  /\ op' \in Write /\ op'.stage = stage /\ op'.temp = temp
         /\ op'.doc = op.doc /\ op'.path = op.path /\ op'.new = op.new /\ op'.raced = op.raced
         /\ op'.after = op.after /\ op'.rest = op.rest
  BY Types DEF Goes, Write

\* A step of the write that touches neither file nor document.
LEMMA AdvanceGood ==
  ASSUME Inv, op.stage # "idle", UNCHANGED <<disk, doc, ui, panels, consent>>,
         NEW stage \in {"stage", "sync", "replace", "observe", "ok", "failed"},
         NEW temp \in {"none", "partial", "whole"}, Goes(stage, temp),
         stage \in {"stage", "sync", "replace", "observe"} => op.doc # NoText /\ op.path \in Paths,
         stage = "ok" => op.doc # NoText,
         Progress'
  PROVE  Good
  <1>1. /\ op' \in Write /\ op'.stage = stage
        /\ op'.doc = op.doc /\ op'.path = op.path /\ op'.new = op.new
        /\ op'.after = op.after /\ op'.rest = op.rest
    BY GoesShape
  <1>2. Target
    BY DEF Inv, Underway
  <1>3. Target'
    BY <1>1, <1>2 DEF Target
  <1>4. ui' \in Ui /\ ui'.window = "open" /\ Coherent(doc, ui')
    BY <1>2, Types DEF Target, Inv
  <1> QED
    BY <1>1, <1>2, <1>3, <1>4, AsideGood DEF Underway, Target

\* The check of save_guarded and save_as.
LEMMA CheckGood ==
  ASSUME Inv, Check
  PROVE  Good
  <1> DEFINE d == op.doc
             own == IF doc[d].ro \/ op.path = NoText THEN "failed"
                    ELSE IF disk[op.path].ro THEN "failed"
                    ELSE IF ~Unsaved(d) THEN "ok"
                    ELSE IF disk[op.path] = NoFile \/ ~StillMatches(d, op.path) THEN "failed"
                    ELSE IF doc[d].base = doc[d].text THEN "observe" ELSE "stage"
             next == IF op.new THEN IF doc[d].ro THEN "failed" ELSE "stage" ELSE own
  <1>1. /\ op.stage = "check" /\ Goes(next, "none") /\ UNCHANGED <<disk, doc, ui, panels, consent>>
    BY DEF Check, Writing
  <1>2. next \in {"stage", "observe", "ok", "failed"}
    OBVIOUS
  <1>3. Target /\ d # NoText /\ op \in Write
    BY <1>1, Types DEF Inv, Underway, Target
  <1>4. next \in {"stage", "observe"} => op.path \in Paths
    BY <1>3 DEF Target, Write
  <1>5. next = "stage" /\ ~op.new => disk[op.path].text = doc[d].base
    BY DEF StillMatches
  <1>6. next = "ok" => ~Unsaved(d)
    OBVIOUS
  <1> HIDE DEF next, own
  <1>7. /\ op'.stage = next /\ op'.doc = d /\ op'.path = op.path /\ op'.new = op.new
    BY <1>1, <1>2, GoesShape
  <1>8. Progress'
    <2>1. op'.stage \in {"stage", "sync", "replace"} /\ ~op'.new =>
            disk'[op'.path].text = doc'[op'.doc].base
      BY <1>1, <1>2, <1>5, <1>7
    <2>2. op'.stage = "ok" => ~Unsaved(op.doc)'
      BY <1>1, <1>6, <1>7 DEF Unsaved
    <2> QED
      BY <1>2, <1>7, <2>1, <2>2 DEF Progress
  <1> QED
    BY <1>1, <1>2, <1>3, <1>4, <1>8, AdvanceGood

\* The temporary is written, then flushed.
LEMMA StageGood ==
  ASSUME Inv, Stage
  PROVE  Good
  <1>1. /\ op.stage = "stage" /\ Goes("sync", "partial") /\ UNCHANGED <<disk, doc, ui, panels, consent>>
    BY DEF Stage, Writing
  <1>2. Target /\ Progress
    BY <1>1 DEF Inv, Underway
  <1>3. /\ op'.stage = "sync" /\ op'.doc = op.doc /\ op'.path = op.path /\ op'.new = op.new
        /\ op'.raced = op.raced
    BY <1>1, GoesShape
  <1>4. Progress'
    BY <1>1, <1>2, <1>3 DEF Progress
  <1> QED
    BY <1>1, <1>2, <1>4, AdvanceGood DEF Target

LEMMA SyncGood ==
  ASSUME Inv, Sync
  PROVE  Good
  <1>1. /\ op.stage = "sync" /\ Goes("replace", "whole") /\ UNCHANGED <<disk, doc, ui, panels, consent>>
    BY DEF Sync, Writing
  <1>2. Target /\ Progress
    BY <1>1 DEF Inv, Underway
  <1>3. /\ op'.stage = "replace" /\ op'.doc = op.doc /\ op'.path = op.path /\ op'.new = op.new
        /\ op'.raced = op.raced /\ op'.temp = "whole"
    BY <1>1, GoesShape
  <1>4. Progress'
    BY <1>1, <1>2, <1>3 DEF Progress
  <1> QED
    BY <1>1, <1>2, <1>4, AdvanceGood DEF Target

\* A step fails: the document stays as it is.
LEMMA FailsGood ==
  ASSUME Inv, op.stage # "idle", Goes("failed", "none"), UNCHANGED <<disk, doc, ui, panels, consent>>
  PROVE  Good
  <1>1. op'.stage = "failed"
    BY GoesShape
  <1>2. Progress'
    BY <1>1 DEF Progress
  <1> QED
    BY <1>2, AdvanceGood

LEMMA WriteFailsGood ==
  ASSUME Inv, WriteFails
  PROVE  Good
  BY FailsGood DEF WriteFails

\* The handle of a new file is one no file and no document has.
LEMMA FreshIsNew ==
  ASSUME Inv
  PROVE  Fresh \in Handles /\ \A p \in Paths : disk[p].handle # Fresh
  <1> DEFINE f == [p \in Paths |-> disk[p].handle]
             g == [d \in Docs |-> doc[d].handle]
  <1>1. f \in [Paths -> Handles \cup {0}] /\ g \in [Docs -> Handles \cup {0}]
    BY Types DEF File, Document
  <1>2. {f[p] : p \in Paths} \cup {g[d] : d \in Docs} = InUse
    BY DEF InUse
  <1> HIDE DEF f, g
  <1>3. \E h \in Handles : h \notin {f[p] : p \in Paths} \cup {g[d] : d \in Docs}
    BY <1>1, DeskAssumption
  <1>4. \E h \in Handles : h \notin InUse
    BY <1>2, <1>3
  <1>5. Fresh \in Handles /\ Fresh \notin InUse
    BY <1>4 DEF Fresh
  <1> QED
    BY <1>5 DEF InUse

\* The temporary goes into place: the document's whole text, at its own path or
\* where there is no file.
LEMMA ReplaceGood ==
  ASSUME Inv, Replace
  PROVE  Good /\ \A p \in Paths : disk'[p] # disk[p] /\ disk'[p].by \in Docs =>
           \/ disk[p] = NoFile
           \/ ~op.new /\ (disk[p].text = doc[disk'[p].by].base \/ op.raced)
  <1>1. op.stage = "replace" /\ UNCHANGED <<doc, ui, panels, consent>>
    BY DEF Replace, Writing
  <1>2. Target /\ Progress
    BY <1>1 DEF Inv, Underway
  <1>3. CASE op.new /\ disk[op.path] # NoFile
    <2>1. Goes("failed", "none") /\ disk' = disk
      BY <1>3 DEF Replace
    <2> QED
      BY <1>1, <2>1, FailsGood
  <1>4. CASE ~(op.new /\ disk[op.path] # NoFile)
    <2> DEFINE d == op.doc
               p == op.path
               file == [text |-> doc[d].text, handle |-> Fresh, ro |-> disk[p].ro, by |-> d]
    <2>1. disk' = [disk EXCEPT ![p] = file] /\ Goes("observe", "none")
      BY <1>1, <1>2, <1>4 DEF Replace, Progress, Placed
    <2>2. d \in Docs /\ doc[d].open /\ p \in Paths /\ d # NoText /\ ui.window = "open"
          /\ (op.new \/ p = doc[d].path)
      BY <1>1, <1>2, Types DEF Target, Write
    <2>3. doc[d].text \in Texts \cup {NoText} /\ disk[p].ro \in BOOLEAN
      BY <2>2, Types DEF Document, File
    <2>4. file \in File /\ file.text # Torn /\ file.text = doc[d].text /\ file.by = d
      BY <2>2, <2>3, FreshIsNew, DeskAssumption DEF File
    <2> HIDE DEF file
    <2>5. disk' \in [Paths -> File] /\ disk'[p] = file /\ \A q \in Paths \ {p} : disk'[q] = disk[q]
      BY <2>1, <2>2, <2>4 DEF Inv, TypeOK
    <2>6. /\ op' \in Write /\ op'.stage = "observe" /\ op'.doc = d /\ op'.path = p
          /\ op'.new = op.new /\ op'.after = op.after /\ op'.rest = op.rest
      BY <2>1, GoesShape
    <2>7. Underway'
      BY <1>1, <1>2, <2>2, <2>6 DEF Underway, Target, Progress
    <2>8. Inv'
      <3>1. TypeOK'
        BY <1>1, <2>5, <2>6 DEF Inv, TypeOK
      <3>2. FilesAreWhole'
        BY <2>4, <2>5 DEF Inv, FilesAreWhole
      <3>3. Coherent(doc, ui)' /\ Copied(doc)' /\ PanelsWait'
        BY <1>1 DEF Inv, PanelsWait
      <3> QED
        BY <2>7, <3>1, <3>2, <3>3 DEF Inv
    <2>9. KW!Next
      <3>1. disk[p] = NoFile => disk[p].text = NoText
        BY DEF NoFile
      <3>2. doc[d].path = p \/ disk[p].text = NoText
        BY <1>4, <2>2, <3>1
      <3>3. [q \in Paths |-> [text |-> disk'[q].text, by |-> disk'[q].by]]
              = [[q \in Paths |-> [text |-> disk[q].text, by |-> disk[q].by]] EXCEPT
                   ![p] = [text |-> doc[d].text, by |-> d]]
        BY <2>2, <2>4, <2>5
      <3> QED
        BY <1>1, <2>2, <3>2, <3>3 DEF KW!Next, KW!Publish
    <2>10. \A q \in Paths : disk'[q] # disk[q] => q = p /\ disk'[q].by = d
      BY <2>4, <2>5
    <2>11. op.new \in BOOLEAN
      BY Types DEF Write
    <2>12. disk[p] = NoFile \/ (~op.new /\ (disk[p].text = doc[d].base \/ op.raced))
      <3>1. CASE op.new
        BY <1>4, <2>11, <3>1
      <3>2. CASE ~op.new
        BY <1>1, <1>2, <2>11, <3>2 DEF Progress
      <3> QED
        BY <3>1, <3>2
    <2> QED
      BY <1>1, <2>8, <2>9, <2>10, <2>12 DEF Good
  <1> QED
    BY <1>3, <1>4

\* The file is read back, and only what it holds counts as saved.
LEMMA ObserveGood ==
  ASSUME Inv, Observe
  PROVE  Good
  <1> DEFINE d == op.doc
             f == disk[op.path]
             e == [doc[d] EXCEPT !.path = op.path, !.saved = f.text, !.base = f.text,
                                 !.handle = f.handle]
  <1>1. op.stage = "observe" /\ UNCHANGED <<disk, ui, panels, consent>>
    BY DEF Observe, Writing
  <1>2. CASE f.text # doc[d].text
    <2>1. Goes("failed", "none") /\ doc' = doc
      BY <1>2 DEF Observe
    <2> QED
      BY <1>1, <2>1, FailsGood
  <1>3. CASE f.text = doc[d].text
    <2>1. Goes("ok", "none") /\ doc' = [doc EXCEPT ![d] = e]
      BY <1>3 DEF Observe
    <2>2. Target
      BY <1>1 DEF Inv, Underway
    <2>3. d \in Docs /\ doc[d].open /\ op.path \in Paths /\ d # NoText /\ ui.window = "open"
      BY <1>1, <2>2, Types DEF Target, Write
    <2>4. f.text \in Texts \cup {NoText} /\ f.handle \in Handles \cup {0}
      BY <2>3, Types DEF File
    <2>5. /\ e \in Document /\ e.open /\ e.path = op.path /\ e.text = f.text /\ e.saved = f.text
          /\ e.text = doc[d].text /\ e.open = doc[d].open
      BY <1>3, <2>3, <2>4, Types DEF Document
    <2> HIDE DEF e
    <2>6. doc' \in [Docs -> Document] /\ doc'[d] = e /\ \A c \in Docs \ {d} : doc'[c] = doc[c]
      BY <2>1, <2>3, <2>5 DEF Inv, TypeOK
    <2>7. \A c \in Docs : doc'[c].open = doc[c].open
      BY <2>3, <2>5, <2>6
    <2>8. /\ op' \in Write /\ op'.stage = "ok" /\ op'.doc = d /\ op'.path = op.path
          /\ op'.new = op.new /\ op'.after = op.after /\ op'.rest = op.rest
      BY <2>1, GoesShape
    <2>9. Target'
      <3>1. \A c \in op.rest : doc'[c].open
        BY <2>2, <2>7, Types DEF Target, Write
      <3>2. doc'[op'.doc].open /\ op'.path = doc'[op'.doc].path
        BY <2>5, <2>6, <2>8
      <3> QED
        BY <1>1, <2>2, <2>3, <2>8, <3>1, <3>2 DEF Target
    <2>10. Progress'
      BY <2>5, <2>6, <2>8 DEF Progress, Unsaved
    <2>11. Inv'
      <3>1. TypeOK' /\ FilesAreWhole' /\ PanelsWait'
        BY <1>1, <2>6, <2>8 DEF Inv, TypeOK, FilesAreWhole, PanelsWait
      <3>2. Coherent(doc, ui)'
        BY <1>1, <2>7, Types DEF Inv, Coherent
      <3>3. Copied(doc)'
        BY <2>5, <2>6 DEF Inv, Copied
      <3> QED
        BY <2>9, <2>10, <3>1, <3>2, <3>3 DEF Inv, Underway
    <2>12. ASSUME NEW c \in Docs
           PROVE  KW!DocStep(View(doc, ui, consent.docs, c), View(doc', ui', consent'.docs, c))
      <3>1. CASE c # d
        BY <1>1, <2>6, <3>1, Alone
      <3>2. CASE c = d
        <4> DEFINE w == View(doc, ui, consent.docs, d)
                   n == View(doc', ui', consent'.docs, d)
        <4>1. w.open /\ n.open
          BY <1>1, <2>3, <2>5, <2>6 DEF View
        <4>2. /\ n.text = w.text /\ n.seen = w.text /\ n.path \in Paths
              /\ disk[n.path].text = n.text
          BY <2>3, <2>5, <2>6 DEF View
        <4> QED
          BY <3>2, <4>1, <4>2 DEF KW!DocStep, KW!IsSaved
      <3> QED
        BY <3>1, <3>2
    <2>13. KW!Next
      BY <1>1, <2>12, WorkStep
    <2> QED
      BY <1>1, <2>11, <2>13 DEF Good
  <1> QED
    BY <1>2, <1>3

-----------------------------------------------------------------------------
(* The handler after its write *)

\* Whatever the handler leaves, the copy of the document it wrote may go.
LEMMA ReturnedGood ==
  ASSUME Inv, op.stage \in {"ok", "failed"}, NEW docs, NEW u, Allowed(docs, u), u.window = "open",
         disk' = disk, consent' = consent, panels' \in Panels, PanelsWait',
         op.stage = "ok" => Clearable(docs, {op.doc}, consent'.docs),
         Returned(docs, u)
  PROVE  Good
  <1>1. Target /\ ui.window = "open"
    BY DEF Inv, Underway, Target
  <1>2. NoWrite \in Write /\ NoWrite.stage = "idle"
    BY DEF NoWrite, Write
  <1>3. Quiet
    BY <1>2 DEF Returned, Quiet, Inv, TypeOK
  <1>4. PICK ok \in BOOLEAN :
          AfterDispatch(FALSE, IF Writing("ok") THEN Cleared(docs, {op.doc}, ok) ELSE docs, u, ok)
    BY DEF Returned
  <1>5. CASE op.stage = "ok"
    <2>1. AfterDispatch(FALSE, Cleared(docs, {op.doc}, ok), u, ok)
      BY <1>4, <1>5 DEF Writing
    <2>2. {op.doc} \in SUBSET Docs
      BY <1>1, <1>5, Types DEF Target, Write
    <2> DEFINE ds == {op.doc}
    <2>3. Clearable(docs, ds, consent'.docs) /\ AfterDispatch(FALSE, Cleared(docs, ds, ok), u, ok)
      BY <1>5, <2>1
    <2> HIDE DEF ds
    <2>4. ds \in SUBSET Docs
      BY <2>2 DEF ds
    <2> QED
      BY <1>1, <1>3, <2>3, <2>4, ClearsCopies, DispatchGood
  <1>6. CASE op.stage = "failed"
    <2>1. AfterDispatch(FALSE, docs, u, ok)
      BY <1>4, <1>6 DEF Writing
    <2>2. DispatchStep
      BY <2>1 DEF DispatchStep, Allowed
    <2> QED
      BY <1>1, <1>3, <2>2, DispatchGood
  <1> QED
    BY <1>5, <1>6

\* What the rest of the handler finds.
LEMMA EndedState ==
  ASSUME Inv, Ended
  PROVE  /\ op.stage \in {"ok", "failed"} /\ ui.window = "open" /\ Target
         /\ op.stage = "ok" => op.doc \in Docs /\ doc[op.doc].open /\ ~Unsaved(op.doc)
         /\ Writing("ok") <=> op.stage = "ok"
         /\ op.doc \in Docs \cup {NoText}
  BY Types DEF Inv, Ended, Writing, Underway, Target, Progress, Write

\* The copy of a saved document may go.
LEMMA SavedClearable ==
  ASSUME NEW docs, NEW d, NEW c, docs[d].open \/ docs[d].copy = NoText,
         docs[d].open => docs[d].text = docs[d].saved
  PROVE  Clearable(docs, {d}, c)
  BY DEF Clearable

LEMMA SaveReturnsGood ==
  ASSUME Inv, SaveReturns
  PROVE  Good
  <1> DEFINE u == IF op.after = "stale" /\ Writing("failed")
                  THEN [ui EXCEPT !.pending = [kind |-> "close", doc |-> NoText]] ELSE ui
  <1>1. Returned(doc, u) /\ Ended /\ UNCHANGED <<disk, panels, consent>>
    BY DEF SaveReturns
  <1>2. [kind |-> "close", doc |-> NoText] \in Prompt
    BY DEF Prompt
  <1>3. u \in Ui /\ Coherent(doc, u) /\ u.window = ui.window
    BY <1>2, Types DEF Inv, Ui, Coherent
  <1> HIDE DEF u
  <1>4. Allowed(doc, u)
    BY <1>1, <1>3, EndedState, SameAllowed
  <1>5. op.stage = "ok" => Clearable(doc, {op.doc}, consent'.docs)
    BY <1>1, EndedState, SavedClearable DEF Unsaved
  <1>6. panels' \in Panels /\ PanelsWait'
    BY <1>1 DEF Inv, TypeOK, PanelsWait
  <1> QED
    BY <1>1, <1>3, <1>4, <1>5, <1>6, EndedState, ReturnedGood

\* A save before a close: the tab goes only when the write was accepted.
LEMMA SaveThenCloseGood ==
  ASSUME Inv, SaveThenClose
  PROVE  Good
  <1>1. Ended /\ UNCHANGED <<disk, panels, consent>>
    BY DEF SaveThenClose
  <1>2. panels' \in Panels /\ PanelsWait' /\ ui \in Ui /\ Coherent(doc, ui)
    BY <1>1 DEF Inv, TypeOK, PanelsWait
  <1>3. CASE op.stage = "ok"
    <2> DEFINE d == op.doc
               docs == AfterClose(doc, ui, d).docs
               u == AfterClose(doc, ui, d).ui
    <2>1. Returned(docs, u) /\ d \in Docs /\ doc[d].open /\ ~Unsaved(d) /\ ui.window = "open"
      BY <1>1, <1>3, EndedState DEF SaveThenClose
    <2>2. Allowed(docs, u)
      BY <1>1, <1>2, <2>1, ClosesAllowed
    <2>3. u.window = "open" /\ (docs[d] = doc[d] \/ (~docs[d].open /\ docs[d].copy = NoText))
      BY <1>2, <2>1, CloseShape DEF Inv, TypeOK
    <2> HIDE DEF docs, u
    <2>4. Clearable(docs, {d}, consent'.docs)
      BY <2>1, <2>3, SavedClearable DEF Unsaved
    <2> QED
      BY <1>1, <1>2, <1>3, <2>1, <2>2, <2>3, <2>4, ReturnedGood
  <1>4. CASE op.stage = "failed"
    <2> DEFINE prompt == [kind |-> "close", doc |-> op.doc]
               u == [ui EXCEPT !.pending = prompt]
    <2>1. Returned(doc, u) /\ ui.window = "open" /\ op.doc \in Docs \cup {NoText} /\ Target
      BY <1>1, <1>4, EndedState DEF SaveThenClose
    <2>2. prompt \in Prompt /\ prompt.doc = op.doc
      BY <2>1 DEF Prompt
    <2> HIDE DEF prompt
    <2>3. u \in Ui /\ Coherent(doc, u) /\ u.window = "open"
      BY <1>2, <2>1, <2>2 DEF Ui, Coherent, Target
    <2> HIDE DEF u
    <2>4. Allowed(doc, u)
      BY <1>1, <2>1, <2>3, SameAllowed
    <2> QED
      BY <1>1, <1>2, <1>4, <2>1, <2>3, <2>4, ReturnedGood
  <1> QED
    BY <1>1, <1>3, <1>4, EndedState

\* A save before a reload.
LEMMA SaveThenReloadGood ==
  ASSUME Inv, SaveThenReload
  PROVE  Good
  <1>1. Ended /\ op.after = "reload" /\ UNCHANGED <<disk, panels, consent>>
    BY DEF SaveThenReload
  <1>2. panels' \in Panels /\ PanelsWait' /\ ui \in Ui /\ Coherent(doc, ui)
    BY <1>1 DEF Inv, TypeOK, PanelsWait
  <1>3. CASE op.stage = "ok"
    <2> DEFINE d == ui.focus
               docs == Reloaded(doc, d)
    <2>1. /\ Returned(docs, ui) /\ op.doc = d /\ d \in Docs /\ doc[d].open /\ ~Unsaved(d)
          /\ ui.window = "open"
      BY <1>1, <1>3, EndedState DEF SaveThenReload, Target
    <2>2. ReloadedTo(docs, d)
      BY <2>1, ReloadShape
    <2> HIDE DEF docs
    <2>3. Allowed(docs, ui)
      BY <1>1, <1>2, <2>1, <2>2, ReloadAllowed
    <2>4. docs[d].open /\ docs[d].text = docs[d].saved
      BY <2>1, <2>2 DEF ReloadedTo, Unsaved
    <2>5. Clearable(docs, {op.doc}, consent'.docs)
      BY <2>1, <2>4, SavedClearable
    <2> QED
      BY <1>1, <1>2, <1>3, <2>1, <2>3, <2>5, ReturnedGood
  <1>4. CASE op.stage = "failed"
    <2> DEFINE prompt == [kind |-> "reload", doc |-> NoText]
               u == [ui EXCEPT !.pending = prompt]
    <2>1. Returned(doc, u) /\ ui.window = "open"
      BY <1>1, <1>4, EndedState DEF SaveThenReload
    <2>2. prompt \in Prompt /\ prompt.doc = NoText
      BY DEF Prompt
    <2> HIDE DEF prompt
    <2>3. u \in Ui /\ Coherent(doc, u) /\ u.window = "open"
      BY <1>2, <2>1, <2>2 DEF Ui, Coherent
    <2> HIDE DEF u
    <2>4. Allowed(doc, u)
      BY <1>1, <2>1, <2>3, SameAllowed
    <2> QED
      BY <1>1, <1>2, <1>4, <2>1, <2>3, <2>4, ReturnedGood
  <1> QED
    BY <1>1, <1>3, <1>4, EndedState

\* Save all goes on: the next document is open and its write starts afresh.
LEMMA SaveNextGood ==
  ASSUME Inv, NEW d \in Docs, SaveNext(d)
  PROVE  Good
  <1>1. /\ Ended /\ op.after = "quit" /\ d \in op.rest /\ UNCHANGED <<disk, ui, panels, consent>>
        /\ op' = [NoWrite EXCEPT !.doc = d, !.path = doc[d].path, !.stage = "check",
                                 !.after = "quit", !.rest = op.rest \ {d}]
    BY DEF SaveNext
  <1>2. PICK ok \in BOOLEAN : doc' = IF Writing("ok") THEN Cleared(doc, {op.doc}, ok) ELSE doc
    BY DEF SaveNext
  <1>3. /\ Target /\ ui.window = "open" /\ op.rest \in SUBSET Docs /\ doc \in [Docs -> Document]
    BY <1>1, EndedState, Types DEF Write, Inv, TypeOK
  <1>4. \E docs \in [Docs -> Document], ds \in SUBSET Docs :
          /\ doc' = Cleared(doc, ds, ok) /\ Clearable(doc, ds, consent.docs)
          /\ \A e \in ds : ~Unsaved(e)
    <2>1. CASE Writing("ok")
      <3>1. doc' = Cleared(doc, {op.doc}, ok)
        BY <1>2, <2>1
      <3>2. op.doc \in Docs /\ doc[op.doc].open /\ ~Unsaved(op.doc)
        BY <1>1, <2>1, EndedState
      <3>3. Clearable(doc, {op.doc}, consent.docs)
        BY <3>2, SavedClearable DEF Unsaved
      <3> QED
        BY <1>3, <3>1, <3>2, <3>3
    <2>2. CASE ~Writing("ok")
      <3>1. Cleared(doc, {}, ok) = doc
        BY <1>3 DEF Cleared
      <3> QED
        BY <1>2, <1>3, <2>2, <3>1 DEF Clearable
    <2> QED
      BY <2>1, <2>2
  <1>5. PICK ds \in SUBSET Docs : /\ doc' = Cleared(doc, ds, ok) /\ Clearable(doc, ds, consent.docs)
                                  /\ \A e \in ds : ~Unsaved(e)
    BY <1>4
  <1>6. /\ doc' \in [Docs -> Document]
        /\ \A e \in Docs : /\ doc'[e].open = doc[e].open /\ doc'[e].path = doc[e].path
                           /\ doc'[e].text = doc[e].text /\ doc'[e].saved = doc[e].saved
                           /\ e \notin ds => doc'[e] = doc[e]
    BY <1>3, <1>5, ClearedShape
  <1>7. /\ op' \in Write /\ op'.doc = d /\ op'.path = doc[d].path /\ op'.new = FALSE
        /\ op'.stage = "check" /\ op'.after = "quit" /\ op'.rest = op.rest \ {d}
    <2>1. doc[d].path \in Paths \cup {NoText}
      BY Types DEF Document
    <2>2. op.rest \ {d} \in SUBSET Docs
      BY <1>3
    <2> QED
      BY <1>1, <2>1, <2>2 DEF NoWrite, Write
  <1>8. Inv'
    <2>1. TypeOK' /\ FilesAreWhole' /\ PanelsWait'
      BY <1>1, <1>6, <1>7 DEF Inv, TypeOK, FilesAreWhole, PanelsWait
    <2>2. Coherent(doc, ui)'
      BY <1>1, <1>6, Types DEF Inv, Coherent
    <2>3. Copied(doc)'
      BY <1>5, <1>6 DEF Inv, Copied, Unsaved
    <2>4. Target'
      <3>1. doc[d].open /\ \A e \in op.rest : doc[e].open
        BY <1>1, <1>3 DEF Target
      <3> QED
        BY <1>1, <1>3, <1>6, <1>7, <3>1, DeskAssumption DEF Target
    <2>5. Progress'
      BY <1>7 DEF Progress
    <2> QED
      BY <2>1, <2>2, <2>3, <2>4, <2>5 DEF Inv, Underway
  <1>9. ASSUME NEW e \in Docs
        PROVE  KW!DocStep(View(doc, ui, consent.docs, e), View(doc', ui', consent'.docs, e))
    <2>1. KW!DocStep(View(doc, ui, consent.docs, e), View(doc, ui, consent.docs, e))
      BY DEF KW!DocStep
    <2>2. KW!DocStep(View(doc, ui, consent.docs, e), View(Cleared(doc, ds, ok), ui, consent.docs, e))
      BY <1>3, <1>5, <2>1, ClearedView
    <2> QED
      BY <1>1, <1>5, <2>2
  <1>10. KW!Next
    BY <1>1, <1>9, WorkStep
  <1> QED
    BY <1>1, <1>8, <1>10 DEF Good

\* Save all is done: the window closes, or the prompt returns.
LEMMA SaveAllReturnsGood ==
  ASSUME Inv, NEW kept \in BOOLEAN, SaveAllReturns(kept)
  PROVE  Good
  <1> DEFINE u == IF dirty_documents = {} /\ ~kept THEN [ui EXCEPT !.closing = TRUE]
                  ELSE [ui EXCEPT !.pending = [kind |-> "quit", doc |-> NoText]]
  <1>1. Returned(doc, u) /\ Ended /\ UNCHANGED <<disk, consent>>
        /\ panels' = [panels EXCEPT !.draft = kept]
    BY DEF SaveAllReturns
  <1>2. [kind |-> "quit", doc |-> NoText] \in Prompt
    BY DEF Prompt
  <1>3. u \in Ui /\ Coherent(doc, u) /\ u.window = ui.window
    <2>1. CASE dirty_documents = {} /\ ~kept
      BY <2>1, Types DEF Inv, Ui, Coherent
    <2>2. CASE ~(dirty_documents = {} /\ ~kept)
      BY <1>2, <2>2, Types DEF Inv, Ui, Coherent
    <2> QED
      BY <2>1, <2>2
  <1> HIDE DEF u
  <1>4. Allowed(doc, u)
    BY <1>1, <1>3, EndedState, SameAllowed
  <1>5. op.stage = "ok" => Clearable(doc, {op.doc}, consent'.docs)
    BY <1>1, EndedState, SavedClearable DEF Unsaved
  <1>6. panels' \in Panels /\ PanelsWait'
    BY <1>1, Types DEF Inv, Panels, PanelsWait
  <1> QED
    BY <1>1, <1>3, <1>4, <1>5, <1>6, EndedState, ReturnedGood

-----------------------------------------------------------------------------
(* The prompt and the panels *)

\* A handler that leaves the documents alone and settles panels or agreement.
LEMMA SettleGood ==
  ASSUME Inv, ui.window = "open", op.stage = "idle", UNCHANGED <<disk, op>>,
         panels' \in Panels, PanelsWait',
         consent' \in [docs : SUBSET Docs, draft : BOOLEAN],
         \A d \in Docs : ~doc[d].open => (d \in consent'.docs <=> d \in consent.docs),
         NEW shop \in BOOLEAN, NEW ok \in BOOLEAN, NEW u \in Ui, Coherent(doc, u),
         u.window = "open", AfterDispatch(shop, doc, u, ok)
  PROVE  Good
  <1>1. DispatchStep
    BY SameDocs
  <1>2. Quiet
    BY DEF Inv, TypeOK, Quiet
  <1> QED
    BY <1>1, <1>2, DispatchGood

LEMMA ConfirmSaveMetadataGood ==
  ASSUME Inv, ConfirmSaveMetadata
  PROVE  Good
  <1>1. /\ ui.window = "open" /\ op.stage = "idle" /\ panels.shop = FALSE
        /\ UNCHANGED <<disk, op, consent>> /\ panels' = [panels EXCEPT !.draft = FALSE]
    BY AtDeskState DEF ConfirmSaveMetadata, Asks
  <1>2. PICK ok \in BOOLEAN : AfterDispatch(FALSE, doc, Answered, ok)
    BY <1>1 DEF ConfirmSaveMetadata, Handled, HandledIn
  <1>3. panels' \in Panels /\ PanelsWait'
    BY <1>1, Types DEF Inv, Panels, PanelsWait
  <1> QED
    BY <1>1, <1>2, <1>3, Types, PromptShape, SettleGood

LEMMA ConfirmDiscardMetadataGood ==
  ASSUME Inv, ConfirmDiscardMetadata
  PROVE  Good
  <1>1. /\ ui.window = "open" /\ op.stage = "idle" /\ panels.shop = FALSE
        /\ UNCHANGED <<disk, op>> /\ panels' = [panels EXCEPT !.draft = FALSE]
        /\ consent' = [consent EXCEPT !.draft = TRUE]
    BY AtDeskState DEF ConfirmDiscardMetadata, Asks
  <1>2. PICK ok \in BOOLEAN : AfterDispatch(FALSE, doc, Answered, ok)
    BY <1>1 DEF ConfirmDiscardMetadata, Handled, HandledIn
  <1>3. panels' \in Panels /\ PanelsWait'
    BY <1>1, Types DEF Inv, Panels, PanelsWait
  <1>4. consent' \in [docs : SUBSET Docs, draft : BOOLEAN] /\ consent'.docs = consent.docs
    BY <1>1, Types
  <1> QED
    BY <1>1, <1>2, <1>3, <1>4, PromptShape, SettleGood

\* cancel_pending and review_pending.
LEMMA CancelPendingGood ==
  ASSUME Inv, CancelPending
  PROVE  Good
  <1>1. /\ ui.window = "open" /\ op.stage = "idle" /\ panels.shop = FALSE
        /\ UNCHANGED <<disk, panels, op, consent>>
    BY AtDeskState DEF CancelPending
  <1>2. PICK d \in {ui.focus} \cup dirty_documents, ok \in BOOLEAN :
          AfterDispatch(FALSE, doc, [Answered EXCEPT !.focus = d], ok)
    BY <1>1 DEF CancelPending, Handled, HandledIn
  <1>3. d \in Docs \cup {NoText} /\ (d # NoText => doc[d].open)
    BY <1>2, Types, PromptShape DEF dirty_documents, Unsaved
  <1> DEFINE u == [Answered EXCEPT !.focus = d]
  <1>4. u = [ui EXCEPT !.focus = d, !.pending = [kind |-> "none", doc |-> NoText]]
    BY PromptShape
  <1>5. AfterDispatch(FALSE, doc, u, ok)
    BY <1>2
  <1> HIDE DEF u
  <1> QED
    BY <1>1, <1>3, <1>4, <1>5, Types, AsksGood

\* Discard all: the copies that go are of documents the user gave up.
LEMMA ConfirmDiscardQuitGood ==
  ASSUME Inv, NEW failed \in SUBSET Docs, ConfirmDiscardQuit(failed)
  PROVE  Good
  <1> DEFINE ds == dirty_documents \ failed
             docs == Cleared(doc, ds, TRUE)
             left == {d \in Docs : docs[d].open /\ docs[d].copy # NoText}
             u == IF left = {} THEN [Answered EXCEPT !.discard = TRUE, !.closing = TRUE] ELSE ui
             ok == (failed = {})
  <1>1. /\ ui.window = "open" /\ op.stage = "idle" /\ panels.shop = FALSE
        /\ UNCHANGED <<disk, panels, op>>
        /\ consent' = [docs |-> consent.docs \cup dirty_documents, draft |-> TRUE]
        /\ AfterDispatch(FALSE, docs, u, ok)
    BY AtDeskState DEF ConfirmDiscardQuit, Asks
  <1>2. ok \in BOOLEAN
    OBVIOUS
  <1>3. u \in Ui /\ Coherent(doc, u) /\ u.window = "open"
    <2> HIDE DEF left
    <2>1. CASE left = {}
      BY <1>1, <2>1, PromptShape DEF Ui, Coherent
    <2>2. CASE left # {}
      BY <1>1, <2>2 DEF Inv, TypeOK
    <2> QED
      BY <2>1, <2>2
  <1> HIDE DEF u, ok
  <1>4. ds \in SUBSET Docs /\ dirty_documents \in SUBSET Docs
        /\ \A d \in dirty_documents : doc[d].open
    BY DEF dirty_documents, Unsaved
  <1>5. consent' \in [docs : SUBSET Docs, draft : BOOLEAN]
    BY <1>1, <1>4, Types
  <1>6. \A d \in Docs : ~doc[d].open => (d \in consent'.docs <=> d \in consent.docs)
    BY <1>1, <1>4
  <1>7. Clearable(doc, ds, consent'.docs)
    BY <1>1, <1>4 DEF Clearable
  <1> HIDE DEF ds
  <1>8. Allowed(doc, u)
    BY <1>1, <1>3, <1>6, SameAllowed
  <1>9. DispatchStep
    BY <1>1, <1>2, <1>3, <1>4, <1>7, <1>8, ClearsCopies
  <1> QED
    BY <1>1, <1>5, <1>9, StaysQuiet, DispatchGood

LEMMA ConfirmDiscardCloseGood ==
  ASSUME Inv, ConfirmDiscardClose
  PROVE  Good
  <1> DEFINE d == ui.pending.doc
  <1>1. /\ ui.window = "open" /\ op.stage = "idle" /\ panels.shop = FALSE
        /\ UNCHANGED <<disk, panels, op>>
        /\ consent' = [consent EXCEPT !.docs = consent.docs \cup ({d} \ {NoText})]
    BY AtDeskState DEF ConfirmDiscardClose, Asks
  <1>2. consent'.docs = consent.docs \cup ({d} \ {NoText})
        /\ consent' \in [docs : SUBSET Docs, draft : BOOLEAN]
    BY <1>1, Types
  <1>3. CASE d = NoText
    <2>1. PICK ok \in BOOLEAN : AfterDispatch(FALSE, doc, Answered, ok)
      BY <1>1, <1>3 DEF ConfirmDiscardClose, Handled, HandledIn
    <2>2. \A c \in Docs : ~doc[c].open => (c \in consent'.docs <=> c \in consent.docs)
      BY <1>2, <1>3
    <2>3. panels' \in Panels /\ PanelsWait'
      BY <1>1 DEF Inv, TypeOK, PanelsWait
    <2> QED
      BY <1>1, <1>2, <2>1, <2>2, <2>3, PromptShape, SettleGood
  <1>4. CASE d # NoText
    <2>1. PICK ok \in BOOLEAN :
            AfterDispatch(FALSE, AfterClose(doc, Answered, d).docs, AfterClose(doc, Answered, d).ui, ok)
      BY <1>1, <1>4 DEF ConfirmDiscardClose, Handled, HandledIn
    <2>2. d \in Docs /\ doc[d].open
      BY <1>4, Types DEF Inv, Coherent
    <2>3. d \in consent'.docs /\ \A e \in Docs \ {d} : e \in consent'.docs <=> e \in consent.docs
      BY <1>2, <1>4
    <2> DEFINE u == Answered
    <2>4. u \in Ui /\ Coherent(doc, u) /\ u.window = "open"
      BY <1>1, PromptShape
    <2> HIDE DEF d, u
    <2>5. AfterDispatch(FALSE, AfterClose(doc, u, d).docs, AfterClose(doc, u, d).ui, ok)
      BY <2>1 DEF u
    <2>6. DispatchStep
      BY <1>1, <2>2, <2>3, <2>4, <2>5, ClosesTab
    <2> QED
      BY <1>1, <1>2, <2>6, StaysQuiet, DispatchGood
  <1> QED
    BY <1>3, <1>4

LEMMA ConfirmDiscardReloadGood ==
  ASSUME Inv, ConfirmDiscardReload
  PROVE  Good
  <1> DEFINE d == ui.focus
             docs == Reloaded(doc, d)
  <1>1. /\ ui.window = "open" /\ op.stage = "idle" /\ panels.shop = FALSE
        /\ UNCHANGED <<disk, panels, op>> /\ d \in Docs /\ doc[d].open
        /\ consent' = [consent EXCEPT !.docs = consent.docs \cup {d}]
    BY AtDeskState, Types, PromptShape DEF ConfirmDiscardReload, Asks
  <1>2. consent'.docs = consent.docs \cup {d} /\ consent' \in [docs : SUBSET Docs, draft : BOOLEAN]
    BY <1>1, Types
  <1>3. PICK ok \in BOOLEAN : AfterDispatch(FALSE, docs, Answered, ok)
    BY <1>1 DEF ConfirmDiscardReload, Handled, HandledIn
  <1>4. ReloadedTo(docs, d)
    BY <1>1, ReloadShape
  <1>5. d \in consent'.docs /\ \A e \in Docs \ {d} : e \in consent'.docs <=> e \in consent.docs
    BY <1>2
  <1>6. Answered \in Ui /\ Coherent(doc, Answered) /\ Answered.window = "open"
    BY <1>1, PromptShape
  <1> HIDE DEF docs
  <1>7. DispatchStep
    BY <1>1, <1>3, <1>4, <1>5, <1>6, Reloads
  <1> QED
    BY <1>1, <1>2, <1>7, StaysQuiet, DispatchGood

\* Panels that keep their documents' side alone: what such an action leaves.
LEMMA PanelGood ==
  ASSUME Inv, ui.window = "open", op.stage = "idle", UNCHANGED <<disk, op>>,
         panels' \in Panels, PanelsWait',
         consent' \in [docs : SUBSET Docs, draft : BOOLEAN], consent'.docs = consent.docs,
         NEW u, u \in Ui, Coherent(doc, u), u.window = "open",
         NEW shop \in BOOLEAN, HandledIn(shop, doc, u)
  PROVE  Good
  <1>1. PICK ok \in BOOLEAN : AfterDispatch(shop, doc, u, ok)
    BY DEF HandledIn
  <1> QED
    BY <1>1, SettleGood

\* The state a panel action starts in.
LEMMA PanelState ==
  ASSUME Inv, AtDesk \/ InShop \/ Ready
  PROVE  /\ ui.window = "open" /\ op.stage = "idle" /\ ui \in Ui /\ Coherent(doc, ui)
         /\ panels.shop \in BOOLEAN /\ panels.changed \in BOOLEAN /\ panels.metre \in BOOLEAN
         /\ panels.asked \in BOOLEAN /\ panels.quit \in BOOLEAN
  BY Types DEF AtDesk, InShop, Ready, Inv, Panels

LEMMA MetadataGood ==
  ASSUME Inv, EditMetadata \/ SaveMetadata
  PROVE  Good
  <1>1. PICK draft \in BOOLEAN : panels' = [panels EXCEPT !.draft = draft]
    BY DEF EditMetadata, SaveMetadata, SetPanels
  <1>2. /\ AtDesk /\ UNCHANGED <<disk, op>> /\ HandledIn(panels.shop, doc, ui)
    BY DEF EditMetadata, SaveMetadata, SetPanels, Handled
  <1>3. consent' = consent \/ consent' = [consent EXCEPT !.draft = FALSE]
    BY DEF EditMetadata, SaveMetadata
  <1>4. consent' \in [docs : SUBSET Docs, draft : BOOLEAN] /\ consent'.docs = consent.docs
    BY <1>3, Types
  <1>5. panels' \in Panels /\ PanelsWait'
    BY <1>1, Types DEF Inv, Panels, PanelsWait
  <1> QED
    BY <1>2, <1>4, <1>5, PanelState, PanelGood

LEMMA CloseMetadataGood ==
  ASSUME Inv, CloseMetadata
  PROVE  Good
  <1> DEFINE u == [ui EXCEPT !.pending = [kind |-> "metadata", doc |-> NoText]]
  <1>1. AtDesk /\ UNCHANGED <<disk, panels, op, consent>> /\ HandledIn(panels.shop, doc, u)
    BY DEF CloseMetadata, SetPanels, Handled
  <1>2. [kind |-> "metadata", doc |-> NoText] \in Prompt
    BY DEF Prompt
  <1>3. u \in Ui /\ Coherent(doc, u) /\ u.window = "open"
    BY <1>1, <1>2, PanelState, Types DEF Ui, Coherent
  <1> HIDE DEF u
  <1>4. panels' \in Panels /\ PanelsWait'
    BY <1>1 DEF Inv, TypeOK, PanelsWait
  <1> QED
    BY <1>1, <1>3, <1>4, Types, PanelState, PanelGood

\* The metre panel; its question is asked only while it holds a draft.
LEMMA MetreGood ==
  ASSUME Inv, EditMetre \/ CollectMetre \/ KeepMetre
  PROVE  Good
  <1>1. /\ AtDesk \/ Ready
        /\ UNCHANGED <<disk, op, consent>>
        /\ HandledIn(panels.shop, doc, ui)
    BY DEF EditMetre, CollectMetre, KeepMetre, SetPanels, Handled
  <1>2. panels' \in Panels /\ PanelsWait'
    <2>1. CASE EditMetre
      <3>1. panels' = [panels EXCEPT !.metre = TRUE] /\ panels.shop = FALSE
        BY <2>1, AtDeskState DEF EditMetre, SetPanels
      <3> QED
        BY <3>1, Types DEF Inv, Panels, PanelsWait
    <2>2. CASE CollectMetre
      <3>1. panels' = [panels EXCEPT !.metre = FALSE]
        BY <2>2 DEF CollectMetre, SetPanels
      <3> QED
        BY <3>1, Types DEF Inv, Panels, PanelsWait
    <2>3. CASE KeepMetre
      <3>1. panels' = [panels EXCEPT !.metreAsks = FALSE]
        BY <2>3 DEF KeepMetre, SetPanels
      <3> QED
        BY <3>1, Types DEF Inv, Panels, PanelsWait
    <2> QED
      BY <2>1, <2>2, <2>3
  <1> QED
    BY <1>1, <1>2, Types, PanelState, PanelGood

LEMMA DiscardMetreGood ==
  ASSUME Inv, DiscardMetreAndClose
  PROVE  Good
  <1> DEFINE u == [ui EXCEPT !.closing = TRUE]
  <1>1. /\ Ready /\ UNCHANGED <<disk, op, consent>> /\ HandledIn(panels.shop, doc, u)
        /\ panels' = [panels EXCEPT !.metre = FALSE, !.metreAsks = FALSE]
    BY DEF DiscardMetreAndClose, SetPanels, Handled
  <1>2. u \in Ui /\ Coherent(doc, u) /\ u.window = "open"
    BY <1>1, PanelState DEF Ui, Coherent
  <1> HIDE DEF u
  <1>3. panels' \in Panels /\ PanelsWait'
    BY <1>1, Types DEF Inv, Panels, PanelsWait
  <1> QED
    BY <1>1, <1>2, <1>3, Types, PanelState, PanelGood

\* The workshop: what waits in it stays while it is shown.
LEMMA WorkshopGood ==
  ASSUME Inv, OpenWorkshop \/ BackToKnot \/ StayInWorkshop
              \/ \E changed \in BOOLEAN : EditTheme(changed)
  PROVE  Good
  <1>1. /\ AtDesk \/ InShop
        /\ UNCHANGED <<disk, op, consent>>
        /\ HandledIn(panels'.shop, doc, ui)
    BY DEF OpenWorkshop, BackToKnot, StayInWorkshop, EditTheme, SetPanels
  <1>2. panels' \in Panels /\ PanelsWait'
    <2>1. CASE OpenWorkshop
      <3>1. panels' = [panels EXCEPT !.shop = TRUE, !.asked = FALSE, !.quit = FALSE]
        BY <2>1 DEF OpenWorkshop, SetPanels
      <3> QED
        BY <3>1, Types DEF Inv, Panels, PanelsWait
    <2>2. CASE BackToKnot
      <3>1. panels' = [panels EXCEPT !.quit = FALSE, !.shop = panels.changed, !.asked = panels.changed]
        BY <2>2 DEF BackToKnot, SetPanels
      <3> QED
        BY <3>1, Types DEF Inv, Panels, PanelsWait
    <2>3. CASE StayInWorkshop
      <3>1. panels' = [panels EXCEPT !.asked = FALSE, !.quit = FALSE]
        BY <2>3 DEF StayInWorkshop, SetPanels
      <3> QED
        BY <3>1, Types DEF Inv, Panels, PanelsWait
    <2>4. ASSUME NEW changed \in BOOLEAN, EditTheme(changed)
          PROVE  panels' \in Panels /\ PanelsWait'
      <3> DEFINE quit == panels.quit /\ panels.asked
      <3>1. panels' = [panels EXCEPT !.changed = changed, !.quit = quit] /\ InShop
        BY <2>4 DEF EditTheme, SetPanels
      <3>2. quit \in BOOLEAN /\ (quit => panels.quit)
        OBVIOUS
      <3> HIDE DEF quit
      <3> QED
        BY <3>1, <3>2, Types DEF Inv, InShop, Panels, PanelsWait
    <2> QED
      BY <2>1, <2>2, <2>3, <2>4
  <1>3. panels'.shop \in BOOLEAN
    BY <1>2 DEF Panels
  <1> QED
    BY <1>1, <1>2, <1>3, Types, PanelState, PanelGood

-----------------------------------------------------------------------------
(* A request to close the window *)

\* The workspace's answer, once the two hooks before it have nothing to keep.
LEMMA WorkspaceCloseAllowed ==
  ASSUME Inv, ui.window = "open", NEW u \in Ui, Coherent(doc, u), u.window = "open",
         u.discard = ui.discard, ~panels'.metre, ~panels'.changed, panels'.draft = panels.draft,
         consent'.docs = consent.docs, NEW flushed \in BOOLEAN
  PROVE  Allowed(doc, WorkspaceClose(u, panels.draft, flushed))
  <1> DEFINE v == WorkspaceClose(u, panels.draft, flushed)
  <1>1. [kind |-> "quit", doc |-> NoText] \in Prompt
    BY DEF Prompt
  <1>2. v \in Ui /\ Coherent(doc, v)
    BY <1>1 DEF WorkspaceClose, Ui, Coherent
  <1>3. v.window # "open" => ui.discard \/ ~panels.draft
    BY DEF WorkspaceClose, Ui
  <1> HIDE DEF v
  <1>4. v.window = "open" \/ (v.window = "gone" /\ CloseAgreed)
    BY <1>2, <1>3 DEF CloseAgreed, Ui
  <1>5. ASSUME NEW d \in Docs
        PROVE  KW!DocStep(View(doc, ui, consent.docs, d), View(doc, v, consent'.docs, d))
    <2>1. CASE v.window = "open" \/ ~doc[d].open
      <3>1. View(doc, v, consent'.docs, d) = View(doc, ui, consent.docs, d)
        BY <1>4, <2>1 DEF View
      <3> QED
        BY <3>1 DEF KW!DocStep
    <2>2. CASE v.window = "gone" /\ doc[d].open
      <3> DEFINE w == View(doc, ui, consent.docs, d)
                 n == View(doc, v, consent'.docs, d)
      <3>1. w.open /\ ~n.open
        BY <2>2 DEF View
      <3>2. doc[d].text # doc[d].saved => doc[d].copy = doc[d].text
        BY <2>2 DEF Inv, Copied
      <3>3. w.text # w.seen => w.copy = w.text
        BY <3>2 DEF View
      <3> QED
        BY <3>1, <3>3 DEF KW!DocStep, KW!Leaves, KW!Unsaved
    <2> QED
      BY <1>4, <2>1, <2>2
  <1>6. doc \in [Docs -> Document]
    BY DEF Inv, TypeOK
  <1>7. Allowed(doc, v)
    BY <1>2, <1>4, <1>5, <1>6 DEF Allowed
  <1> QED
    BY <1>7 DEF v

\* The hooks, in the title bar's order.
LEMMA CloseHookGood ==
  ASSUME Inv, ui.window = "open", op.stage = "idle", NEW ok \in BOOLEAN, CloseHook(ok)
  PROVE  Good
  <1> DEFINE u == [ui EXCEPT !.closing = FALSE]
  <1>1. UNCHANGED <<disk, doc, op, consent>>
    BY DEF CloseHook
  <1>2. u \in Ui /\ Coherent(doc, u) /\ u.window = "open" /\ u.discard = ui.discard
    BY Types DEF Inv, Ui, Coherent
  <1>3. Allowed(doc, ui') /\ panels' \in Panels /\ PanelsWait'
    <2>1. CASE panels.metre
      <3>1. panels' = [panels EXCEPT !.metreAsks = TRUE] /\ ui' = u
        BY <2>1 DEF CloseHook
      <3>2. panels' \in Panels /\ PanelsWait'
        BY <3>1, Types DEF Inv, Panels, PanelsWait
      <3> QED
        BY <1>1, <1>2, <3>1, <3>2, SameAllowed
    <2>2. CASE ~panels.metre /\ panels.shop /\ panels.changed
      <3>1. panels' = [panels EXCEPT !.quit = TRUE, !.asked = TRUE] /\ ui' = u
        BY <2>2 DEF CloseHook
      <3>2. panels' \in Panels /\ PanelsWait'
        BY <2>2, <3>1, Types DEF Inv, Panels, PanelsWait
      <3> QED
        BY <1>1, <1>2, <3>1, <3>2, SameAllowed
    <2>3. CASE ~panels.metre /\ ~(panels.shop /\ panels.changed)
      <3> HIDE DEF u
      <3>1. /\ panels' = [panels EXCEPT !.shop = FALSE, !.asked = FALSE, !.quit = FALSE]
            /\ ui' = WorkspaceClose(u, panels.draft, ok)
        BY <2>3 DEF CloseHook, u
      <3>2. ~panels.changed /\ ~panels.metre
        BY <2>3 DEF Inv, PanelsWait
      <3>3. panels' \in Panels /\ PanelsWait' /\ ~panels'.metre /\ ~panels'.changed
            /\ panels'.draft = panels.draft
        BY <3>1, <3>2, Types DEF Panels, PanelsWait
      <3> QED
        BY <1>1, <1>2, <3>1, <3>3, WorkspaceCloseAllowed
    <2> QED
      BY <2>1, <2>2, <2>3
  <1>4. DispatchStep
    <2>1. AfterDispatch(TRUE, doc, ui', TRUE)
      BY <1>1 DEF AfterDispatch
    <2> QED
      BY <1>3, <2>1 DEF DispatchStep, Allowed
  <1>5. Quiet
    BY <1>1, <1>3 DEF Inv, TypeOK, Quiet
  <1> QED
    BY <1>4, <1>5, DispatchGood

LEMMA LeaveWorkshopGood ==
  ASSUME Inv, NEW ok \in BOOLEAN, LeaveWorkshop(ok)
  PROVE  Good
  <1> DEFINE u == IF panels.quit THEN WorkspaceClose(ui, panels.draft, ok) ELSE ui
  <1>1. /\ InShop /\ UNCHANGED <<disk, op, consent>> /\ AfterDispatch(FALSE, doc, u, ok)
        /\ panels' = [panels EXCEPT !.shop = FALSE, !.changed = FALSE, !.asked = FALSE, !.quit = FALSE]
    BY DEF LeaveWorkshop, SetPanels
  <1>2. /\ panels' \in Panels /\ PanelsWait' /\ ~panels'.changed
        /\ panels'.metre = panels.metre /\ panels'.draft = panels.draft
    BY <1>1, Types DEF Panels, PanelsWait
  <1>3. Allowed(doc, u)
    <2>1. CASE panels.quit
      <3>1. ~panels'.metre
        BY <1>2, <2>1 DEF Inv, PanelsWait
      <3>2. Allowed(doc, WorkspaceClose(ui, panels.draft, ok))
        BY <1>1, <1>2, <3>1, PanelState, WorkspaceCloseAllowed
      <3> QED
        BY <2>1, <3>2
    <2>2. CASE ~panels.quit
      BY <1>1, <2>2, PanelState, SameAllowed
    <2> QED
      BY <2>1, <2>2
  <1> HIDE DEF u
  <1>4. DispatchStep
    BY <1>1, <1>3 DEF DispatchStep, Allowed
  <1>5. Quiet
    BY <1>1, <1>2, PanelState DEF Inv, TypeOK, Quiet
  <1> QED
    BY <1>1, <1>4, <1>5, PanelState, DispatchGood

-----------------------------------------------------------------------------
(* The retention worker, and other programs *)

LEMMA WorkerGood ==
  ASSUME Inv, WorkerReplies \/ AfterWake
  PROVE  Good
  <1>1. ui.window = "open" /\ UNCHANGED <<disk, doc, panels, op, consent>>
    BY DEF WorkerReplies, AfterWake
  <1>2. ui' = [ui EXCEPT !.replied = TRUE] \/ ui' = drain_retention(ui)
    BY DEF WorkerReplies, AfterWake
  <1>3. ui \in Ui /\ Coherent(doc, ui)
    BY DEF Inv, TypeOK
  <1>4. /\ ui' \in Ui /\ ui'.focus = ui.focus /\ ui'.pending = ui.pending
        /\ ui'.window = ui.window /\ ui'.retaining \in {ui.retaining, NoText}
    BY <1>2, <1>3, DrainShape DEF Ui
  <1>5. Coherent(doc, ui')
    BY <1>3, <1>4 DEF Coherent
  <1>6. op' \in Write /\ Underway'
    BY <1>1, <1>4 DEF Inv, TypeOK, Underway, Target, Progress, Unsaved
  <1> QED
    BY <1>1, <1>4, <1>5, <1>6, AsideGood

\* Whatever another program does to a file, a write that has looked at it knows.
LEMMA ForeignGood ==
  ASSUME Inv, NEW p \in Paths, NEW x \in Texts \cup {NoText}, NEW r \in BOOLEAN, Foreign(p, x, r)
  PROVE  Good /\ \A q \in Paths : disk'[q] # disk[q] => disk'[q].by \notin Docs
  <1> DEFINE raced == op.raced \/ (op.path = p /\ op.stage \in {"stage", "sync", "replace"})
  <1>1. /\ UNCHANGED <<doc, ui, panels, consent>> /\ ui.window = "open"
        /\ op' = [op EXCEPT !.raced = raced]
    BY DEF Foreign
  <1>2. PICK f \in File : /\ disk' = [disk EXCEPT ![p] = f]
                          /\ f.text = x /\ f.by = Other /\ f.text # Torn
    <2>1. ASSUME NEW h \in {disk[p].handle, Fresh} \ {0},
                 disk' = [disk EXCEPT ![p] = [text |-> x, handle |-> h, ro |-> r, by |-> Other]]
          PROVE  [text |-> x, handle |-> h, ro |-> r, by |-> Other] \in File
      <3>1. h \in Handles \cup {0}
        BY FreshIsNew, Types DEF File
      <3> QED
        BY <3>1 DEF File
    <2>2. NoFile \in File /\ NoFile.text = NoText /\ NoFile.by = Other
      BY DEF NoFile, File
    <2>3. x # Torn
      BY DeskAssumption
    <2>4. CASE x = NoText /\ disk' = [disk EXCEPT ![p] = NoFile]
      BY <2>2, <2>3, <2>4
    <2>5. CASE \E h \in {disk[p].handle, Fresh} \ {0} :
                 disk' = [disk EXCEPT ![p] = [text |-> x, handle |-> h, ro |-> r, by |-> Other]]
      BY <2>1, <2>3, <2>5
    <2> QED
      BY <2>4, <2>5 DEF Foreign
  <1>3. disk' \in [Paths -> File] /\ disk'[p] = f /\ \A q \in Paths \ {p} : disk'[q] = disk[q]
    BY <1>2 DEF Inv, TypeOK
  <1>4. raced \in BOOLEAN
    OBVIOUS
  <1>5. /\ op' \in Write /\ op'.raced = raced /\ op'.doc = op.doc /\ op'.path = op.path
        /\ op'.new = op.new /\ op'.stage = op.stage /\ op'.temp = op.temp /\ op'.after = op.after
        /\ op'.rest = op.rest
    BY <1>1, <1>4, Types DEF Write
  <1>6. Underway'
    <2> SUFFICES ASSUME op'.stage # "idle" PROVE Target' /\ Progress'
      BY DEF Underway
    <2>1. Target /\ Progress
      BY <1>5 DEF Inv, Underway
    <2>2. Target'
      BY <1>1, <1>5, <2>1 DEF Target
    <2>3. ASSUME op.stage \in {"stage", "sync", "replace"}, ~op.new
          PROVE  raced \/ disk'[op.path].text = doc[op.doc].base
      <3>1. op.raced \/ disk[op.path].text = doc[op.doc].base
        BY <2>1, <2>3 DEF Progress
      <3>2. op.path \in Paths
        BY <2>1, <2>3 DEF Target
      <3>3. CASE op.path = p
        BY <2>3, <3>3
      <3>4. CASE op.path # p
        BY <1>3, <3>1, <3>2, <3>4
      <3> QED
        BY <3>3, <3>4
    <2> HIDE DEF raced
    <2>4. op'.stage \in {"stage", "sync", "replace"} /\ ~op'.new =>
            op'.raced \/ disk'[op'.path].text = doc'[op'.doc].base
      BY <1>1, <1>5, <2>3
    <2>5. op'.stage = "ok" => ~Unsaved(op.doc)'
      BY <1>1, <1>5, <2>1 DEF Progress, Unsaved
    <2> QED
      BY <1>5, <2>1, <2>2, <2>4, <2>5 DEF Progress
  <1>7. Inv'
    <2>1. TypeOK' /\ FilesAreWhole' /\ PanelsWait'
      BY <1>1, <1>2, <1>3, <1>5 DEF Inv, TypeOK, FilesAreWhole, PanelsWait
    <2>2. Coherent(doc, ui)' /\ Copied(doc)'
      BY <1>1 DEF Inv
    <2> QED
      BY <1>6, <2>1, <2>2 DEF Inv
  <1>8. KW!Next
    <2>1. [q \in Paths |-> [text |-> disk'[q].text, by |-> disk'[q].by]]
            = [[q \in Paths |-> [text |-> disk[q].text, by |-> disk[q].by]] EXCEPT
                 ![p] = [text |-> x, by |-> Other]]
      BY <1>2, <1>3
    <2> QED
      BY <1>1, <2>1 DEF KW!Next, KW!Foreign
  <1>9. \A q \in Paths : disk'[q] # disk[q] => disk'[q].by \notin Docs
    BY <1>2, <1>3, DeskAssumption
  <1> QED
    BY <1>1, <1>7, <1>8, <1>9 DEF Good

-----------------------------------------------------------------------------
(* The whole *)

LEMMA DocumentStepGood ==
  ASSUME Inv, DocumentStep
  PROVE  Good
  BY OpenPathGood, NewDocumentGood, FocusGood, CloseTabGood, EditGood, SaveGood, ReloadGood,
     SaveAsGood DEF DocumentStep

LEMMA WriteStepGood ==
  ASSUME Inv, WriteStep
  PROVE  Good
  BY CheckGood, StageGood, SyncGood, ReplaceGood, ObserveGood, WriteFailsGood, SaveReturnsGood,
     SaveThenCloseGood, SaveThenReloadGood, SaveNextGood, SaveAllReturnsGood DEF WriteStep

LEMMA PromptStepGood ==
  ASSUME Inv, PromptStep
  PROVE  Good
  BY ConfirmSaveQuitGood, ConfirmSaveMetadataGood, CancelPendingGood, ConfirmSaveCloseGood,
     ConfirmSaveReloadGood, ConfirmDiscardQuitGood, ConfirmDiscardCloseGood,
     ConfirmDiscardReloadGood, ConfirmDiscardMetadataGood DEF PromptStep

LEMMA PanelStepGood ==
  ASSUME Inv, PanelStep
  PROVE  Good
  BY MetadataGood, CloseMetadataGood, MetreGood, DiscardMetreGood, WorkshopGood, LeaveWorkshopGood
     DEF PanelStep

LEMMA CloseGood ==
  ASSUME Inv, NativeClose \/ CommandClose
  PROVE  Good
  <1>1. ui.window = "open" /\ op.stage = "idle" /\ \E ok \in BOOLEAN : CloseHook(ok)
    BY DEF NativeClose, CommandClose, Ready
  <1> QED
    BY <1>1, CloseHookGood

\* Every step keeps the invariant, is one KeptWork allows, and lets the window go
\* only as it may.
LEMMA NextGood ==
  ASSUME Inv, Next
  PROVE  Good
  BY DocumentStepGood, WriteStepGood, PromptStepGood, PanelStepGood, CloseGood, RetainGood,
     WorkerGood, ForeignGood DEF Next

LEMMA InvStable ==
  ASSUME Inv, UNCHANGED vars
  PROVE  Inv'
  BY DEF vars, Inv, TypeOK, FilesAreWhole, Coherent, Copied, Underway, Target, Progress, Unsaved,
         PanelsWait

\* The window starts on one tab, with nothing unsaved.
LEMMA InitShape ==
  ASSUME Init
  PROVE  /\ disk \in [Paths -> File] /\ \A p \in Paths : disk[p].text \in Texts \cup {NoText}
         /\ doc \in [Docs -> Document] /\ \A d \in Docs : ~Unsaved(d)
         /\ ui \in Ui /\ Coherent(doc, ui) /\ ui.window = "open"
  <1>1. disk \in [Paths -> File] /\ \A p \in Paths : disk[p].text \in Texts \cup {NoText}
    BY DEF Init, NoFile
  <1>2. PICK d \in Docs :
          /\ \/ doc = [e \in Docs |-> IF e = d THEN Scratch ELSE Closed]
             \/ \E p \in Paths : doc = [e \in Docs |-> IF e = d THEN Opened(p, disk[p]) ELSE Closed]
          /\ ui = [focus |-> d, pending |-> NoPrompt, discard |-> FALSE, closing |-> FALSE,
                   window |-> "open", retaining |-> NoText, replied |-> FALSE]
    BY DEF Init
  <1>3. Closed \in Document /\ ~Closed.open
    BY DEF Closed, Document
  <1>4. PICK e \in Document : /\ doc = [c \in Docs |-> IF c = d THEN e ELSE Closed]
                              /\ e.open /\ e.text = e.saved
    <2>1. Scratch \in Document /\ Scratch.open /\ Scratch.text = Scratch.saved
      BY DeskAssumption DEF Scratch, Closed, Document
    <2>2. ASSUME NEW p \in Paths
          PROVE  LET e == Opened(p, disk[p]) IN e \in Document /\ e.open /\ e.text = e.saved
      BY <1>1 DEF Opened, Document, File
    <2> QED
      BY <1>2, <2>1, <2>2
  <1>5. doc \in [Docs -> Document] /\ doc[d].open /\ \A c \in Docs : ~Unsaved(c)
    BY <1>3, <1>4 DEF Unsaved
  <1>6. NoPrompt \in Prompt /\ NoPrompt.doc = NoText
    BY DEF NoPrompt, Prompt
  <1>7. /\ ui \in Ui /\ ui.focus = d /\ ui.pending = NoPrompt /\ ui.retaining = NoText
        /\ ui.window = "open"
    BY <1>2, <1>6 DEF Ui
  <1>8. Coherent(doc, ui)
    BY <1>5, <1>6, <1>7 DEF Coherent
  <1> QED
    BY <1>1, <1>5, <1>7, <1>8

LEMMA InitInv ==
  ASSUME Init
  PROVE  Inv
  <1>1. op = NoWrite /\ NoWrite \in Write /\ NoWrite.stage = "idle"
    BY DEF Init, NoWrite, Write
  <1>2. panels \in Panels /\ PanelsWait
    BY DEF Init, Panels, PanelsWait
  <1>3. consent \in [docs : SUBSET Docs, draft : BOOLEAN]
    BY DEF Init
  <1>4. TypeOK
    BY <1>1, <1>2, <1>3, InitShape DEF TypeOK
  <1>5. FilesAreWhole
    BY InitShape, DeskAssumption DEF FilesAreWhole
  <1>6. Copied(doc)
    BY InitShape DEF Copied, Unsaved
  <1>7. Underway
    BY <1>1 DEF Underway
  <1> QED
    BY <1>2, <1>4, <1>5, <1>6, <1>7, InitShape DEF Inv

LEMMA InitKept ==
  ASSUME Init
  PROVE  KW!Init
  <1>1. [p \in Paths |-> [text |-> disk[p].text, by |-> disk[p].by]] \in [Paths -> KW!File]
    BY InitShape DEF File, KW!File
  <1> DEFINE work == [d \in Docs |->
        [open |-> doc[d].open /\ ui.window = "open", path |-> doc[d].path, text |-> doc[d].text,
         seen |-> doc[d].saved, copy |-> doc[d].copy, agreed |-> d \in consent.docs]]
  <1>2. ASSUME NEW d \in Docs
        PROVE  work[d] \in KW!Work /\ ~KW!Unsaved(work[d])
    <2>1. doc[d] \in Document /\ ~Unsaved(d)
      BY InitShape
    <2> QED
      BY <2>1 DEF Document, Unsaved, KW!Work, KW!Unsaved
  <1>3. work \in [Docs -> KW!Work] /\ \A d \in Docs : ~KW!Unsaved(work[d])
    BY <1>2
  <1> QED
    BY <1>1, <1>3 DEF KW!Init

\* Only the rename of a write and other programs touch the files.
LEMMA WhoWrites ==
  ASSUME Next, ~Replace, disk' # disk
  PROVE  \E p \in Paths, x \in Texts \cup {NoText}, r \in BOOLEAN : Foreign(p, x, r)
  <1>1. ~DocumentStep
    BY DEF DocumentStep, OpenPath, NewDocument, Focus, CloseTab, Edit, Save, Reload, SaveAs, Begin
  <1>2. ~WriteStep
    BY DEF WriteStep, Check, Stage, Sync, Observe, WriteFails, SaveReturns, SaveThenClose,
           SaveThenReload, SaveNext, SaveAllReturns
  <1>3. ~PromptStep
    BY DEF PromptStep, ConfirmSaveQuit, ConfirmSaveMetadata, CancelPending, ConfirmSaveClose,
           ConfirmSaveReload, SaveForPending, Begin, ConfirmDiscardQuit, ConfirmDiscardClose,
           ConfirmDiscardReload, ConfirmDiscardMetadata
  <1>4. ~PanelStep
    BY DEF PanelStep, EditMetadata, SaveMetadata, CloseMetadata, EditMetre, CollectMetre, KeepMetre,
           DiscardMetreAndClose, OpenWorkshop, BackToKnot, StayInWorkshop, EditTheme, LeaveWorkshop,
           SetPanels
  <1>5. ~(NativeClose \/ CommandClose \/ Retain \/ WorkerReplies \/ AfterWake)
    BY DEF NativeClose, CommandClose, CloseHook, Retain, WorkerReplies, AfterWake
  <1> QED
    BY <1>1, <1>2, <1>3, <1>4, <1>5 DEF Next

LEMMA Invariance == Spec => []Inv
  <1>1. Init => Inv
    BY InitInv
  <1>2. Inv /\ [Next]_vars => Inv'
    BY NextGood, InvStable DEF Good
  <1> QED
    BY <1>1, <1>2, PTL DEF Spec

\* The window, its documents, the files and the write in progress keep their types
\* over every handler.
THEOREM TypeCorrect == Spec => []TypeOK
  <1>1. Inv => TypeOK
    BY DEF Inv
  <1> QED
    BY <1>1, Invariance, PTL

\* No path ever holds a file whose bytes were not flushed: the rename of a write
\* follows its flush whatever failed or raced before.
THEOREM WholeFiles == Spec => []FilesAreWhole
  <1>1. Inv => FilesAreWhole
    BY DEF Inv
  <1> QED
    BY <1>1, Invariance, PTL

\* Unsaved text is always in its recovery copy, over every handler that clears copies.
THEOREM AlwaysCopied == Spec => []UnsavedIsCopied
  <1>1. Inv => UnsavedIsCopied
    BY DEF Inv, Copied, UnsavedIsCopied, Unsaved
  <1> QED
    BY <1>1, Invariance, PTL

\* Neither tab nor window closes under a retention worker.
THEOREM RetainedOpen == Spec => []RetainedStaysOpen
  <1>1. Inv => RetainedStaysOpen
    BY DEF Inv, Coherent, RetainedStaysOpen
  <1> QED
    BY <1>1, Invariance, PTL

\* A save replaces only what its document last read or wrote, or what another
\* program put there between check and rename.
THEOREM ReplacesWhatItRead == Spec => SaveReplacesWhatItRead
  <1> DEFINE Checked == \A p \in Paths :
        disk'[p] # disk[p] /\ disk'[p].by \in Docs =>
          \/ disk[p] = NoFile
          \/ ~op.new /\ (disk[p].text = doc[disk'[p].by].base \/ op.raced)
  <1>1. ASSUME Inv, Next PROVE Checked
    <2>1. CASE Replace
      BY <1>1, <2>1, ReplaceGood
    <2>2. CASE ~Replace /\ disk' # disk
      BY <1>1, <2>2, WhoWrites, ForeignGood
    <2>3. CASE disk' = disk
      BY <2>3
    <2> QED
      BY <2>1, <2>2, <2>3
  <1>2. Inv /\ [Next]_vars => [Checked]_vars
    BY <1>1
  <1> QED
    BY <1>2, Invariance, PTL DEF Spec, SaveReplacesWhatItRead

\* The window goes only with every draft settled or given up, through the three
\* close hooks and the workshop's exit in any order.
THEOREM AsksBeforeClosing == Spec => ClosesAfterAsking
  <1>1. Inv /\ [Next]_vars => [ui'.window # ui.window => CloseAgreed]_vars
    BY NextGood DEF Good
  <1>2. [ui'.window # ui.window => CloseAgreed]_vars =>
          [ui'.window # ui.window =>
             /\ ~panels'.metre /\ ~panels'.changed
             /\ panels'.draft => consent'.draft \/ ui.discard]_vars
    BY DEF CloseAgreed
  <1> QED
    BY <1>1, <1>2, Invariance, PTL DEF Spec, ClosesAfterAsking

\* Desk implements KeptWork: whatever prompts, panels, temporary files and races lie
\* underneath, a document counts as saved only when its file was seen to hold its
\* text, and unsaved text leaves the window only into a copy or by agreement.
THEOREM KeepsTheWork == Spec => KeepsWork
  <1>1. Init => KW!Init
    BY InitKept
  <1>2. Inv /\ [Next]_vars => [KW!Next]_(KW!vars)
    <2>1. UNCHANGED vars => UNCHANGED KW!vars
      BY DEF vars, KW!vars
    <2> QED
      BY <2>1, NextGood DEF Good
  <1> QED
    BY <1>1, <1>2, Invariance, PTL DEF Spec, KeepsWork, KW!Spec

=============================================================================
