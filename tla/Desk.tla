-------------------------------- MODULE Desk --------------------------------
(***************************************************************************)
(* One window of the desktop application: the open documents, the guarded   *)
(* write of a document into its file while other programs use the disk, the *)
(* unsaved-changes prompt, and the three hooks a request to close the       *)
(* window passes through (metre draft, theme workshop, workspace).          *)
(*                                                                          *)
(* Every input is handled by one dispatch that ends in after_dispatch.  The *)
(* steps of a write are separate because the disk is shared; the interface  *)
(* waits for them.  The recovery store, its queue and its threads are in    *)
(* Recovery.tla: here a copy is accepted when offered and clearing it may   *)
(* fail.                                                                    *)
(***************************************************************************)
EXTENDS Naturals, FiniteSets

CONSTANTS Docs, Paths, Texts, Handles,
          Blank,         \* the text of a new document
          NoText, Other, \* no text, path or document; the author of a foreign file
          Torn,          \* what a file holds that was put in place before it was flushed
          MaxInputs, MaxForeign, MaxFaults

ASSUME DeskAssumption ==
  /\ Blank \in Texts /\ NoText \notin Texts \cup Paths \cup Docs
  /\ Torn \notin Texts \cup {NoText}
  /\ Other \notin Docs
  /\ \A f \in [Paths -> Handles \cup {0}], g \in [Docs -> Handles \cup {0}] :
       \E h \in Handles : h \notin {f[p] : p \in Paths} \cup {g[d] : d \in Docs}
  /\ MaxInputs \in Nat /\ MaxForeign \in Nat /\ MaxFaults \in Nat

VARIABLES disk,     \* disk[p]: the file at path p
          doc,      \* doc[d]: the document in tab d
          ui,       \* focus, prompt and close state of the window
          panels,   \* metadata draft, metre draft and theme workshop
          op,       \* the write in progress
          consent,  \* history: the text the user agreed to lose
          used      \* counters of the bounds

vars == <<disk, doc, ui, panels, op, consent, used>>

NoFile == [text |-> NoText, handle |-> 0, ro |-> FALSE, by |-> Other]

File == [text : Texts \cup {NoText, Torn}, handle : Handles \cup {0}, ro : BOOLEAN,
         by : Docs \cup {Other}]

\* base and handle are the FileBaseline; dirty is text # saved.
Document == [open : BOOLEAN, path : Paths \cup {NoText}, text : Texts \cup {NoText},
             saved : Texts \cup {NoText}, base : Texts \cup {NoText},
             handle : Handles \cup {0}, ro : BOOLEAN, copy : Texts \cup {NoText}]

Closed == [open |-> FALSE, path |-> NoText, text |-> NoText, saved |-> NoText,
           base |-> NoText, handle |-> 0, ro |-> FALSE, copy |-> NoText]

Prompt == [kind : {"none", "quit", "close", "reload", "metadata"},
           doc : Docs \cup {NoText}]

NoPrompt == [kind |-> "none", doc |-> NoText]

\* retaining is the document being retained, replied whether the worker's
\* answer waits in the channel.
Ui == [focus : Docs \cup {NoText}, pending : Prompt, discard : BOOLEAN,
       closing : BOOLEAN, window : {"open", "gone"},
       retaining : Docs \cup {NoText}, replied : BOOLEAN]

\* The workshop is shown (shop), holds changes, asks what to do with them
\* (asked), and was opened over by a request to close the application (quit).
Panels == [draft : BOOLEAN, metre : BOOLEAN, metreAsks : BOOLEAN,
           shop : BOOLEAN, changed : BOOLEAN, asked : BOOLEAN, quit : BOOLEAN]

\* after says what the handler does once the document is written; rest are the
\* documents Save all has still to write.
Write == [doc : Docs \cup {NoText}, path : Paths \cup {NoText}, new : BOOLEAN,
          stage : {"idle", "check", "stage", "sync", "replace", "observe", "ok", "failed"},
          temp : {"none", "partial", "whole"}, raced : BOOLEAN,
          after : {"none", "close", "stale", "reload", "quit"}, rest : SUBSET Docs]

NoWrite == [doc |-> NoText, path |-> NoText, new |-> FALSE, stage |-> "idle",
            temp |-> "none", raced |-> FALSE, after |-> "none", rest |-> {}]

-----------------------------------------------------------------------------

InUse == {disk[p].handle : p \in Paths} \cup {doc[d].handle : d \in Docs}

\* An open handle keeps its file alive, so a new file never gets its identity.
Fresh == CHOOSE h \in Handles : h \notin InUse

Unsaved(d) == doc[d].open /\ doc[d].text # doc[d].saved

dirty_documents == {d \in Docs : Unsaved(d)}

Opened(p, f) == [open |-> TRUE, path |-> p, text |-> f.text, saved |-> f.text,
                 base |-> f.text, handle |-> f.handle, ro |-> f.ro, copy |-> NoText]

Scratch == [Closed EXCEPT !.open = TRUE, !.text = Blank, !.saved = Blank]

FirstHandle == CHOOSE f \in [Paths -> Handles] : \A p, q \in Paths : p # q => f[p] # f[q]

\* The process starts on a scratch document or on a file.
Init ==
  /\ disk \in [Paths -> File]
  /\ \A p \in Paths : \/ disk[p] = NoFile
                      \/ /\ disk[p].text \in Texts /\ disk[p].by = Other
                         /\ disk[p].handle = FirstHandle[p]
  /\ \E d \in Docs :
       /\ \/ doc = [e \in Docs |-> IF e = d THEN Scratch ELSE Closed]
          \/ \E p \in Paths : /\ disk[p] # NoFile
                              /\ doc = [e \in Docs |-> IF e = d THEN Opened(p, disk[p]) ELSE Closed]
       /\ ui = [focus |-> d, pending |-> NoPrompt, discard |-> FALSE, closing |-> FALSE,
                window |-> "open", retaining |-> NoText, replied |-> FALSE]
  /\ panels = [draft |-> FALSE, metre |-> FALSE, metreAsks |-> FALSE, shop |-> FALSE,
               changed |-> FALSE, asked |-> FALSE, quit |-> FALSE]
  /\ op = NoWrite
  /\ consent = [docs |-> {}, draft |-> FALSE]
  /\ used = [inputs |-> 0, foreign |-> 0, faults |-> 0]

-----------------------------------------------------------------------------
(* A dispatch and what follows it *)

Ready == ui.window = "open" /\ op.stage = "idle" /\ ~ui.closing

\* The workshop replaces the whole view and takes the keyboard.
AtDesk == Ready /\ ~panels.shop /\ used.inputs < MaxInputs

InShop == Ready /\ panels.shop /\ used.inputs < MaxInputs

\* The dispatch was an input; ok says that the recovery store did as it was told.
Counted(n, ok) ==
  /\ ok \/ used.faults < MaxFaults
  /\ used' = [used EXCEPT !.inputs = used.inputs + n,
                          !.faults = IF ok THEN used.faults ELSE used.faults + 1]

Working == used' = [used EXCEPT !.inputs = used.inputs + 1]

\* Mutant: a document that has a copy is not offered again.
sync_recovery_once(docs, ok) ==
  [d \in Docs |->
     CASE docs[d].open /\ docs[d].text # docs[d].saved /\ docs[d].copy = NoText
            -> [docs[d] EXCEPT !.copy = docs[d].text]
       [] docs[d].open /\ docs[d].text = docs[d].saved /\ ok -> [docs[d] EXCEPT !.copy = NoText]
       [] OTHER -> docs[d]]

\* sync_recovery: unsaved text is copied, the copy of a saved document cleared.
sync_recovery(docs, ok) ==
  [d \in Docs |->
     CASE docs[d].open /\ docs[d].text # docs[d].saved -> [docs[d] EXCEPT !.copy = docs[d].text]
       [] docs[d].open /\ docs[d].text = docs[d].saved /\ ok -> [docs[d] EXCEPT !.copy = NoText]
       [] OTHER -> docs[d]]

drain_retention(u) ==
  IF u.replied THEN [u EXCEPT !.retaining = NoText, !.replied = FALSE] ELSE u

\* after_dispatch: the workspace's part is skipped while the workshop is shown.
AfterDispatch(shop, docs, u, ok) ==
  IF shop THEN doc' = docs /\ ui' = u
  ELSE doc' = sync_recovery(docs, ok) /\ ui' = drain_retention(u)

\* A handler that leaves documents docs and window state u.
HandledIn(shop, docs, u) ==
  \E ok \in BOOLEAN : Counted(1, ok) /\ AfterDispatch(shop, docs, u, ok)

Handled(docs, u) == HandledIn(panels.shop, docs, u)

Focused(d) == [ui EXCEPT !.focus = d]

\* Mutant: the document being retained closes too.
AfterCloseAnyway(docs, u, d) ==
  [docs |-> [docs EXCEPT ![d] = Closed],
   ui |-> [u EXCEPT
          !.focus = IF u.focus # d THEN u.focus
                    ELSE LET left == {e \in Docs \ {d} : docs[e].open}
                         IN  IF left = {} THEN NoText ELSE CHOOSE e \in left : TRUE,
          !.pending = IF u.pending.doc = d THEN [u.pending EXCEPT !.doc = NoText] ELSE u.pending]]

\* close_document: refused for the document being retained.
AfterClose(docs, u, d) ==
  IF u.retaining = d THEN [docs |-> docs, ui |-> u]
  ELSE [docs |-> [docs EXCEPT ![d] = Closed],
        ui |-> [u EXCEPT
          !.focus = IF u.focus # d THEN u.focus
                    ELSE LET left == {e \in Docs \ {d} : docs[e].open}
                         IN  IF left = {} THEN NoText ELSE CHOOSE e \in left : TRUE,
          !.pending = IF u.pending.doc = d THEN [u.pending EXCEPT !.doc = NoText] ELSE u.pending]]

\* reload: refused for a document that is read-only, has no path or has lost its file.
Reloaded(docs, d) ==
  LET e == docs[d]
      f == disk[e.path]
  IN  IF e.ro \/ e.path = NoText THEN docs
      ELSE IF f = NoFile THEN docs
      ELSE [docs EXCEPT ![d] = [e EXCEPT !.text = f.text, !.saved = f.text,
                                          !.base = f.text, !.handle = f.handle]]

-----------------------------------------------------------------------------
(* Documents *)

OpenPath(d, p) ==
  /\ AtDesk /\ disk[p] # NoFile
  /\ IF \E e \in Docs : doc[e].open /\ doc[e].path = p
     THEN doc[d].open /\ doc[d].path = p /\ Handled(doc, Focused(d))
     ELSE ~doc[d].open /\ Handled([doc EXCEPT ![d] = Opened(p, disk[p])], Focused(d))
  /\ consent' = [consent EXCEPT !.docs = consent.docs \ {d}]
  /\ UNCHANGED <<disk, panels, op>>

NewDocument(d) ==
  /\ AtDesk /\ ~doc[d].open
  /\ Handled([doc EXCEPT ![d] = Scratch], Focused(d))
  /\ consent' = [consent EXCEPT !.docs = consent.docs \ {d}]
  /\ UNCHANGED <<disk, panels, op>>

Focus(d) ==
  /\ AtDesk /\ doc[d].open /\ d # ui.focus
  /\ Handled(doc, Focused(d))
  /\ UNCHANGED <<disk, panels, op, consent>>

Edit(d, x) ==
  /\ AtDesk /\ d = ui.focus /\ ~doc[d].ro /\ x # doc[d].text
  /\ Handled([doc EXCEPT ![d].text = x], ui)
  /\ consent' = [consent EXCEPT !.docs = consent.docs \ {d}]
  /\ UNCHANGED <<disk, panels, op>>

\* The handler starts a write and waits for it.
Begin(d, p, after) ==
  /\ op' = [NoWrite EXCEPT !.doc = d, !.path = p, !.new = p # doc[d].path,
                           !.stage = "check", !.after = after]
  /\ Working
  /\ UNCHANGED <<disk, doc, panels, consent>>

Save == /\ AtDesk /\ ui.focus # NoText
        /\ Begin(ui.focus, doc[ui.focus].path, "none") /\ UNCHANGED ui

SaveAs(p) == AtDesk /\ ui.focus # NoText /\ Begin(ui.focus, p, "none") /\ UNCHANGED ui

Reload ==
  /\ AtDesk /\ ui.focus # NoText
  /\ IF Unsaved(ui.focus)
     THEN Handled(doc, [ui EXCEPT !.pending = [kind |-> "reload", doc |-> NoText]])
     ELSE Handled(Reloaded(doc, ui.focus), ui)
  /\ UNCHANGED <<disk, panels, op, consent>>

\* request_close_tile
CloseTab(d) ==
  /\ AtDesk /\ doc[d].open
  /\ IF Unsaved(d)
     THEN Handled(doc, [ui EXCEPT !.focus = d, !.pending = [kind |-> "close", doc |-> d]])
     ELSE Handled(AfterClose(doc, ui, d).docs, AfterClose(doc, ui, d).ui)
  /\ UNCHANGED <<disk, panels, op, consent>>

-----------------------------------------------------------------------------
(* save_guarded and save_as, one step per access to the disk *)

Writing(stage) == op.stage = stage

Goes(stage, temp) == op' = [op EXCEPT !.stage = stage, !.temp = temp]

DiskFault == /\ used.faults < MaxFaults
             /\ used' = [used EXCEPT !.faults = used.faults + 1]

\* The file is the one this document last read or wrote.
StillMatches(d, p) == disk[p].text = doc[d].base /\ disk[p].handle = doc[d].handle

\* Mutant: only the presence of the file is looked at.
CheckPresence ==
  LET d == op.doc
  IN  /\ Writing("check")
      /\ IF op.new
         THEN Goes(IF doc[d].ro THEN "failed" ELSE "stage", "none")
         ELSE Goes(CASE doc[d].ro \/ op.path = NoText -> "failed"
                     [] OTHER -> IF disk[op.path].ro THEN "failed"
                          ELSE IF ~Unsaved(d) THEN "ok"
                          ELSE IF disk[op.path] = NoFile THEN "failed"
                          ELSE "stage", "none")
      /\ UNCHANGED <<disk, doc, ui, panels, consent, used>>

\* A write into the document's own file needs an unchanged file; Save As a new path.
Check ==
  LET d == op.doc
  IN  /\ Writing("check")
      /\ IF op.new
         THEN Goes(IF doc[d].ro THEN "failed" ELSE "stage", "none")
         ELSE Goes(CASE doc[d].ro \/ op.path = NoText -> "failed"
                     [] OTHER -> IF disk[op.path].ro THEN "failed"
                          ELSE IF ~Unsaved(d) THEN "ok"
                          ELSE IF disk[op.path] = NoFile \/ ~StillMatches(d, op.path)
                          THEN "failed"
                          ELSE IF doc[d].base = doc[d].text THEN "observe" ELSE "stage", "none")
      /\ UNCHANGED <<disk, doc, ui, panels, consent, used>>

\* Mutant: the temporary is put in place without the flush.
StageOnly == /\ Writing("stage") /\ Goes("replace", "partial")
             /\ UNCHANGED <<disk, doc, ui, panels, consent, used>>

\* The sibling temporary is written, then flushed to the device.
Stage == /\ Writing("stage") /\ Goes("sync", "partial")
         /\ UNCHANGED <<disk, doc, ui, panels, consent, used>>

Sync == /\ Writing("sync") /\ Goes("replace", "whole")
        /\ UNCHANGED <<disk, doc, ui, panels, consent, used>>

Placed(p, d) ==
  [disk EXCEPT ![p] = [text |-> IF op.temp = "whole" THEN doc[d].text ELSE Torn,
                       handle |-> Fresh, ro |-> disk[p].ro, by |-> d]]

\* rename replaces the file; hard_link refuses a path that has one.
Replace ==
  /\ Writing("replace")
  /\ IF op.new /\ disk[op.path] # NoFile
     THEN Goes("failed", "none") /\ disk' = disk
     ELSE disk' = Placed(op.path, op.doc) /\ Goes("observe", "none")
  /\ UNCHANGED <<doc, ui, panels, consent, used>>

\* A failed step removes the temporary and leaves the document as it was.
WriteFails ==
  /\ op.stage \in {"check", "stage", "sync", "replace", "observe"}
  /\ DiskFault /\ Goes("failed", "none")
  /\ UNCHANGED <<disk, doc, ui, panels, consent>>

\* Mutant: the write is accepted without looking at the file again.
ObserveNothing ==
  LET d == op.doc
  IN  /\ Writing("observe")
      /\ doc' = [doc EXCEPT ![d] = [doc[d] EXCEPT !.path = op.path, !.saved = doc[d].text,
                   !.base = doc[d].text, !.handle = disk[op.path].handle]]
      /\ Goes("ok", "none")
      /\ UNCHANGED <<disk, ui, panels, consent, used>>

\* The file is read back; only then is the document clean.
Observe ==
  LET d == op.doc
      f == disk[op.path]
  IN  /\ Writing("observe")
      /\ IF f.text # doc[d].text
         THEN Goes("failed", "none") /\ doc' = doc
         ELSE /\ Goes("ok", "none")
              /\ doc' = [doc EXCEPT ![d] = [doc[d] EXCEPT !.path = op.path, !.saved = f.text,
                           !.base = f.text, !.handle = f.handle]]
      /\ UNCHANGED <<disk, ui, panels, consent, used>>

\* after_successful_document_write: the copy is cleared when the store can.
Cleared(docs, ds, ok) ==
  [d \in Docs |-> IF d \in ds /\ ok THEN [docs[d] EXCEPT !.copy = NoText] ELSE docs[d]]

\* Another program writes, replaces or removes a file.
Foreign(p, x, r) ==
  /\ used.foreign < MaxForeign /\ ui.window = "open"
  /\ \/ /\ x # NoText /\ x # disk[p].text
        /\ \E h \in {disk[p].handle, Fresh} \ {0} :
             disk' = [disk EXCEPT ![p] = [text |-> x, handle |-> h, ro |-> r, by |-> Other]]
     \/ x = NoText /\ disk[p] # NoFile /\ ~r /\ disk' = [disk EXCEPT ![p] = NoFile]
  /\ used' = [used EXCEPT !.foreign = used.foreign + 1]
  /\ op' = [op EXCEPT !.raced = @ \/ (op.path = p /\ op.stage \in {"stage", "sync", "replace"})]
  /\ UNCHANGED <<doc, ui, panels, consent>>

-----------------------------------------------------------------------------
(* What the handler does when its write has returned *)

\* The write returned with good; the copy is cleared and the rest of the handler runs.
Returned(docs, u) ==
  \E ok \in BOOLEAN :
    /\ Counted(0, ok)
    /\ AfterDispatch(FALSE, IF Writing("ok") THEN Cleared(docs, {op.doc}, ok) ELSE docs, u, ok)
    /\ op' = NoWrite

Ended == Writing("ok") \/ Writing("failed")

SaveReturns ==
  /\ Ended /\ op.after \in {"none", "stale"}
  /\ Returned(doc, IF op.after = "stale" /\ Writing("failed")
                   THEN [ui EXCEPT !.pending = [kind |-> "close", doc |-> NoText]] ELSE ui)
  /\ UNCHANGED <<disk, panels, consent>>

SaveThenClose ==
  /\ Ended /\ op.after = "close"
  /\ IF Writing("ok")
     THEN Returned(AfterClose(doc, ui, op.doc).docs, AfterClose(doc, ui, op.doc).ui)
     ELSE Returned(doc, [ui EXCEPT !.pending = [kind |-> "close", doc |-> op.doc]])
  /\ UNCHANGED <<disk, panels, consent>>

SaveThenReload ==
  /\ Ended /\ op.after = "reload"
  /\ IF Writing("ok") THEN Returned(Reloaded(doc, ui.focus), ui)
     ELSE Returned(doc, [ui EXCEPT !.pending = [kind |-> "reload", doc |-> NoText]])
  /\ UNCHANGED <<disk, panels, consent>>

\* Save all goes on with the next document.
SaveNext(d) ==
  /\ Ended /\ op.after = "quit" /\ d \in op.rest
  /\ \E ok \in BOOLEAN :
       /\ Counted(0, ok)
       /\ doc' = IF Writing("ok") THEN Cleared(doc, {op.doc}, ok) ELSE doc
  /\ op' = [NoWrite EXCEPT !.doc = d, !.path = doc[d].path, !.stage = "check",
                           !.after = "quit", !.rest = op.rest \ {d}]
  /\ UNCHANGED <<disk, ui, panels, consent>>

\* With all documents tried and the metadata saved, the window closes or asks again.
SaveAllReturns(kept) ==
  /\ Ended /\ op.after = "quit" /\ op.rest = {}
  /\ kept \in {panels.draft, FALSE}
  /\ panels' = [panels EXCEPT !.draft = kept]
  /\ Returned(doc, IF dirty_documents = {} /\ ~kept THEN [ui EXCEPT !.closing = TRUE]
                   ELSE [ui EXCEPT !.pending = [kind |-> "quit", doc |-> NoText]])
  /\ UNCHANGED <<disk, consent>>

-----------------------------------------------------------------------------
(* The prompt *)

Asks(kind) == AtDesk /\ ui.pending.kind = kind

Answered == [ui EXCEPT !.pending = NoPrompt]

\* Save all: scratch documents are skipped and stay listed.
ConfirmSaveQuit ==
  /\ Asks("quit")
  /\ op' = [NoWrite EXCEPT !.stage = "failed", !.after = "quit",
              !.rest = {d \in dirty_documents : doc[d].path # NoText \/ doc[d].ro}]
  /\ ui' = Answered /\ Working
  /\ UNCHANGED <<disk, doc, panels, consent>>

\* save_for_pending: a scratch document is saved under the path in the field,
\* and nothing happens while that is empty.
SaveForPending(d, p, after) ==
  /\ p = doc[d].path \/ doc[d].path = NoText
  /\ p # NoText
  /\ Begin(d, p, after)

ConfirmSaveClose(p) ==
  /\ Asks("close")
  /\ IF ui.pending.doc # NoText
     THEN /\ SaveForPending(ui.pending.doc, p, "close")
          /\ ui' = [Answered EXCEPT !.focus = ui.pending.doc]
     ELSE ui.focus # NoText /\ SaveForPending(ui.focus, p, "stale") /\ ui' = Answered

ConfirmSaveReload(p) ==
  /\ Asks("reload") /\ ui.focus # NoText
  /\ SaveForPending(ui.focus, p, "reload") /\ ui' = Answered

ConfirmSaveMetadata ==
  /\ Asks("metadata")
  /\ panels' = [panels EXCEPT !.draft = FALSE]
  /\ Handled(doc, Answered)
  /\ UNCHANGED <<disk, op, consent>>

\* Discard all: every copy is cleared first; one that stays brings the prompt back.
ConfirmDiscardQuit(failed) ==
  LET docs == Cleared(doc, dirty_documents \ failed, TRUE)
      left == {d \in Docs : docs[d].open /\ docs[d].copy # NoText}
  IN  /\ Asks("quit") /\ failed \subseteq {d \in dirty_documents : doc[d].copy # NoText}
      /\ Counted(1, failed = {})
      /\ AfterDispatch(FALSE, docs, IF left = {} THEN [Answered EXCEPT !.discard = TRUE, !.closing = TRUE]
                             ELSE ui, failed = {})
      /\ consent' = [docs |-> consent.docs \cup dirty_documents, draft |-> TRUE]
      /\ UNCHANGED <<disk, panels, op>>

\* Mutant: a prompt whose tab is gone still counts as an answer for it.
ConfirmDiscardGone ==
  LET d == ui.pending.doc
  IN  /\ Asks("close")
      /\ IF d = NoText THEN Handled(doc, Answered)
         ELSE Handled(AfterClose(doc, Answered, d).docs, AfterClose(doc, Answered, d).ui)
      /\ consent' = [consent EXCEPT !.docs = consent.docs \cup {d}]
      /\ UNCHANGED <<disk, panels, op>>

ConfirmDiscardClose ==
  LET d == ui.pending.doc
  IN  /\ Asks("close")
      /\ IF d = NoText THEN Handled(doc, Answered)
         ELSE Handled(AfterClose(doc, Answered, d).docs, AfterClose(doc, Answered, d).ui)
      /\ consent' = [consent EXCEPT !.docs = consent.docs \cup ({d} \ {NoText})]
      /\ UNCHANGED <<disk, panels, op>>

ConfirmDiscardReload ==
  /\ Asks("reload") /\ ui.focus # NoText
  /\ Handled(Reloaded(doc, ui.focus), Answered)
  /\ consent' = [consent EXCEPT !.docs = consent.docs \cup {ui.focus}]
  /\ UNCHANGED <<disk, panels, op>>

ConfirmDiscardMetadata ==
  /\ Asks("metadata")
  /\ panels' = [panels EXCEPT !.draft = FALSE]
  /\ Handled(doc, Answered)
  /\ consent' = [consent EXCEPT !.draft = TRUE]
  /\ UNCHANGED <<disk, op>>

\* cancel_pending, and review_pending, which also shows the first unsaved tab.
CancelPending ==
  /\ AtDesk /\ ui.pending # NoPrompt
  /\ \E d \in {ui.focus} \cup IF ui.pending.kind = "quit" THEN dirty_documents ELSE {} :
       Handled(doc, [Answered EXCEPT !.focus = d])
  /\ UNCHANGED <<disk, panels, op, consent>>

-----------------------------------------------------------------------------
(* A request to close the window *)

\* Mutant of WorkspaceClose: the metadata draft is not looked at.
WorkspaceCloseNoDraft(u, draft, flushed) ==
  IF u.retaining # NoText THEN [u EXCEPT !.discard = FALSE]
  ELSE IF u.discard THEN [u EXCEPT !.discard = FALSE, !.window = "gone"]
  ELSE IF dirty_documents # {}
  THEN [u EXCEPT !.pending = [kind |-> "quit", doc |-> NoText]]
  ELSE IF flushed THEN [u EXCEPT !.window = "gone"]
  ELSE u

\* The workspace's close_request on window state u.
WorkspaceClose(u, draft, flushed) ==
  IF u.retaining # NoText THEN [u EXCEPT !.discard = FALSE]
  ELSE IF u.discard THEN [u EXCEPT !.discard = FALSE, !.window = "gone"]
  ELSE IF dirty_documents # {} \/ draft
  THEN [u EXCEPT !.pending = [kind |-> "quit", doc |-> NoText]]
  ELSE IF flushed THEN [u EXCEPT !.window = "gone"]
  ELSE u

\* The hooks in order: metre draft, workshop, workspace.
CloseHook(ok) ==
  LET u == [ui EXCEPT !.closing = FALSE]
  IN  /\ IF panels.metre
         THEN panels' = [panels EXCEPT !.metreAsks = TRUE] /\ ui' = u
         ELSE IF panels.shop /\ panels.changed
         THEN panels' = [panels EXCEPT !.quit = TRUE, !.asked = TRUE] /\ ui' = u
         ELSE /\ panels' = [panels EXCEPT !.shop = FALSE, !.asked = FALSE, !.quit = FALSE]
              /\ ui' = WorkspaceClose(u, panels.draft, ok)
      /\ UNCHANGED <<disk, doc, op, consent>>

\* The title bar, or the window manager.
NativeClose == /\ Ready /\ used.inputs < MaxInputs
               /\ \E ok \in BOOLEAN : Counted(1, ok) /\ CloseHook(ok)

\* The host carries out window.close() before the next input.
CommandClose == /\ ui.window = "open" /\ op.stage = "idle" /\ ui.closing
                /\ \E ok \in BOOLEAN : Counted(0, ok) /\ CloseHook(ok)

-----------------------------------------------------------------------------
(* Panels: metadata and metre drafts, the workshop *)

SetPanels(p) == panels' = p /\ UNCHANGED <<disk, op>>

EditMetadata ==
  /\ AtDesk /\ ~panels.draft
  /\ SetPanels([panels EXCEPT !.draft = TRUE]) /\ Handled(doc, ui)
  /\ consent' = [consent EXCEPT !.draft = FALSE]

SaveMetadata ==
  /\ AtDesk /\ panels.draft
  /\ SetPanels([panels EXCEPT !.draft = FALSE]) /\ Handled(doc, ui)
  /\ UNCHANGED consent

CloseMetadata ==
  /\ AtDesk /\ panels.draft
  /\ SetPanels(panels) /\ Handled(doc, [ui EXCEPT !.pending = [kind |-> "metadata", doc |-> NoText]])
  /\ UNCHANGED consent

EditMetre ==
  /\ AtDesk /\ ~panels.metre
  /\ SetPanels([panels EXCEPT !.metre = TRUE]) /\ Handled(doc, ui)
  /\ UNCHANGED consent

CollectMetre ==
  /\ AtDesk /\ panels.metre
  /\ SetPanels([panels EXCEPT !.metre = FALSE]) /\ Handled(doc, ui)
  /\ UNCHANGED consent

KeepMetre ==
  /\ Ready /\ used.inputs < MaxInputs /\ panels.metreAsks
  /\ SetPanels([panels EXCEPT !.metreAsks = FALSE]) /\ Handled(doc, ui)
  /\ UNCHANGED consent

DiscardMetreAndClose ==
  /\ Ready /\ used.inputs < MaxInputs /\ panels.metreAsks
  /\ SetPanels([panels EXCEPT !.metre = FALSE, !.metreAsks = FALSE])
  /\ Handled(doc, [ui EXCEPT !.closing = TRUE])
  /\ UNCHANGED consent

OpenWorkshop ==
  /\ AtDesk
  /\ SetPanels([panels EXCEPT !.shop = TRUE, !.asked = FALSE, !.quit = FALSE])
  /\ HandledIn(panels'.shop, doc, ui) /\ UNCHANGED consent

\* A dispatch with no question open forgets the request to close.
EditTheme(changed) ==
  /\ InShop /\ changed # panels.changed
  /\ SetPanels([panels EXCEPT !.changed = changed, !.quit = panels.quit /\ panels.asked])
  /\ HandledIn(panels'.shop, doc, ui) /\ UNCHANGED consent

BackToKnot ==
  /\ InShop
  /\ SetPanels([panels EXCEPT !.quit = FALSE, !.shop = panels.changed, !.asked = panels.changed])
  /\ HandledIn(panels'.shop, doc, ui) /\ UNCHANGED consent

StayInWorkshop ==
  /\ InShop /\ panels.asked
  /\ SetPanels([panels EXCEPT !.asked = FALSE, !.quit = FALSE])
  /\ HandledIn(panels'.shop, doc, ui) /\ UNCHANGED consent

\* exit_requested: the changes go; a waiting request to close goes on to the workspace.
LeaveWorkshop(ok) ==
  /\ InShop /\ panels.asked
  /\ SetPanels([panels EXCEPT !.shop = FALSE, !.changed = FALSE, !.asked = FALSE, !.quit = FALSE])
  /\ Counted(1, ok)
  /\ AfterDispatch(FALSE, doc, IF panels.quit THEN WorkspaceClose(ui, panels.draft, ok) ELSE ui, ok)
  /\ UNCHANGED consent

-----------------------------------------------------------------------------
(* Retention *)

\* retain_reviewed: one worker at a time, on a saved document.
Retain ==
  /\ AtDesk /\ ui.focus # NoText /\ ui.retaining = NoText
  /\ doc[ui.focus].path # NoText /\ ~Unsaved(ui.focus)
  /\ Handled(doc, [ui EXCEPT !.retaining = ui.focus])
  /\ UNCHANGED <<disk, panels, op, consent>>

\* The worker answers, or dies and the channel closes.
WorkerReplies ==
  /\ ui.window = "open" /\ ui.retaining # NoText /\ ~ui.replied
  /\ ui' = [ui EXCEPT !.replied = TRUE]
  /\ UNCHANGED <<disk, doc, panels, op, consent, used>>

AfterWake ==
  /\ ui.window = "open" /\ op.stage = "idle" /\ ui.replied
  /\ ui' = drain_retention(ui)
  /\ UNCHANGED <<disk, doc, panels, op, consent, used>>

-----------------------------------------------------------------------------

DocumentStep ==
  \/ \E d \in Docs, p \in Paths : OpenPath(d, p)
  \/ \E d \in Docs : NewDocument(d) \/ Focus(d) \/ CloseTab(d)
  \/ \E d \in Docs, x \in Texts : Edit(d, x)
  \/ Save \/ Reload \/ \E p \in Paths : SaveAs(p)

WriteStep ==
  \/ Check \/ Stage \/ Sync \/ Replace \/ Observe \/ WriteFails
  \/ SaveReturns \/ SaveThenClose \/ SaveThenReload
  \/ \E d \in Docs : SaveNext(d)
  \/ \E kept \in BOOLEAN : SaveAllReturns(kept)

PromptStep ==
  \/ ConfirmSaveQuit \/ ConfirmSaveMetadata \/ CancelPending
  \/ \E p \in Paths : ConfirmSaveClose(p) \/ ConfirmSaveReload(p)
  \/ \E failed \in SUBSET Docs : ConfirmDiscardQuit(failed)
  \/ ConfirmDiscardClose \/ ConfirmDiscardReload \/ ConfirmDiscardMetadata

PanelStep ==
  \/ EditMetadata \/ SaveMetadata \/ CloseMetadata
  \/ EditMetre \/ CollectMetre \/ KeepMetre \/ DiscardMetreAndClose
  \/ OpenWorkshop \/ BackToKnot \/ StayInWorkshop
  \/ \E changed \in BOOLEAN : EditTheme(changed)
  \/ \E ok \in BOOLEAN : LeaveWorkshop(ok)

Next ==
  \/ DocumentStep \/ WriteStep \/ PromptStep \/ PanelStep
  \/ NativeClose \/ CommandClose
  \/ Retain \/ WorkerReplies \/ AfterWake
  \/ \E p \in Paths, x \in Texts \cup {NoText}, r \in BOOLEAN : Foreign(p, x, r)

Spec == Init /\ [][Next]_vars

-----------------------------------------------------------------------------
(* Properties *)

\* The state of the window has its type.
TypeOK ==
  /\ disk \in [Paths -> File] /\ doc \in [Docs -> Document]
  /\ ui \in Ui /\ panels \in Panels /\ op \in Write
  /\ consent \in [docs : SUBSET Docs, draft : BOOLEAN]

\* Whatever step of a write the machine stops after, no path holds a file whose
\* bytes were not flushed: replace_bytes_atomically and create_bytes_new.
FilesAreWhole == \A p \in Paths : disk[p].text # Torn

\* Unsaved text is always in the document's recovery copy, also while a save is
\* under way and after Discard all failed or was overtaken: sync_recovery at the
\* end of every dispatch against every path that clears copies.
UnsavedIsCopied == \A d \in Docs : Unsaved(d) => doc[d].copy = doc[d].text

\* Neither a tab nor the window closes under a retention worker: close_document
\* and close_request, through prompts, save-then-close and the workshop.
RetainedStaysOpen ==
  ui.retaining # NoText => ui.window = "open" /\ doc[ui.retaining].open

\* A save replaces a file only if the file held what the document had last read
\* or written, unless another program wrote between the check and the rename;
\* Save As never replaces: save_guarded, save_as.
SaveReplacesWhatItRead ==
  [][\A p \in Paths :
       disk'[p] # disk[p] /\ disk'[p].by \in Docs =>
         \/ disk[p] = NoFile
         \/ ~op.new /\ (disk[p].text = doc[disk'[p].by].base \/ op.raced)]_vars

\* The window as KeptWork sees it: prompts, panels and the steps of a write are hidden.
KW == INSTANCE KeptWork WITH
  file <- [p \in Paths |-> [text |-> disk[p].text, by |-> disk[p].by]],
  work <- [d \in Docs |->
    [open |-> doc[d].open /\ ui.window = "open", path |-> doc[d].path, text |-> doc[d].text,
     seen |-> doc[d].saved, copy |-> doc[d].copy, agreed |-> d \in consent.docs]]

\* A document is clean only when its file was seen to hold its text, and unsaved
\* text leaves the window only into a copy or by the user's agreement, over all
\* saves, reloads, tab closes and the three close hooks: Desk implements KeptWork.
KeepsWork == KW!Spec

\* The window goes only when metre draft and theme changes are settled and the
\* metadata draft was saved or the user agreed to lose it, at this request or at
\* an earlier one whose Discard all the hooks before the workspace kept from
\* closing: three hooks, three prompts and save_all in any order.
ClosesAfterAsking ==
  [][ui'.window # ui.window =>
       /\ ~panels'.metre /\ ~panels'.changed
       /\ panels'.draft => consent'.draft \/ ui.discard]_vars

=============================================================================
