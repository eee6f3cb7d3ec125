------------------------------ MODULE KeptWork ------------------------------
(***************************************************************************)
(* What the window promises about written text, whatever prompts, panels,   *)
(* temporary files and races lie underneath: a document counts as saved     *)
(* only when its file holds its text, and unsaved text leaves the window    *)
(* only into a recovery copy or with the user's agreement.                  *)
(* Desk.tla implements this module.                                         *)
(***************************************************************************)
CONSTANTS Docs, Paths, Texts, NoText, Other

VARIABLES file,   \* file[p]: the text at path p and who wrote it; NoText when there is none
          work    \* work[d]: what the window holds of document d

vars == <<file, work>>

\* seen is the text of the file when it was last read or written, copy the
\* text of the recovery copy, agreed whether the user gave up this very text.
Work == [open : BOOLEAN, path : Paths \cup {NoText}, text : Texts \cup {NoText},
         seen : Texts \cup {NoText}, copy : Texts \cup {NoText}, agreed : BOOLEAN]

File == [text : Texts \cup {NoText}, by : Docs \cup {Other}]

Unsaved(w) == w.open /\ w.text # w.seen

Init ==
  /\ file \in [Paths -> File]
  /\ work \in [Docs -> Work]
  /\ \A d \in Docs : ~Unsaved(work[d])

-----------------------------------------------------------------------------
(* What may happen to one document *)

\* A tab opens on what a file holds, or on a fresh document.
Opens(w, n) ==
  /\ ~w.open /\ n.open
  /\ n.text = n.seen
  /\ n.path # NoText => n.text = file[n.path].text

\* The user types; the copy may follow, and agreement to lose the old text is void.
Types(w, n) ==
  /\ w.open /\ n.open /\ ~n.agreed
  /\ n.path = w.path /\ n.seen = w.seen

\* A save is accepted only while the file holds the document's text.
IsSaved(w, n) ==
  /\ w.open /\ n.open
  /\ n.text = w.text /\ n.seen = w.text /\ n.path \in Paths
  /\ file[n.path].text = n.text

\* A reload replaces unsaved text only by agreement.
IsReloaded(w, n) ==
  /\ w.open /\ n.open /\ n.path = w.path /\ n.path \in Paths
  /\ Unsaved(w) => n.agreed
  /\ n.text = file[n.path].text /\ n.seen = n.text

\* The text stays; a copy of unsaved text is given up only by agreement.
IsKept(w, n) ==
  /\ w.open /\ n.open
  /\ <<n.path, n.text, n.seen>> = <<w.path, w.text, w.seen>>
  /\ n.copy \in {w.copy, w.text} \/ ~Unsaved(w) \/ n.agreed

\* A tab goes away when it is saved, given up or copied.
Leaves(w, n) ==
  /\ w.open /\ ~n.open
  /\ Unsaved(w) => w.agreed \/ n.agreed \/ w.copy = w.text

DocStep(w, n) ==
  \/ n = w \/ Opens(w, n) \/ Types(w, n) \/ IsSaved(w, n) \/ IsReloaded(w, n)
  \/ IsKept(w, n) \/ Leaves(w, n)

-----------------------------------------------------------------------------
(* What may happen to the files *)

\* Another program does as it likes while the documents stay as they are.
Foreign ==
  /\ work' = work
  /\ \E p \in Paths, x \in Texts \cup {NoText} :
       file' = [file EXCEPT ![p] = [text |-> x, by |-> Other]]

\* A document puts its whole text at its own path, or where there is no file.
Publish(d, p) ==
  /\ work[d].open
  /\ work[d].path = p \/ file[p].text = NoText
  /\ file' = [file EXCEPT ![p] = [text |-> work[d].text, by |-> d]]
  /\ work' = work

Next ==
  \/ Foreign
  \/ \E d \in Docs, p \in Paths : Publish(d, p)
  \/ file' = file /\ \A d \in Docs : DocStep(work[d], work'[d])

Spec == Init /\ [][Next]_vars

=============================================================================
