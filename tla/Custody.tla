------------------------------- MODULE Custody -------------------------------
(***************************************************************************)
(* What one member of a Commons space keeps about the signed history beside *)
(* the history itself: the projection checkpoint, the group keyring with    *)
(* the receipt of the epochs forgotten, and the marker saying that both are *)
(* sealed.  It is written by saving a checkpoint, by the membership         *)
(* handoff, by epoch pruning, and by the repair that replaces a file of an  *)
(* older release with a clean one, while operations keep arriving and the   *)
(* machine may stop at any point.                                           *)
(*                                                                          *)
(* Abstracted: an operation is its place in a log, the epoch it is sealed   *)
(* under, whether it is capture material, and what its author had seen; a   *)
(* checkpoint is a function of the operations it was built from.  Custody   *)
(* is released and the two authority revisions agree throughout.            *)
(***************************************************************************)
EXTENDS Naturals, Sequences, FiniteSets

CONSTANTS Logs,                \* one log per member
          NoFile, Torn, None,  \* no such file, an incomplete one, no such record
          KeepNewest,          \* epochs no proposal forgets
          MaxOps, MaxEpochs, MaxStops, MaxSaves

ASSUME CustodyAssumption ==
  /\ KeepNewest \in Nat \ {0} /\ MaxOps \in Nat \ {0} /\ MaxEpochs \in Nat \ {0}
  /\ MaxStops \in Nat /\ MaxSaves \in Nat
  /\ NoFile # Torn

VARIABLES written, \* written[l]: the operations of log l that have reached this member
          disk,    \* the file at the store's path, and what a power cut may bring back
          host,    \* the process that opens the file: its handle, or the repair under way
          review,  \* a pruning proposal being computed or reviewed
          used     \* counters of the bounds

vars == <<written, disk, host, review, used>>

Epochs == 1..MaxEpochs

Frontier == [Logs -> 0..MaxOps]

Nothing == [l \in Logs |-> 0]

\* seen is the author's causal past: what parents and backlink close over.
Operation == [epoch : Epochs, capture : BOOLEAN, seen : Frontier]

Places(upto) == {p \in Logs \X (1..MaxOps) : p[2] <= upto[p[1]]}

Op(place) == written[place[1]][place[2]]

\* What a caller may bring: the epochs it was given and has not forgotten.
Keyrings == SUBSET Epochs \ {{}}

-----------------------------------------------------------------------------
(* History, checkpoints and proposals *)

\* causal_projection: the retained operations whose whole past is retained.
Closed(upto) == {p \in Places(upto) : \A l \in Logs : Op(p).seen[l] <= upto[l]}

EpochsOf(places) == {Op(p).epoch : p \in places}

CaptureMaterial(places) == \E p \in places : Op(p).capture

\* build_checkpoint_with_cipher decodes every retained body, pending ones too.
Buildable(upto, keys) == EpochsOf(Places(upto)) \subseteq keys

Build(upto) == [heads |-> upto, pending |-> Places(upto) \ Closed(upto), snapshot |-> TRUE]

\* tail_receipt: what is newer than the checkpoint's heads.
TailOf(checkpoint, upto) == Places(upto) \ Places(checkpoint.heads)

\* Mutant of Holds: what is still pending is not held.
PendingNotHeld(checkpoint, records, upto) ==
  IF checkpoint = None THEN EpochsOf(Places(records))
  ELSE EpochsOf((IF CaptureMaterial(Closed(records)) THEN Closed(records) ELSE {})
                \cup TailOf(checkpoint, upto))

Holds(checkpoint, records, upto) ==
  IF checkpoint = None THEN EpochsOf(Places(records))
  ELSE EpochsOf((IF CaptureMaterial(Closed(records)) THEN Closed(records) ELSE {})
                \cup TailOf(checkpoint, upto) \cup checkpoint.pending)

\* propose_epoch_pruning: an epoch goes that nothing holds and that is not
\* among the newest.
Forgettable(keys, held) == {e \in keys \ held : Cardinality({f \in keys : f > e}) >= KeepNewest}

\* records were read first; what the file holds now may be newer.
Proposal(file, records, keys, asked) ==
  LET checkpoint == file.checkpoint.value
      held == Holds(checkpoint, records, file.held) \cup asked
  IN  [keys |-> keys, held |-> held \cap keys, forget |-> Forgettable(keys, held),
       checkpoint |-> checkpoint,
       ready |-> checkpoint # None /\ checkpoint = Build(file.held)]

\* The proposal is an error when the tail or the pending set names an
\* operation that was not read, or when the checkpoint cannot be rebuilt.
Proposable(file, records, keys) ==
  LET checkpoint == file.checkpoint.value
  IN  checkpoint # None =>
        /\ TailOf(checkpoint, file.held) \cup checkpoint.pending \subseteq Places(records)
        /\ Buildable(file.held, keys)

-----------------------------------------------------------------------------
(* The file *)

Record(value, sealed) == [value |-> value, sealed |-> sealed]

NoRecord == Record(None, TRUE)

\* erased is the receipt: the epochs the last pruning forgot.
Empty == [held |-> Nothing, marker |-> FALSE, checkpoint |-> NoRecord,
          keyring |-> NoRecord, erased |-> {}]

Checkpoints == [heads : Frontier, pending : SUBSET (Logs \X (1..MaxOps)), snapshot : BOOLEAN]

File == [held : Frontier, marker : BOOLEAN,
         checkpoint : [value : Checkpoints \cup {None}, sealed : BOOLEAN],
         keyring : [value : (SUBSET Epochs) \cup {None}, sealed : BOOLEAN],
         erased : SUBSET Epochs]

\* What stands for no file and no record is neither.
ASSUME SortsAssumption ==
  /\ None \notin Checkpoints /\ \A keys \in SUBSET Epochs : keys # None
  /\ NoFile \notin File /\ Torn \notin File

Disk == [file : File \cup {NoFile, Torn}, before : File \cup {NoFile}, flushed : BOOLEAN]

\* require_clean_storage
Clean(file, fresh) == file.marker \/ fresh

\* Mutant of Matches: the supplied keyring is believed.
AnyKeys(file, keys) == TRUE

\* validate_keyring_matches
Matches(file, keys) == file.keyring.value \in {None, keys}

\* One atomic write of the checkpoint, the marker and the keyring.
Saved(file, keys) ==
  [file EXCEPT !.checkpoint = Record(Build(file.held), TRUE), !.marker = TRUE,
               !.keyring = Record(keys, TRUE)]

\* The process: no handle, a handle, or a step of the repair.  next is the
\* content of the staged file, good says whether it was copied faithfully and
\* flushed whether it has reached the medium.
Host == [stage : {"down", "open", "created", "prepared", "copied", "verified", "synced",
                  "replaced"},
         fresh : BOOLEAN, keys : SUBSET Epochs, next : File \cup {NoFile},
         good : BOOLEAN, flushed : BOOLEAN]

Down == [stage |-> "down", fresh |-> FALSE, keys |-> {}, next |-> NoFile, good |-> FALSE,
         flushed |-> FALSE]

\* Mutant of Opened: the handle keeps the repair's staged content.
StillStaged(fresh) == [host EXCEPT !.stage = "open", !.fresh = fresh]

Opened(fresh) == [Down EXCEPT !.stage = "open", !.fresh = fresh]

Proposals == [keys : SUBSET Epochs, held : SUBSET Epochs, forget : SUBSET Epochs,
              checkpoint : Checkpoints \cup {None}, ready : BOOLEAN]

Review == [stage : {"none", "reading", "done"}, keys : SUBSET Epochs, asked : SUBSET Epochs,
           records : Frontier, proposal : Proposals \cup {None}]

NoReview == [stage |-> "none", keys |-> {}, asked |-> {}, records |-> Nothing,
             proposal |-> None]

IsOpen == host.stage = "open"

Write(file) == disk' = [disk EXCEPT !.file = file]

-----------------------------------------------------------------------------
(* Operations of the store *)

\* What the author of log l may have signed next: its past is closed under the past
\* of the operations known here.
Signed(l) ==
  {op \in Operation :
     /\ op.seen[l] = Len(written[l])
     /\ \A m \in Logs, n \in 1..MaxOps : n <= Len(written[m]) =>
          /\ n <= op.seen[m] => \A k \in Logs : Op(<<m, n>>).seen[k] <= op.seen[k]
          /\ Op(<<m, n>>).seen[l] > Len(written[l]) =>
               \A k \in Logs : op.seen[k] <= Op(<<m, n>>).seen[k]}

\* accept_under_gate, for an operation received or just authored: each log
\* without a gap; nothing is decoded.
Accept(l) ==
  /\ IsOpen /\ disk.file.held[l] < MaxOps
  /\ IF disk.file.held[l] < Len(written[l]) THEN UNCHANGED written
     ELSE \E op \in Signed(l) : written' = [written EXCEPT ![l] = Append(@, op)]
  /\ Write([disk.file EXCEPT !.held[l] = @ + 1])
  /\ UNCHANGED <<host, review, used>>

\* save_communal_checkpoint
Save(keys) ==
  /\ IsOpen /\ used.saves < MaxSaves
  /\ Clean(disk.file, host.fresh) /\ Buildable(disk.file.held, keys)
  /\ Matches(disk.file, keys)
  /\ Write(Saved(disk.file, keys))
  /\ used' = [used EXCEPT !.saves = @ + 1]
  /\ UNCHANGED <<written, host, review>>

\* persist_communal_keyring: the explicit membership handoff.
Handoff(keys) ==
  /\ IsOpen /\ used.handoffs < MaxSaves
  /\ Clean(disk.file, host.fresh)
  /\ Write([disk.file EXCEPT !.marker = TRUE, !.keyring = Record(keys, TRUE)])
  /\ used' = [used EXCEPT !.handoffs = @ + 1]
  /\ UNCHANGED <<written, host, review>>

-----------------------------------------------------------------------------
(* Epoch pruning *)

\* communal_epoch_pruning_proposal is not under the gate: the operations are
\* read first, the checkpoint and its tail later.
StartProposal(keys, asked) ==
  /\ IsOpen /\ review.stage = "none"
  /\ Clean(disk.file, host.fresh) /\ Matches(disk.file, keys)
  /\ review' = [NoReview EXCEPT !.stage = "reading", !.keys = keys, !.asked = asked,
                                !.records = disk.file.held]
  /\ UNCHANGED <<written, disk, host, used>>

FinishProposal ==
  /\ IsOpen /\ review.stage = "reading"
  /\ review' = IF Proposable(disk.file, review.records, review.keys)
               THEN [review EXCEPT !.stage = "done",
                       !.proposal = Proposal(disk.file, review.records, review.keys, review.asked)]
               ELSE NoReview
  /\ UNCHANGED <<written, disk, host, used>>

\* Mutant of Confirmed: the review is not repeated.
AsReviewed(file, keys, asked, reviewed) ==
  Clean(file, host.fresh) /\ Matches(file, keys) /\ reviewed.ready

\* What execute_communal_epoch_pruning demands of the reviewed proposal: it is
\* computed again, under the gate, from what the file holds now.
Confirmed(file, keys, asked, reviewed) ==
  /\ Clean(file, host.fresh) /\ Matches(file, keys)
  /\ Proposable(file, file.held, keys)
  /\ Proposal(file, file.held, keys, asked) = reviewed
  /\ reviewed.ready

\* Keyring, marker and receipt in one atomic write.
Execute(keys, asked) ==
  /\ IsOpen /\ review.stage = "done"
  /\ Confirmed(disk.file, keys, asked, review.proposal)
  /\ Write([disk.file EXCEPT !.keyring = Record(keys \ review.proposal.forget, TRUE),
                             !.marker = TRUE, !.erased = review.proposal.forget])
  /\ review' = NoReview
  /\ UNCHANGED <<written, host, used>>

\* The proposal is stale, blocked or not wanted any more.
DropReview ==
  /\ review.stage = "done" /\ review' = NoReview
  /\ UNCHANGED <<written, disk, host, used>>

-----------------------------------------------------------------------------
(* Opening and repair *)

\* open_commons, without repair; a file that is not there is created.
OpenCommons ==
  /\ host.stage = "down" /\ disk.file # Torn
  /\ IF disk.file = NoFile THEN Write(Empty) ELSE UNCHANGED disk
  /\ host' = Opened(disk.file = NoFile)
  /\ UNCHANGED <<written, review, used>>

\* open_with_checkpoint_repair of a file that is not there.
CreateStore(keys) ==
  /\ host.stage = "down" /\ disk.file = NoFile
  /\ Write(Empty)
  /\ host' = [Down EXCEPT !.stage = "created", !.fresh = TRUE, !.keys = keys]
  /\ UNCHANGED <<written, review, used>>

FirstCheckpoint ==
  /\ host.stage = "created"
  /\ Write(Saved(disk.file, host.keys))
  /\ host' = Opened(TRUE)
  /\ UNCHANGED <<written, review, used>>

\* The marker is authentic and every protected record is sealed.
Current(file) == file.marker /\ file.checkpoint.sealed /\ file.keyring.sealed

\* Mutant of Regenerable: the old checkpoint's heads are not looked for.
HeadsUnchecked(file, keys) ==
  Matches(file, keys) /\ Buildable(file.held, keys) /\ Build(file.held).pending = {}

\* What a file of an older release must satisfy to be rewritten.
Regenerable(file, keys) ==
  /\ Matches(file, keys)
  /\ file.checkpoint.value # None =>
       \A l \in Logs : file.checkpoint.value.heads[l] <= file.held[l]
  /\ Buildable(file.held, keys) /\ Build(file.held).pending = {}

\* Mutant of Regenerated: the keyring is carried over as it was.
KeyringCarriedOver(file, keys) == [Saved(file, keys) EXCEPT !.keyring = file.keyring]

\* The protected records of the new file; everything else is copied as it is.
Regenerated(file, keys) == Saved(file, keys)

\* open_with_checkpoint_repair of a file that is there: current, or rewritten.
Prepare(keys) ==
  /\ host.stage = "down" /\ disk.file \notin {NoFile, Torn}
  /\ IF Current(disk.file) THEN host' = Opened(FALSE)
     ELSE /\ Regenerable(disk.file, keys)
          /\ host' = [Down EXCEPT !.stage = "prepared", !.keys = keys,
                                  !.next = Regenerated(disk.file, keys)]
  /\ UNCHANGED <<written, disk, review, used>>

\* The entries are copied into the stage file, not always well.
Copy ==
  /\ host.stage = "prepared"
  /\ \E good \in BOOLEAN :
       /\ ~good => used.stops < MaxStops
       /\ host' = [host EXCEPT !.stage = "copied", !.good = good]
       /\ used' = [used EXCEPT !.stops = IF good THEN @ ELSE @ + 1]
  /\ UNCHANGED <<written, disk, review>>

\* The stage file is read back and compared.
Verify ==
  /\ host.stage = "copied" /\ host.good
  /\ host' = [host EXCEPT !.stage = "verified"]
  /\ UNCHANGED <<written, disk, review, used>>

SyncStage ==
  /\ host.stage = "verified" /\ host' = [host EXCEPT !.stage = "synced", !.flushed = TRUE]
  /\ UNCHANGED <<written, disk, review, used>>

\* The rename replaces the file; until the directory is synced a power cut may
\* undo it.
Replace ==
  /\ host.stage = "synced"
  /\ disk' = [file |-> IF host.good THEN host.next ELSE Torn, before |-> disk.file,
              flushed |-> host.flushed]
  /\ host' = [host EXCEPT !.stage = "replaced"]
  /\ UNCHANGED <<written, review, used>>

\* The new name reaches the medium on its own, whether or not it was asked to.
Settle ==
  /\ disk.before # NoFile /\ disk' = [disk EXCEPT !.before = NoFile]
  /\ UNCHANGED <<written, host, review, used>>

SyncDirectory ==
  /\ host.stage = "replaced"
  /\ disk' = [disk EXCEPT !.before = NoFile]
  /\ host' = Opened(FALSE)
  /\ UNCHANGED <<written, review, used>>

\* An error in the repair: the stage file is removed unless it is the file now.
RepairFails ==
  /\ host.stage \notin {"down", "open"} /\ used.stops < MaxStops
  /\ host' = Down /\ used' = [used EXCEPT !.stops = @ + 1]
  /\ UNCHANGED <<written, disk, review>>

\* The process ends, with or without the power.
Stop(power) ==
  /\ host.stage # "down" /\ used.stops < MaxStops
  /\ host' = Down /\ review' = NoReview
  /\ used' = [used EXCEPT !.stops = @ + 1]
  /\ \/ ~power /\ UNCHANGED disk
     \/ /\ power
        /\ \E file \in {IF disk.flushed THEN disk.file ELSE Torn} \cup ({disk.before} \ {NoFile}) :
             disk' = [file |-> file, before |-> NoFile, flushed |-> TRUE]
  /\ UNCHANGED written

-----------------------------------------------------------------------------

\* Older releases set no marker and kept their records in plain text.
OlderFile(held, checkpoint, keyring) ==
  [Empty EXCEPT !.held = held, !.checkpoint = Record(checkpoint, checkpoint = None),
                !.keyring = Record(keyring, keyring = None)]

HeldByNow == {h \in Frontier : \A l \in Logs : h[l] <= Len(written[l])}

\* The checkpoint was perhaps made by a process that held operations this copy
\* of the file does not.
Older ==
  {OlderFile(held, checkpoint, keyring) :
     held \in HeldByNow, keyring \in {None, {1}},
     checkpoint \in {None} \cup {[Build(h) EXCEPT !.snapshot = FALSE] : h \in HeldByNow}}

Init ==
  /\ written \in [Logs -> {<<>>, <<[epoch |-> 1, capture |-> FALSE, seen |-> Nothing]>>}]
  /\ \E file \in Older \cup {NoFile} :
       /\ disk = [file |-> file, before |-> NoFile, flushed |-> TRUE]
       /\ file = NoFile => \A l \in Logs : written[l] = <<>>
  /\ host = Down /\ review = NoReview
  /\ used = [stops |-> 0, saves |-> 0, handoffs |-> 0]

HistoryStep == \E l \in Logs : Accept(l)

CustodyStep == \E keys \in Keyrings : Save(keys) \/ Handoff(keys)

PruningStep ==
  \/ \E keys \in Keyrings, asked \in {{}, {1}} : StartProposal(keys, asked) \/ Execute(keys, asked)
  \/ FinishProposal \/ DropReview

OpeningStep ==
  \/ OpenCommons \/ \E keys \in Keyrings : CreateStore(keys) \/ Prepare(keys)
  \/ FirstCheckpoint \/ Copy \/ Verify \/ SyncStage \/ Replace \/ SyncDirectory
  \/ RepairFails \/ Settle \/ \E power \in BOOLEAN : Stop(power)

Next == HistoryStep \/ CustodyStep \/ PruningStep \/ OpeningStep

Spec == Init /\ [][Next]_vars

-----------------------------------------------------------------------------
(* Properties *)

\* The variables stay in their types, and only a repair under way holds a
\* staged file.
TypeOK ==
  /\ written \in [Logs -> Seq(Operation)] /\ \A l \in Logs : Len(written[l]) <= MaxOps
  /\ disk \in Disk /\ host \in Host /\ review \in Review
  /\ (host.next = NoFile) <=> host.stage \in {"down", "open", "created"}
  /\ used \in [stops : 0..MaxStops, saves : 0..MaxSaves, handoffs : 0..MaxSaves]

\* Whatever stopped a repair, a creation or a save half way, the file at the
\* store's path is a complete one, and a file that carries the marker has no
\* protected record in plain text and no checkpoint other than the one its own
\* retained history gives.
MarkerIsTrue ==
  /\ disk.file # Torn
  /\ disk.file # NoFile /\ disk.file.marker =>
       LET checkpoint == disk.file.checkpoint
       IN  /\ checkpoint.sealed /\ disk.file.keyring.sealed
           /\ checkpoint.value # None =>
                /\ \A l \in Logs : checkpoint.value.heads[l] <= disk.file.held[l]
                /\ checkpoint.value = Build(checkpoint.value.heads)

\* An epoch is erased only when the checkpoint on disk covers every operation
\* sealed under it, none of them is pending, and no closed capture or relation
\* needs the old texts: also when operations, checkpoints or keyrings changed
\* between the review and the execution.
PrunedIsCovered ==
  [][\A keys \in Keyrings, asked \in {{}, {1}} : Execute(keys, asked) =>
       LET checkpoint == disk.file.checkpoint.value
           closed == Closed(disk.file.held)
           gone == disk.file.keyring.value \ disk'.file.keyring.value
       IN  /\ gone \cap asked = {}
           /\ \A p \in Places(disk.file.held) : Op(p).epoch \in gone =>
                /\ p \in Places(checkpoint.heads) \ checkpoint.pending
                /\ p \in closed /\ ~CaptureMaterial(closed)]_vars

\* A file that can be opened.
Whole(file) == file \notin {NoFile, Torn}

\* Signed history never shrinks, a checkpoint is only replaced by one at least
\* as far, and an erased epoch comes back only through the explicit membership
\* handoff; but for a power cut before the repair's new name was on the medium.
CustodyNeverGoesBack ==
  [][Whole(disk.file) /\ Whole(disk'.file) /\ disk.before = NoFile =>
       LET was == disk.file  is == disk'.file
       IN  /\ \A l \in Logs : was.held[l] <= is.held[l]
           /\ was.checkpoint.value # None =>
                /\ is.checkpoint.value # None
                /\ \A l \in Logs : was.checkpoint.value.heads[l] <= is.checkpoint.value.heads[l]
           /\ was.keyring.value # None =>
                \/ is.keyring.value \subseteq was.keyring.value
                \/ \E keys \in Keyrings : Handoff(keys)]_vars

=============================================================================
