------------------------------ MODULE Recovery ------------------------------
(***************************************************************************)
(* Crash recovery of the standalone desktop (apps/desktop/src/recovery.rs, *)
(* recovery_runtime.rs and the recovery part of workspace.rs).             *)
(*                                                                         *)
(* Every running app is a session.  Its UI thread offers a copy of each    *)
(* unsaved document to a writer thread over a bounded queue; what does not *)
(* fit is deferred.  The writer gathers copies and writes them, one file   *)
(* per document, into a directory all sessions share.  Clearing a copy and *)
(* claiming the copy of a session that is gone are calls the UI thread     *)
(* waits for, three seconds at most.                                       *)
(*                                                                         *)
(* A session may die at any point; a restart is a new session.  A store    *)
(* operation runs under the mutation lock of the directory and is one      *)
(* action; the UI thread and the writer interleave everywhere else.        *)
(***************************************************************************)
EXTENDS Naturals, FiniteSets, Sequences

CONSTANTS
  Sessions,      \* runs of the app, each started at most once
  Earlier,       \* the ones that are over at the start
  Tabs,          \* open documents of one session
  Ids,           \* recovery ids, minted once each
  Texts,         \* what a document can say, its selection included
  NoText, NoId,  \* none
  QueueSize,     \* sync_channel(8)
  PendingLimit,  \* documents the writer gathers (20)
  DeferLimit,    \* documents the UI thread defers (20)
  MaxRecords,    \* RecoveryRetention::max_records
  MaxSteps,      \* bound: what the user does, in all sessions
  MaxFaults,     \* bound: store operations that fail
  MaxTimeouts    \* bound: calls given up after three seconds

ASSUME RecoveryAssumption ==
  /\ Earlier \subseteq Sessions
  /\ Tabs # {} /\ NoId \notin Sessions
  /\ IsFiniteSet(Ids) /\ NoId \notin Ids /\ NoText \notin Texts
  /\ {QueueSize, PendingLimit, DeferLimit, MaxRecords} \subseteq Nat \ {0}
  /\ {MaxSteps, MaxFaults, MaxTimeouts} \subseteq Nat

VARIABLES
  session,   \* session[s]: "new", "live" or "gone"; live is its lock held
  disk,      \* disk[i]: the record of i in the shared directory
  older,     \* older[i]: the records written less recently than that of i
  tab,       \* tab[s][t]: a document entry of the workspace
  ui,        \* ui[s]: the UI thread and its RecoveryRuntime
  queue,     \* queue[s]: the commands on their way to the writer
  writer,    \* writer[s]: the writer thread
  reports,   \* reports[s]: ids whose copy failed, not yet drained
  minted,    \* the ids in use
  steps, faults, timeouts,
  cleared,   \* history, cleared[s]: ids s cleared with Ok and has not offered since
  troubled   \* history, troubled[s]: ids one of whose clears in s returned an error

vars == <<session, disk, older, tab, ui, queue, writer, reports, minted,
          steps, faults, timeouts, cleared, troubled>>

-----------------------------------------------------------------------------
(* What the threads keep *)

Record == [text : Texts, owner : Sessions]

NoRecord == [text |-> NoText, owner |-> NoId]

MaybeText == Texts \cup {NoText}

Copies == [Ids -> MaybeText]

NoCopies == [i \in Ids |-> NoText]

Holds(c) == {i \in Ids : c[i] # NoText}

\* saved is what the document's file says; a candidate has none.  mark is the
\* fingerprint of the last copy that was accepted.
Document == [open : BOOLEAN, text : MaybeText, saved : MaybeText,
             id : Ids \cup {NoId}, candidate : BOOLEAN, mark : MaybeText]

Closed == [open |-> FALSE, text |-> NoText, saved |-> NoText,
           id |-> NoId, candidate |-> FALSE, mark |-> NoText]

Command == [kind : {"upsert", "remove", "claim", "flush", "retention"},
            id : Ids \cup {NoId}, text : MaybeText, awaited : BOOLEAN]

\* The call the UI thread is in: why it was made, how far it is, and how it
\* ended.
Call == [why : {"none", "resolved", "saved", "closed", "reloaded", "discarded",
                "quitting", "restore", "exit", "retention"},
         id : Ids \cup {NoId}, tab : Tabs,
         stage : {"send", "wait", "answered"}, ok : BOOLEAN, text : MaybeText]

NoCall == [why |-> "none", id |-> NoId, tab |-> CHOOSE t \in Tabs : TRUE,
           stage |-> "send", ok |-> FALSE, text |-> NoText]

Calling(why, i, t) == [NoCall EXCEPT !.why = why, !.id = i, !.tab = t]

\* sync: the dispatch is over and sync_recovery has still to run.
Thread == [phase : {"idle", "sync", "quit"}, tried : SUBSET Tabs,
           closing : BOOLEAN, call : Call, listed : SUBSET Ids,
           deferred : Copies, wake : BOOLEAN]

Worker == [pending : Copies, batch : Copies, first : BOOLEAN,
           flushing : BOOLEAN, failed : BOOLEAN]

IdleThread == [phase |-> "idle", tried |-> {}, closing |-> FALSE, call |-> NoCall,
               listed |-> {}, deferred |-> NoCopies, wake |-> FALSE]

IdleWorker == [pending |-> NoCopies, batch |-> NoCopies, first |-> FALSE,
               flushing |-> FALSE, failed |-> FALSE]

Arrangements(ids) ==
  {q \in [1..Cardinality(ids) -> ids] : \A i \in ids : \E n \in DOMAIN q : q[n] = i}

\* f[i] is what comes before i, in one order of all the ids.
IsOrder(f, ids) ==
  /\ f \in [Ids -> SUBSET ids]
  /\ \A i \in Ids \ ids : f[i] = {}
  /\ \A i \in ids : i \notin f[i]
  /\ \A i, j \in ids : i # j => i \in f[j] \/ j \in f[i]
  /\ \A i, j \in ids : i \in f[j] => f[i] \subseteq f[j]

\* The directory holds what earlier sessions left behind.
Init ==
  /\ session = [s \in Sessions |-> IF s \in Earlier THEN "gone" ELSE "new"]
  /\ \E left \in SUBSET Ids :
       /\ minted = left
       /\ \E f \in [Ids -> SUBSET left] : IsOrder(f, left) /\ older = f
       /\ \E found \in [left -> [text : Texts, owner : Earlier]] :
            disk = [i \in Ids |-> IF i \in left THEN found[i] ELSE NoRecord]
  /\ tab = [s \in Sessions |-> [t \in Tabs |-> Closed]]
  /\ ui = [s \in Sessions |-> IdleThread]
  /\ queue = [s \in Sessions |-> <<>>]
  /\ writer = [s \in Sessions |-> IdleWorker]
  /\ reports = [s \in Sessions |-> {}]
  /\ steps = 0 /\ faults = 0 /\ timeouts = 0
  /\ cleared = [s \in Sessions |-> {}] /\ troubled = [s \in Sessions |-> {}]

-----------------------------------------------------------------------------
(* The store.  Each operation runs under the mutation lock. *)

Live(s) == session[s] = "live"

OnDisk == {i \in Ids : disk[i] # NoRecord}

\* Mutant: retention does not ask whether the owner still runs.
AnyRecord == {i \in Ids : disk[i] # NoRecord}

\* is_session_live is what protects a record.
Abandoned == {i \in OnDisk : ~Live(disk[i].owner)}

\* Mutant: the owner is not looked at.
OwnedByNobody(s, i) == FALSE

OwnedByOther(s, i) == i \in OnDisk \ Abandoned /\ disk[i].owner # s

OlderThan(i, among) == older[i] \cap among

\* The retention rule of upsert and prune_to_policy, with room for so many
\* records besides i.  The aged first records are past max_age_days: they go
\* if abandoned, and then the oldest abandoned ones until the rest fit.
Victims(i, aged, room) ==
  LET others == OnDisk \ {i}
      loose  == Abandoned \ {i}
  IN  {v \in loose : \/ Cardinality(older[v]) < aged
                     \/ Cardinality(OlderThan(v, loose)) + room < Cardinality(others)}

Fits(i, aged, room) ==
  Cardinality(OnDisk \ ({i} \cup Victims(i, aged, room))) <= room

\* A removal that fails half way has taken the oldest victims.
Partly(victims) ==
  {gone \in SUBSET victims : \A v \in gone : OlderThan(v, victims) \subseteq gone}

Forget(gone) ==
  /\ disk' = [j \in Ids |-> IF j \in gone THEN NoRecord ELSE disk[j]]
  /\ older' = [j \in Ids |-> IF j \in gone THEN {} ELSE older[j] \ gone]

\* Mutant: the record that is replaced keeps its old place too.
ReplaceListedTwice(i, record, gone) ==
  /\ disk' = [j \in Ids |-> IF j = i THEN record
                            ELSE IF j \in gone THEN NoRecord ELSE disk[j]]
  /\ older' = [j \in Ids |-> IF j = i THEN OnDisk \ gone
                              ELSE IF j \in gone THEN {} ELSE older[j] \ gone]

\* atomic_replace: the old record or the new one, never neither.
Replace(i, record, gone) ==
  /\ disk' = [j \in Ids |-> IF j = i THEN record
                            ELSE IF j \in gone THEN NoRecord ELSE disk[j]]
  /\ older' = [j \in Ids |-> IF j = i THEN OnDisk \ (gone \cup {i})
                              ELSE IF j \in gone THEN {} ELSE older[j] \ (gone \cup {i})]

Unwritten == UNCHANGED <<disk, older>>

Fault == faults < MaxFaults /\ faults' = faults + 1

\* RecoveryStore::upsert, ending in ok.
Upsert(s, i, x, ok) ==
  \E aged \in 0..Cardinality(OnDisk) :
    LET record  == [text |-> x, owner |-> s]
        victims == Victims(i, aged, MaxRecords - 1)
        allowed == ~OwnedByOther(s, i) /\ Fits(i, aged, MaxRecords - 1)
    IN  \/ ok /\ allowed /\ Replace(i, record, victims) /\ UNCHANGED faults
        \/ ~ok /\ ~allowed /\ Unwritten /\ UNCHANGED faults
        \/ ~ok /\ Fault /\ Unwritten
        \/ ~ok /\ Fault /\ allowed
           /\ \E gone \in Partly(victims) : Replace(i, record, gone)

\* RecoveryStore::remove.
Remove(s, i, ok) ==
  \/ ok /\ ~OwnedByOther(s, i) /\ Forget({i}) /\ UNCHANGED faults
  \/ ~ok /\ OwnedByOther(s, i) /\ Unwritten /\ UNCHANGED faults
  \/ ~ok /\ Fault /\ Unwritten
  \/ ~ok /\ Fault /\ ~OwnedByOther(s, i) /\ i \in OnDisk /\ Forget({i})

\* RecoveryStore::claim; x is the text it returns.
Claim(s, i, ok, x) ==
  LET record == [text |-> disk[i].text, owner |-> s]
  IN  \/ ok /\ i \notin OnDisk /\ x = NoText /\ Unwritten /\ UNCHANGED faults
      \/ /\ ok /\ i \in OnDisk /\ ~OwnedByOther(s, i) /\ x = disk[i].text
         /\ Replace(i, record, {}) /\ UNCHANGED faults
      \/ ~ok /\ OwnedByOther(s, i) /\ x = NoText /\ Unwritten /\ UNCHANGED faults
      \/ ~ok /\ Fault /\ x = NoText /\ Unwritten
      \/ /\ ~ok /\ Fault /\ i \in OnDisk /\ ~OwnedByOther(s, i) /\ x = NoText
         /\ Replace(i, record, {})

\* RecoveryStore::prune_to_policy.
Prune(ok) ==
  \E aged \in 0..Cardinality(OnDisk) :
    LET victims == Victims(NoId, aged, MaxRecords)
        allowed == Fits(NoId, aged, MaxRecords)
    IN  \/ ok /\ allowed /\ Forget(victims) /\ UNCHANGED faults
        \/ ~ok /\ ~allowed /\ Unwritten /\ UNCHANGED faults
        \/ ~ok /\ Fault /\ \E gone \in Partly(victims) : Forget(gone)

-----------------------------------------------------------------------------
(* What the user does.  Every dispatch ends in sync_recovery. *)

Copy(i, x) == [kind |-> "upsert", id |-> i, text |-> x, awaited |-> FALSE]

Unsaved(d) == d.open /\ (d.text # d.saved \/ d.candidate)

Ready(s) ==
  Live(s) /\ ui[s].phase = "idle" /\ ~ui[s].closing /\ ui[s].call = NoCall

Dispatch(s, phase, call) ==
  /\ Ready(s) /\ steps < MaxSteps
  /\ steps' = steps + 1
  /\ ui' = [ui EXCEPT ![s] = [ui[s] EXCEPT !.phase = phase, !.tried = {}, !.call = call]]
  /\ UNCHANGED <<session, disk, older, queue, writer, reports, minted,
                 faults, timeouts, cleared, troubled>>

SetTab(s, t, d) == tab' = [tab EXCEPT ![s][t] = d]

\* RecoveryRuntime::start: a store that cannot be pruned still opens.  Only
\* the copies of sessions that are gone are listed.
Start(s) ==
  /\ session[s] = "new"
  /\ session' = [session EXCEPT ![s] = "live"]
  /\ \E ok \in BOOLEAN : Prune(ok)
  /\ ui' = [ui EXCEPT ![s] = [IdleThread EXCEPT
              !.listed = {i \in Ids : /\ disk'[i] # NoRecord
                                      /\ session'[disk'[i].owner] # "live"}]]
  /\ UNCHANGED <<tab, queue, writer, reports, minted, steps, timeouts,
                 cleared, troubled>>

OpenDocument(s, t, x) ==
  /\ ~tab[s][t].open
  /\ SetTab(s, t, [Closed EXCEPT !.open = TRUE, !.text = x, !.saved = x])
  /\ Dispatch(s, "sync", NoCall)

\* Typing, undo and redo.
Edit(s, t, x) ==
  /\ tab[s][t].open /\ tab[s][t].text # x
  /\ SetTab(s, t, [tab[s][t] EXCEPT !.text = x])
  /\ Dispatch(s, "sync", NoCall)

ClearFor(why, t, d) == IF d.id = NoId THEN NoCall ELSE Calling(why, d.id, t)

\* A save that worked; after_successful_document_write clears the copy.
Save(s, t) ==
  LET d == tab[s][t]
  IN  /\ Unsaved(d)
      /\ SetTab(s, t, [d EXCEPT !.saved = d.text])
      /\ Dispatch(s, "sync", ClearFor("saved", t, d))

\* Closing a document without unsaved text leaves the copies alone.
CloseSaved(s, t) ==
  /\ tab[s][t].open /\ ~Unsaved(tab[s][t])
  /\ SetTab(s, t, Closed)
  /\ Dispatch(s, "sync", NoCall)

\* confirm_discard on a close: the document goes first, then its copy.
DiscardAndClose(s, t) ==
  /\ Unsaved(tab[s][t])
  /\ SetTab(s, t, Closed)
  /\ Dispatch(s, "sync", ClearFor("closed", t, tab[s][t]))

\* confirm_discard on a reload of a document that has a file.
DiscardAndReload(s, t) ==
  LET d == tab[s][t]
  IN  /\ Unsaved(d) /\ ~d.candidate /\ d.saved # NoText
      /\ SetTab(s, t, [d EXCEPT !.text = d.saved])
      /\ Dispatch(s, "sync", ClearFor("reloaded", t, d))

\* restore_recovery of a listed copy that is not open yet.
Restore(s, i, t) ==
  /\ i \in ui[s].listed /\ ~tab[s][t].open
  /\ \A v \in Tabs : tab[s][v].id # i
  /\ Dispatch(s, "sync", Calling("restore", i, t))
  /\ UNCHANGED tab

\* discard_recovery of a listed copy, open as a candidate or not.
DiscardCopy(s, i) ==
  /\ i \in ui[s].listed
  /\ Dispatch(s, "sync", Calling("discarded", i, NoCall.tab))
  /\ UNCHANGED tab

SetRetention(s) ==
  /\ Dispatch(s, "sync", Calling("retention", NoId, NoCall.tab))
  /\ UNCHANGED tab

\* Sending the deferred copies again, as many as the queue takes.
Retry(s, moved) ==
  LET d == ui[s].deferred
  IN  /\ Cardinality(moved) = IF Cardinality(Holds(d)) <= QueueSize - Len(queue[s])
                              THEN Cardinality(Holds(d)) ELSE QueueSize - Len(queue[s])
      /\ \E sent \in Arrangements(moved) :
           queue' = [queue EXCEPT ![s] =
             queue[s] \o [n \in DOMAIN sent |-> Copy(sent[n], d[sent[n]])]]

Kept(copies, moved) == [i \in Ids |-> IF i \in moved THEN NoText ELSE copies[i]]

\* close_request with nothing unsaved: flush, then exit.  flush sends the
\* deferred copies first and gives up when some do not fit.
Quit(s) ==
  LET u == ui[s]
  IN  /\ Ready(s) /\ steps < MaxSteps
      /\ \A t \in Tabs : ~Unsaved(tab[s][t])
      /\ steps' = steps + 1
      /\ \E moved \in SUBSET Holds(u.deferred) :
           /\ Retry(s, moved)
           /\ ui' = [ui EXCEPT ![s] = [u EXCEPT
                !.phase = "sync", !.tried = {}, !.deferred = Kept(u.deferred, moved),
                !.call = IF moved = Holds(u.deferred) THEN Calling("exit", NoId, u.call.tab)
                         ELSE NoCall]]
      /\ UNCHANGED <<session, disk, older, tab, writer, reports, minted,
                     faults, timeouts, cleared, troubled>>

\* confirm_discard on quit: every unsaved document's copy is cleared first.
QuitDiscarding(s) ==
  /\ \E t \in Tabs : Unsaved(tab[s][t])
  /\ Dispatch(s, "quit", NoCall)
  /\ UNCHANGED tab

-----------------------------------------------------------------------------
(* The calls the UI thread waits for *)

Request(call) ==
  [kind    |-> CASE call.why = "restore" -> "claim"
                 [] call.why = "exit" -> "flush"
                 [] call.why = "retention" -> "retention"
                 [] OTHER -> "remove",
   id      |-> call.id, text |-> NoText, awaited |-> TRUE]

Clearing(call) == Request(call).kind = "remove"

\* send_bounded.  clear drops the deferred copy before it sends.
Send(s) ==
  LET u == ui[s]
  IN  /\ Live(s) /\ u.call # NoCall /\ u.call.stage = "send"
      /\ Len(queue[s]) < QueueSize
      /\ queue' = [queue EXCEPT ![s] = Append(queue[s], Request(u.call))]
      /\ ui' = [ui EXCEPT ![s] = [u EXCEPT
           !.call = [u.call EXCEPT !.stage = "wait"],
           !.deferred = Kept(u.deferred, IF Clearing(u.call) THEN {u.call.id} ELSE {})]]
      /\ UNCHANGED <<session, disk, older, tab, writer, reports, minted, steps,
                     faults, timeouts, cleared, troubled>>

\* Three seconds are over: the queue stayed full or the answer did not come.
\* What was sent stays sent, and its answer will be dropped.
GiveUp(s) ==
  LET u == ui[s]
  IN  /\ Live(s) /\ u.call # NoCall /\ timeouts < MaxTimeouts
      /\ \/ u.call.stage = "send" /\ Len(queue[s]) = QueueSize
         \/ u.call.stage = "wait"
      /\ timeouts' = timeouts + 1
      /\ ui' = [ui EXCEPT ![s] = [u EXCEPT
           !.call = [u.call EXCEPT !.stage = "answered"],
           !.deferred = Kept(u.deferred, IF Clearing(u.call) THEN {u.call.id} ELSE {})]]
      /\ queue' = [queue EXCEPT ![s] = [n \in DOMAIN queue[s] |->
                                         [queue[s][n] EXCEPT !.awaited = FALSE]]]
      /\ writer' = [writer EXCEPT ![s] = [writer[s] EXCEPT !.flushing = FALSE]]
      /\ UNCHANGED <<session, disk, older, tab, reports, minted, steps,
                     faults, cleared, troubled>>

\* What the caller does with the document once the call has returned.
Settled(d, t, call) ==
  IF ~call.ok THEN d
  ELSE IF call.why \in {"resolved", "saved", "quitting"} /\ t = call.tab
       THEN [d EXCEPT !.id = NoId, !.candidate = FALSE, !.mark = NoText]
  ELSE IF call.why = "discarded" /\ d.id = call.id THEN Closed
  ELSE IF call.why = "restore" /\ t = call.tab /\ call.text # NoText
       THEN [Closed EXCEPT !.open = TRUE, !.text = call.text, !.id = call.id,
                           !.candidate = TRUE]
  ELSE d

Return(s) ==
  LET u == ui[s]
      gone == IF Clearing(u.call) THEN {u.call.id} ELSE {}
  IN  /\ Live(s) /\ u.call # NoCall /\ u.call.stage = "answered"
      /\ tab' = [tab EXCEPT ![s] = [t \in Tabs |-> Settled(tab[s][t], t, u.call)]]
      /\ ui' = [ui EXCEPT ![s] = [u EXCEPT
           !.call = NoCall,
           !.listed = IF u.call.ok THEN u.listed \ gone ELSE u.listed,
           !.closing = u.closing \/ (u.call.ok /\ u.call.why = "exit")]]
      /\ cleared' = [cleared EXCEPT ![s] = IF u.call.ok THEN @ \cup gone ELSE @]
      /\ troubled' = [troubled EXCEPT ![s] = IF u.call.ok THEN @ ELSE @ \cup gone]
      /\ UNCHANGED <<session, disk, older, queue, writer, reports, minted, steps,
                     faults, timeouts>>

-----------------------------------------------------------------------------
(* sync_recovery and after_wake *)

Busy(s, phase) == Live(s) /\ ui[s].phase = phase /\ ui[s].call = NoCall

\* The document has nothing unsaved any more: its copy is cleared.
ToResolve(s) ==
  {t \in Tabs \ ui[s].tried : /\ tab[s][t].open /\ ~Unsaved(tab[s][t])
                              /\ tab[s][t].id # NoId}

\* The bound on Ids leaves documents unfollowed once all are minted.
ToOffer(s) ==
  {t \in Tabs \ ui[s].tried : /\ Unsaved(tab[s][t]) /\ tab[s][t].mark # tab[s][t].text
                              /\ tab[s][t].id # NoId \/ minted # Ids}

ToClear(s) == {t \in Tabs \ ui[s].tried : Unsaved(tab[s][t]) /\ tab[s][t].id # NoId}

CallFor(s, why, t) ==
  /\ ui' = [ui EXCEPT ![s] = [ui[s] EXCEPT !.tried = ui[s].tried \cup {t},
                               !.call = Calling(why, tab[s][t].id, t)]]
  /\ UNCHANGED <<session, disk, older, tab, queue, writer, reports, minted,
                 steps, faults, timeouts, cleared, troubled>>

SyncResolve(s, t) == Busy(s, "sync") /\ t \in ToResolve(s) /\ CallFor(s, "resolved", t)

\* RecoveryRuntime::offer: queued, else deferred, else refused.  The
\* fingerprint is kept when the copy was accepted.
SyncOffer(s, t) ==
  /\ Busy(s, "sync") /\ ToResolve(s) = {} /\ t \in ToOffer(s)
  /\ \E i \in IF tab[s][t].id # NoId THEN {tab[s][t].id} ELSE Ids \ minted :
       LET u == ui[s]
           d == tab[s][t]
           queued   == Len(queue[s]) < QueueSize
           deferred == ~queued /\ (\/ Cardinality(Holds(u.deferred)) < DeferLimit
                                   \/ u.deferred[i] # NoText)
       IN  /\ queue' = IF queued
                       THEN [queue EXCEPT ![s] = Append(queue[s], Copy(i, d.text))]
                       ELSE queue
           /\ ui' = [ui EXCEPT ![s] = [u EXCEPT !.tried = u.tried \cup {t},
                !.deferred = IF queued THEN Kept(u.deferred, {i})
                             ELSE IF deferred THEN [u.deferred EXCEPT ![i] = d.text]
                             ELSE u.deferred]]
           /\ SetTab(s, t, [d EXCEPT !.id = i,
                !.mark = IF queued \/ deferred THEN d.text ELSE d.mark])
           /\ minted' = minted \cup {i}
           /\ cleared' = [cleared EXCEPT ![s] = @ \ {i}]
  /\ UNCHANGED <<session, disk, older, writer, reports, steps, faults, timeouts,
                 troubled>>

\* Mutant: the failed ids are drained and dropped.
DrainOnlyMessages(s, phase, wake) ==
  LET u == ui[s]
  IN  /\ \E moved \in SUBSET Holds(u.deferred) :
           /\ Retry(s, moved)
           /\ ui' = [ui EXCEPT ![s] = [u EXCEPT !.phase = phase, !.wake = wake,
                                       !.deferred = Kept(u.deferred, moved)]]
      /\ reports' = [reports EXCEPT ![s] = {}]
      /\ UNCHANGED <<session, disk, older, tab, writer, minted, steps, faults, timeouts,
                     cleared, troubled>>

\* retry, then drain_error: a document whose copy failed is offered again.
Drain(s, phase, wake) ==
  LET u == ui[s]
  IN  /\ \E moved \in SUBSET Holds(u.deferred) :
           /\ Retry(s, moved)
           /\ ui' = [ui EXCEPT ![s] = [u EXCEPT !.phase = phase, !.wake = wake,
                                       !.deferred = Kept(u.deferred, moved)]]
      /\ tab' = [tab EXCEPT ![s] = [t \in Tabs |->
                   IF tab[s][t].id \in reports[s]
                   THEN [tab[s][t] EXCEPT !.mark = NoText] ELSE tab[s][t]]]
      /\ reports' = [reports EXCEPT ![s] = {}]
      /\ UNCHANGED <<session, disk, older, writer, minted, steps, faults, timeouts,
                     cleared, troubled>>

SyncFinish(s) ==
  /\ Busy(s, "sync") /\ ToResolve(s) = {} /\ ToOffer(s) = {}
  /\ Drain(s, "idle", ui[s].wake)

AfterWake(s) == Busy(s, "idle") /\ ui[s].wake /\ Drain(s, "idle", FALSE)

QuitClear(s, t) == Busy(s, "quit") /\ t \in ToClear(s) /\ CallFor(s, "quitting", t)

\* The window closes only when no document has a copy left.
QuitDecide(s) ==
  LET u == ui[s]
  IN  /\ Busy(s, "quit") /\ ToClear(s) = {}
      /\ ui' = [ui EXCEPT ![s] = [u EXCEPT !.phase = "sync", !.tried = {},
                                   !.closing = \A t \in Tabs : tab[s][t].id = NoId]]
      /\ UNCHANGED <<session, disk, older, tab, queue, writer, reports, minted,
                     steps, faults, timeouts, cleared, troubled>>

-----------------------------------------------------------------------------
(* The writer thread *)

Waiting(s) == Live(s) /\ Holds(writer[s].batch) = {} /\ ~writer[s].flushing

Receives(s, kind) == Waiting(s) /\ queue[s] # <<>> /\ Head(queue[s]).kind = kind

Taken(s) == queue' = [queue EXCEPT ![s] = Tail(queue[s])]

Answered(call, ok, x) == [call EXCEPT !.stage = "answered", !.ok = ok, !.text = x]

\* The answer reaches the UI thread only while it waits for this one.
Answer(s, ok, x) ==
  LET u == ui[s]
  IN  ui' = [ui EXCEPT ![s] = [u EXCEPT !.wake = TRUE,
               !.call = IF Head(queue[s]).awaited THEN Answered(u.call, ok, x) ELSE u.call]]

\* Mutant: the UI thread is not woken.
NoWake(s) == UNCHANGED ui

Wake(s) == ui' = [ui EXCEPT ![s] = [ui[s] EXCEPT !.wake = TRUE]]

\* Mutant: a flush that nobody is told about.
FlushingSilently(pending, awaited) ==
  [pending |-> NoCopies, batch |-> pending, first |-> FALSE,
   flushing |-> FALSE, failed |-> FALSE]

\* A flush begins: mem::take(pending).
Flushing(pending, awaited) ==
  [pending |-> NoCopies, batch |-> pending, first |-> FALSE,
   flushing |-> awaited, failed |-> FALSE]

\* Mutant: the first copy of a document stays.
GatheredOnce(pending, c) ==
  IF pending[c.id] # NoText THEN pending ELSE [pending EXCEPT ![c.id] = c.text]

\* Edits to one document coalesce.
Gathered(pending, c) == [pending EXCEPT ![c.id] = c.text]

\* A copy beyond the limit is refused; otherwise it replaces the gathered one
\* and, two seconds after the first, everything gathered is flushed.
TakeUpsert(s) ==
  /\ Receives(s, "upsert")
  /\ LET c == Head(queue[s])
         w == writer[s]
         pending == Gathered(w.pending, c)
     IN  \/ /\ Cardinality(Holds(w.pending)) >= PendingLimit /\ w.pending[c.id] = NoText
            /\ reports' = [reports EXCEPT ![s] = reports[s] \cup {c.id}]
            /\ UNCHANGED writer
         \/ /\ Cardinality(Holds(w.pending)) < PendingLimit \/ w.pending[c.id] # NoText
            /\ \/ writer' = [writer EXCEPT ![s] = [w EXCEPT !.pending = pending, !.first = TRUE]]
               \/ w.first /\ writer' = [writer EXCEPT ![s] = Flushing(pending, FALSE)]
            /\ UNCHANGED reports
  /\ Taken(s) /\ Wake(s)
  /\ UNCHANGED <<session, disk, older, tab, minted, steps, faults, timeouts,
                 cleared, troubled>>

\* Mutant: the record is removed, the gathered copy stays.
TakeRemoveFromDisk(s) ==
  /\ Receives(s, "remove")
  /\ \E ok \in BOOLEAN : Remove(s, Head(queue[s]).id, ok) /\ Answer(s, ok, NoText)
  /\ Taken(s)
  /\ UNCHANGED <<session, tab, writer, reports, minted, steps, timeouts, cleared, troubled>>

\* The gathered copy goes even when the record cannot be removed.
TakeRemove(s) ==
  /\ Receives(s, "remove")
  /\ \E ok \in BOOLEAN : Remove(s, Head(queue[s]).id, ok) /\ Answer(s, ok, NoText)
  /\ writer' = [writer EXCEPT ![s] = [writer[s] EXCEPT
                  !.pending = Kept(writer[s].pending, {Head(queue[s]).id})]]
  /\ Taken(s)
  /\ UNCHANGED <<session, tab, reports, minted, steps, timeouts, cleared, troubled>>

TakeClaim(s) ==
  /\ Receives(s, "claim")
  /\ \E ok \in BOOLEAN, x \in MaybeText :
       Claim(s, Head(queue[s]).id, ok, x) /\ Answer(s, ok, x)
  /\ Taken(s)
  /\ UNCHANGED <<session, tab, writer, reports, minted, steps, timeouts,
                 cleared, troubled>>

TakeRetention(s) ==
  /\ Receives(s, "retention")
  /\ \E ok \in BOOLEAN : Prune(ok) /\ Answer(s, ok, NoText)
  /\ Taken(s)
  /\ UNCHANGED <<session, tab, writer, reports, minted, steps, timeouts,
                 cleared, troubled>>

TakeFlush(s) ==
  /\ Receives(s, "flush")
  /\ writer' = [writer EXCEPT ![s] =
                  Flushing(writer[s].pending, Head(queue[s]).awaited)]
  /\ Taken(s)
  /\ UNCHANGED <<session, disk, older, tab, ui, reports, minted, steps, faults,
                 timeouts, cleared, troubled>>

\* 650 ms without a command, or the UI thread gone.
IdleFlush(s) ==
  /\ Waiting(s) /\ queue[s] = <<>>
  /\ writer[s].first \/ Holds(writer[s].pending) # {}
  /\ writer' = [writer EXCEPT ![s] = Flushing(writer[s].pending, FALSE)]
  /\ UNCHANGED <<session, disk, older, tab, ui, queue, reports, minted, steps, faults,
                 timeouts, cleared, troubled>>

\* One copy of flush_pending; other sessions may come in between.
WriteCopy(s, i) ==
  LET w == writer[s]
  IN  /\ Live(s) /\ w.batch[i] # NoText
      /\ \E ok \in BOOLEAN :
           /\ Upsert(s, i, w.batch[i], ok)
           /\ writer' = [writer EXCEPT ![s] = [w EXCEPT
                           !.batch = Kept(w.batch, {i}), !.failed = w.failed \/ ~ok]]
           /\ reports' = IF ok THEN reports
                         ELSE [reports EXCEPT ![s] = reports[s] \cup {i}]
           /\ ui' = IF ok THEN ui ELSE [ui EXCEPT ![s] = [ui[s] EXCEPT !.wake = TRUE]]
      /\ UNCHANGED <<session, tab, queue, minted, steps, timeouts, cleared, troubled>>

AnswerFlush(s) ==
  LET u == ui[s]
      w == writer[s]
  IN  /\ Live(s) /\ w.flushing /\ Holds(w.batch) = {}
      /\ ui' = [ui EXCEPT ![s] = [u EXCEPT !.call = Answered(u.call, ~w.failed, NoText)]]
      /\ writer' = [writer EXCEPT ![s] = [w EXCEPT !.flushing = FALSE]]
      /\ UNCHANGED <<session, disk, older, tab, queue, reports, minted, steps, faults,
                     timeouts, cleared, troubled>>

-----------------------------------------------------------------------------
(* The end of a session: a crash at any point, or the exit once it is closing.
   The operating system releases its lock; what was not on disk is lost. *)

Die(s) ==
  /\ Live(s)
  /\ session' = [session EXCEPT ![s] = "gone"]
  /\ tab' = [tab EXCEPT ![s] = [t \in Tabs |-> Closed]]
  /\ ui' = [ui EXCEPT ![s] = IdleThread]
  /\ queue' = [queue EXCEPT ![s] = <<>>]
  /\ writer' = [writer EXCEPT ![s] = IdleWorker]
  /\ reports' = [reports EXCEPT ![s] = {}]
  /\ cleared' = [cleared EXCEPT ![s] = {}] /\ troubled' = [troubled EXCEPT ![s] = {}]
  /\ UNCHANGED <<disk, older, minted, steps, faults, timeouts>>

-----------------------------------------------------------------------------
(* The specification *)

UserStep(s) ==
  \/ \E t \in Tabs, x \in Texts : OpenDocument(s, t, x) \/ Edit(s, t, x)
  \/ \E t \in Tabs : \/ Save(s, t) \/ CloseSaved(s, t)
                     \/ DiscardAndClose(s, t) \/ DiscardAndReload(s, t)
  \/ \E i \in Ids : DiscardCopy(s, i) \/ \E t \in Tabs : Restore(s, i, t)
  \/ SetRetention(s) \/ Quit(s) \/ QuitDiscarding(s)

UiStep(s) ==
  \/ Send(s) \/ Return(s)
  \/ \E t \in Tabs : SyncResolve(s, t) \/ SyncOffer(s, t) \/ QuitClear(s, t)
  \/ SyncFinish(s) \/ QuitDecide(s)
  \/ AfterWake(s)

WriterStep(s) ==
  \/ TakeUpsert(s) \/ TakeRemove(s) \/ TakeClaim(s) \/ TakeRetention(s)
  \/ TakeFlush(s) \/ IdleFlush(s) \/ AnswerFlush(s)
  \/ \E i \in Ids : WriteCopy(s, i)

Next ==
  \E s \in Sessions : \/ Start(s) \/ UserStep(s) \/ UiStep(s) \/ GiveUp(s)
                      \/ WriterStep(s) \/ Die(s)

Spec == Init /\ [][Next]_vars

\* Both threads run; the user, the clock of a call and a crash owe nothing.
FairSpec ==
  Spec /\ \A s \in Sessions : WF_vars(UiStep(s)) /\ WF_vars(WriterStep(s))

-----------------------------------------------------------------------------
(* Properties *)

\* Type invariant: every variable keeps to the shape above, and the order
\* lists exactly the records on disk, each once.
TypeOK ==
  /\ session \in [Sessions -> {"new", "live", "gone"}]
  /\ disk \in [Ids -> Record \cup {NoRecord}]
  /\ IsOrder(older, OnDisk)
  /\ tab \in [Sessions -> [Tabs -> Document]]
  /\ ui \in [Sessions -> Thread]
  /\ \A s \in Sessions : \A n \in DOMAIN queue[s] : queue[s][n] \in Command
  /\ \A s \in Sessions : Len(queue[s]) <= QueueSize
  /\ writer \in [Sessions -> Worker]
  /\ reports \in [Sessions -> SUBSET Ids]
  /\ minted \subseteq Ids
  /\ cleared \in [Sessions -> SUBSET Ids] /\ troubled \in [Sessions -> SUBSET Ids]

\* "Records owned by another live session cannot be overwritten" and live
\* records are not evicted (RecoveryStore::upsert, remove, claim and prune):
\* as long as a session lives, only its own writer touches its records.
LiveCopiesAreProtected ==
  [][\A i \in Ids, s \in Sessions :
       (/\ disk[i].owner = s /\ Live(s) /\ session'[s] = "live"
        /\ disk'[i] # disk[i])
         => writer'[s] # writer[s] \/ queue'[s] # queue[s]]_vars

\* "The shared mutation lock makes this transfer exclusive across windows and
\* processes" (RecoveryStore::claim): two live sessions never have the same
\* recovery id open, whatever they listed when they started.
OneHolder ==
  \A s, v \in Sessions :
    s # v /\ Live(s) /\ Live(v)
      => \A t, u \in Tabs : tab[s][t].id # NoId => tab[s][t].id # tab[v][u].id

UpsertsOf(q, i) == {n \in DOMAIN q : q[n].kind = "upsert" /\ q[n].id = i}

\* "No older queued snapshot can reappear after this returns"
\* (RecoveryRuntime::clear): once a clear returned Ok, this session has no copy
\* of that id on disk or on its way there until it offers the document anew.
ClearedStaysCleared ==
  \A s \in Sessions : \A i \in cleared[s] :
    /\ i \in OnDisk => disk[i].owner # s
    /\ UpsertsOf(queue[s], i) = {}
    /\ i \notin Holds(ui[s].deferred) \cup Holds(writer[s].pending)
                 \cup Holds(writer[s].batch)

\* The newest copy of i in session s: deferred, else last in the queue, else
\* gathered, else being flushed, else on disk.
NewestCopy(s, i) ==
  LET q     == queue[s]
      mine  == {n \in DOMAIN q : q[n].kind \in {"upsert", "remove"} /\ q[n].id = i}
      last  == CHOOSE n \in mine : \A m \in mine : m <= n
  IN  IF ui[s].deferred[i] # NoText THEN ui[s].deferred[i]
      ELSE IF mine # {} THEN q[last].text
      ELSE IF writer[s].pending[i] # NoText THEN writer[s].pending[i]
      ELSE IF writer[s].batch[i] # NoText THEN writer[s].batch[i]
      ELSE IF disk[i] # NoRecord /\ disk[i].owner = s THEN disk[i].text
      ELSE NoText

\* A document whose fingerprint says its text was copied will not be offered
\* again until it changes (sync_recovery), unless its failure is about to be
\* drained or it is just being cleared.
Accepted(s, t) ==
  /\ Live(s) /\ Unsaved(tab[s][t]) /\ tab[s][t].mark = tab[s][t].text
  /\ tab[s][t].id \notin reports[s] /\ tab[s][t].id # ui[s].call.id

\* So that text is the newest copy, whatever was deferred, gathered, flushed
\* or cleared in between.
AcceptedCopyIsKept ==
  \A s \in Sessions, t \in Tabs :
    Accepted(s, t) => NewestCopy(s, tab[s][t].id) = tab[s][t].text

\* The same for documents none of whose clears failed.
AcceptedCopySurvives ==
  \A s \in Sessions, t \in Tabs :
    Accepted(s, t) /\ tab[s][t].id \notin troubled[s]
      => NewestCopy(s, tab[s][t].id) = tab[s][t].text

\* "Documents are copied by a bounded background writer": an accepted text is
\* on disk in the end, unless the document moves on, a failure is reported or
\* the session is over.
AcceptedIsWritten ==
  \A s \in Sessions, t \in Tabs, x \in Texts :
    LET waiting == /\ Accepted(s, t) /\ tab[s][t].text = x
                   /\ tab[s][t].id \notin troubled[s]
    IN  waiting ~> (~waiting \/ disk[tab[s][t].id].text = x)

\* The UI thread and the writer never wait for each other: every call returns
\* without its three seconds.
CallsReturn ==
  \A s \in Sessions : ui[s].call # NoCall ~> ui[s].call = NoCall

-----------------------------------------------------------------------------
(* The inductive invariant behind OneHolder *)

Opened(docs) == {i \in Ids : \E t \in Tabs : docs[t].id = i}

Queued(q) == {i \in Ids : \E n \in DOMAIN q : q[n].kind = "upsert" /\ q[n].id = i}

\* A claim that found its record and has not returned yet.
Claimed(u) ==
  {i \in Ids : /\ u.call.why = "restore" /\ u.call.stage = "answered"
               /\ u.call.ok /\ u.call.text # NoText /\ u.call.id = i}

\* The ids a session with these documents, threads and commands may still
\* write or open.
KeptBy(docs, u, q, w) ==
  Opened(docs) \cup Queued(q) \cup Claimed(u)
    \cup Holds(u.deferred) \cup Holds(w.pending) \cup Holds(w.batch)

Keeps(s) == KeptBy(tab[s], ui[s], queue[s], writer[s])

\* An awaited command, queued or being flushed, is the call the UI thread waits
\* in; there is only one, and it has no result before its answer.
Corresponds(u, q, w) ==
  /\ u.call.stage # "answered" => ~u.call.ok
  /\ w.flushing => u.call.stage = "wait"
  /\ \A n \in DOMAIN q : q[n].awaited =>
       /\ u.call.stage = "wait" /\ u.call.id = q[n].id
       /\ ~w.flushing
       /\ \A m \in DOMAIN q : q[m].awaited => m = n

\* And only a live session is in a call.
CallsCorrespond ==
  \A s \in Sessions : /\ Corresponds(ui[s], queue[s], writer[s])
                      /\ Live(s) \/ ui[s].call = NoCall

\* Only a live session keeps an id, no two keep the same one, and the record
\* of an id that is kept belongs to its keeper.
Custody ==
  /\ OnDisk \subseteq minted
  /\ \A s \in Sessions : Keeps(s) \subseteq minted
  /\ \A s \in Sessions : Keeps(s) # {} => Live(s)
  /\ \A s \in Sessions : \A i \in Keeps(s) : i \in OnDisk => disk[i].owner = s
  /\ \A s, v \in Sessions : s # v => Keeps(s) \cap Keeps(v) = {}

=============================================================================
