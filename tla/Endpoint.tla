------------------------------ MODULE Endpoint ------------------------------
(***************************************************************************)
(* One opened vault shared by several sessions, each with a client that    *)
(* shows and edits its document (crates/knot-editor/src/endpoint.rs, and   *)
(* KnotVault::replace_projection of vault.rs).                             *)
(*                                                                         *)
(* A session answers one call at a time, on a thread of its own.  Within a *)
(* call it takes the resident's lock several times and lets go in between, *)
(* so calls of different sessions interleave; only a save keeps the lock   *)
(* from authoring to installing what it authored.  The sync store below    *)
(* has its own gate: it takes another writer's events at any moment.       *)
(*                                                                         *)
(* The vault holds one document, which nobody deletes.  It stays unlocked  *)
(* and its sessions keep their write grants.  Versions and conflicts are   *)
(* those of KnotSync.tla, with one remote writer and one-line texts.       *)
(***************************************************************************)
EXTENDS Naturals, Sequences, FiniteSetsExt

CONSTANTS
  Sessions,     \* the sessions over the resident vault
  Remote,       \* the other writer of the space
  Texts,        \* what the document can say
  First,        \* the first of them
  NoText,       \* no text to show or to edit
  Clip,         \* Clip[t]: t with a clip appended, NoText past max_source_bytes
  Typed,        \* bound: Typed[w]: the texts that w, a client or the remote writer, saves
  Clippers,     \* bound: the sessions whose clients append clips
  MaxVersions,  \* bound: versions in the store
  MaxFaults     \* bound: installs that fail and events that come too early

ASSUME EndpointAssumption ==
  /\ Remote \notin Sessions /\ First \in Texts /\ NoText \notin Texts
  /\ Clip \in [Texts -> Texts \cup {NoText}]
  /\ Typed \in [Sessions \cup {Remote} -> SUBSET Texts] /\ Clippers \subseteq Sessions
  /\ MaxVersions \in Nat \ {0} /\ MaxFaults \in Nat

VARIABLES
  store,     \* the versions in the sync store, in the order they got there
  late,      \* versions that miss an event of their history, on another document
  resident,  \* VaultSource: what was projected last
  sess,      \* sess[s]: the session's revisions and snapshot
  call,      \* call[s]: the call s is answering
  client,    \* client[s]: what the client of s shows, edits and was told
  unsettled, \* history: the saves that ended in an error or were made over a late one
  torn,      \* history: an install stopped half way
  faults     \* installs that failed and events that came too early

vars == <<store, late, resident, sess, call, client, unsettled, torn, faults>>

-----------------------------------------------------------------------------
(* Versions *)

Id == 1..MaxVersions

\* A base token is the hash of the current head: of one version, or of the two
\* an automatic merge supersedes.  {} is no token.
Token == SUBSET Id

\* past is everything reachable over parents.  base, unseen and clipped are
\* history: the token a save was made with, the versions in its past that the
\* resident had not projected, and whether it appended a clip.
Version == [by : Sessions \cup {Remote}, text : Texts, past : SUBSET Id,
            base : Token, unseen : SUBSET Id, clipped : BOOLEAN]

RemoteVersion(text, past) ==
  [by |-> Remote, text |-> text, past |-> past, base |-> {}, unseen |-> {}, clipped |-> FALSE]

Known == DOMAIN store

\* causal_projection; the events it leaves out are pending.
Closed == {x \in Known : ({x} \cup store[x].past) \cap late = {}}

\* The versions of S that no other one of S has in its past.
HeadsOf(S) == {x \in S : \A y \in S : x \notin store[y].past}

Heads == HeadsOf(Closed)

\* The last version before every head; the first one always is.
MergeBase(heads) == Max({b \in Closed : \A x \in heads : b \in store[x].past})

\* What the heads say together: one version's text, their automatic merge, or
\* NoText for a conflict.
Settled(heads) ==
  LET texts == {store[x].text : x \in heads}
  IN IF Cardinality(texts) = 1 THEN CHOOSE t \in texts : TRUE
     ELSE LET changed == texts \ {store[MergeBase(heads)].text}
          IN IF Cardinality(changed) = 1 THEN CHOOSE t \in changed : TRUE ELSE NoText

-----------------------------------------------------------------------------
(* The resident vault *)

\* head is {} in a conflict; seen is history: what head was computed from.
Resident == [text : Texts \cup {NoText}, head : Token, pending : BOOLEAN,
             seen : SUBSET Id, rev : Nat]

\* The projection of the store, before it is installed.
Projection ==
  LET text == Settled(Heads)
  IN [text |-> text, head |-> IF text = NoText THEN {} ELSE Heads,
      pending |-> late # {}, seen |-> Closed]

\* Mutant of Bumped: the revision is left alone.
NotBumped(text) == resident.rev

\* replace_projection: only another set of documents is another revision.
Bumped(text) == IF text = resident.text THEN resident.rev ELSE resident.rev + 1

\* install_projection, to the end.
Installed ==
  LET p == Projection
  IN [text |-> p.text, head |-> p.head, pending |-> p.pending, seen |-> p.seen,
      rev |-> Bumped(p.text)]

\* The heads are there, but the cache of a document that went, this one in a
\* conflict or another one, was not deleted: the documents stay as they were.
HalfInstalled ==
  LET p == Projection
  IN IF p.text # resident.text
     THEN {[resident EXCEPT !.head = p.head, !.pending = p.pending, !.seen = p.seen]} ELSE {}

\* What a failing install leaves: nothing (the store was not read), half of
\* it, or all of it (the index was not written).
FailedInstalls ==
  {resident} \cup HalfInstalled
    \cup (IF Projection.text # resident.text THEN {Installed} ELSE {})

\* Nobody holds the resident's lock over two steps but a save.
Unlocked == \A s \in Sessions : call[s].step # "install"

\* editable_text has something to disclose.
Editable == ~resident.pending /\ resident.head # {} /\ resident.text # NoText

-----------------------------------------------------------------------------
(* Sessions and clients *)

\* What a client can show and edit; text is NoText when only the card is there.
View == [rev : Nat, text : Texts \cup {NoText}, token : Token]

NoView == [rev |-> 0, text |-> NoText, token |-> {}]

\* observed_source_revision, scene_revision, last_announced and snapshot; 0 is
\* None.
Session == [observed : Nat, rev : Nat, announced : Nat, snap : View]

\* draft is the token of the text being edited.
Client == [view : View, draft : Token, bell : BOOLEAN]

Kinds == {"snapshot", "poll", "resume", "save", "clip"}

Steps == {"idle", "observe", "compose", "target", "author", "install", "saved", "read"}

\* ack is the revision the client has.
Call == [kind : Kinds, step : Steps, ack : Nat, token : Token, text : Texts \cup {NoText}]

Request(kind) == [kind |-> kind, step |-> "observe", ack |-> 0, token |-> {}, text |-> NoText]

Idle == [Request("poll") EXCEPT !.step = "idle"]

Init ==
  /\ store = << RemoteVersion(First, {}) >>
  /\ resident = [text |-> First, head |-> {1}, pending |-> FALSE, seen |-> {1}, rev |-> 1]
  /\ late = {}
  /\ sess = [s \in Sessions |-> [observed |-> 0, rev |-> 0, announced |-> 0, snap |-> NoView]]
  /\ call = [s \in Sessions |-> Idle]
  /\ client = [s \in Sessions |-> [view |-> NoView, draft |-> {}, bell |-> FALSE]]
  /\ unsettled = {}
  /\ torn = FALSE
  /\ faults = 0

-----------------------------------------------------------------------------
(* The sync store *)

\* The resident's own versions: one log, whoever's save it was.
Own == {x \in Known : store[x].by # Remote}

\* A version of the remote writer, who had all of its own and so much of ours.
RemotePut(t, upTo) ==
  LET had == {x \in Known : x \notin Own \/ x <= upTo}
  IN /\ Len(store) < MaxVersions
     /\ upTo \in Own \cup {0}
     \* a writer never forgets what it had
     /\ \A x \in had : store[x].past \subseteq had
     /\ store' = Append(store, RemoteVersion(t, had))
     /\ UNCHANGED <<late, resident, sess, call, client, unsettled, torn, faults>>

\* The same version, before another event its writer had.
RemotePutEarly(t, upTo) ==
  LET had == {x \in Known : x \notin Own \/ x <= upTo}
  IN /\ Len(store) < MaxVersions /\ faults < MaxFaults
     /\ upTo \in Own \cup {0}
     /\ \A x \in had : store[x].past \subseteq had
     /\ store' = Append(store, RemoteVersion(t, had))
     /\ late' = late \cup {Len(store) + 1}
     /\ faults' = faults + 1
     /\ UNCHANGED <<resident, sess, call, client, unsettled, torn>>

\* The missing event arrives.
Arrive(x) ==
  /\ x \in late
  /\ late' = late \ {x}
  /\ UNCHANGED <<store, resident, sess, call, client, unsettled, torn, faults>>

-----------------------------------------------------------------------------
(* Calls: every one begins with refresh *)

\* refresh_projection, under the lock.
Begin(s, request) ==
  /\ call[s].step = "idle" /\ Unlocked
  /\ resident' = Installed
  /\ call' = [call EXCEPT ![s] = request]
  /\ UNCHANGED <<store, late, sess, client, unsettled, torn, faults>>

\* The refresh fails, and the call with it.
BeginFails(s) ==
  /\ call[s].step = "idle" /\ Unlocked
  /\ faults < MaxFaults
  /\ resident' \in FailedInstalls
  /\ torn' = (torn \/ resident' \in HalfInstalled)
  /\ faults' = faults + 1
  /\ UNCHANGED <<store, late, sess, call, client, unsettled>>

Mounted(s) == client[s].view.rev # 0

Mount(s) == ~Mounted(s) /\ Begin(s, Request("snapshot"))

\* A client that shows a current view asks whether there is news.
Poll(s) == Mounted(s) /\ ~client[s].bell /\ Begin(s, Request("poll"))

\* A client that was told of a change asks for it.
Resume(s) ==
  /\ client[s].bell
  /\ Begin(s, [Request("resume") EXCEPT !.ack = client[s].view.rev])

\* A client saves what it edits, over the text it began with.
Save(s, t) ==
  /\ client[s].draft # {}
  /\ Begin(s, [Request("save") EXCEPT !.ack = client[s].view.rev,
                                      !.token = client[s].draft, !.text = t])

\* A client appends a clip to what it shows.
InsertClip(s) ==
  /\ s \in Clippers /\ client[s].view.text # NoText
  /\ Begin(s, [Request("clip") EXCEPT !.ack = client[s].view.rev,
                                      !.token = client[s].view.token])

\* Editing begins, or begins again with the text shown now; a new view alone
\* does not touch it.
Edit(s) ==
  /\ Typed[s] # {} /\ call[s].step = "idle"
  /\ client[s].view.text # NoText
  /\ client' = [client EXCEPT ![s].draft = client[s].view.token]
  /\ UNCHANGED <<store, late, resident, sess, call, unsettled, torn, faults>>

-----------------------------------------------------------------------------
(* sync_source_revision, and what the call does with the revision *)

Observed(s) ==
  IF sess[s].observed = resident.rev THEN sess[s]
  ELSE [sess[s] EXCEPT !.observed = resident.rev, !.rev = @ + 1]

At(s, kind, step) == call[s].kind = kind /\ call[s].step = step /\ Unlocked

Finish(s) == call' = [call EXCEPT ![s] = Idle]

Continue(s, step) == call' = [call EXCEPT ![s].step = step]

AnswerSnapshot(s) ==
  /\ At(s, "snapshot", "observe")
  /\ sess' = [sess EXCEPT ![s] = Observed(s)]
  /\ Continue(s, "read")
  /\ UNCHANGED <<store, late, resident, client, unsettled, torn, faults>>

\* poll_notice
AnswerPoll(s) ==
  LET now == Observed(s)
      rings == now.snap.rev # 0 /\ now.rev > now.announced
  IN /\ At(s, "poll", "observe")
     /\ sess' = [sess EXCEPT ![s] = [now EXCEPT !.announced = IF rings THEN now.rev ELSE @]]
     /\ client' = [client EXCEPT ![s].bell = @ \/ rings]
     /\ Finish(s)
     /\ UNCHANGED <<store, late, resident, unsettled, torn, faults>>

\* resume: current, or a new snapshot.
AnswerResume(s) ==
  LET now == Observed(s)
      current == call[s].ack = now.rev
  IN /\ At(s, "resume", "observe")
     /\ sess' = [sess EXCEPT ![s] = [now EXCEPT !.announced = IF current THEN now.rev ELSE @]]
     /\ client' = [client EXCEPT ![s].bell = @ /\ ~current]
     /\ IF current THEN Finish(s) ELSE Continue(s, "read")
     /\ UNCHANGED <<store, late, resident, unsettled, torn, faults>>

\* invoke: an intent on a snapshot that is not the current one is stale; the
\* current one is then built.  What the snapshot does not offer is rejected.
AnswerIntent(s, kind, step) ==
  LET now == Observed(s)
  IN /\ At(s, kind, "observe")
     /\ sess' = [sess EXCEPT ![s] = now]
     /\ IF now.snap.rev # now.rev THEN Continue(s, "read")
        ELSE IF call[s].ack = now.snap.rev /\ now.snap.text # NoText
             THEN Continue(s, step)
             ELSE Finish(s)
     /\ UNCHANGED <<store, late, resident, client, unsettled, torn, faults>>

-----------------------------------------------------------------------------
(* save_text and append_clip *)

\* The client is told its edit was saved.
Accept(s) ==
  client' = IF call[s].kind = "save" THEN [client EXCEPT ![s].draft = {}] ELSE client

\* Mutant of Compose: a clip makes the source as long as it likes.
ComposeUnlimited(s) ==
  /\ At(s, "clip", "compose")
  /\ IF Editable /\ call[s].token = resident.head
     THEN call' = [call EXCEPT ![s].step = "target", ![s].text = Clip[resident.text]]
     ELSE Finish(s)
  /\ UNCHANGED <<store, late, resident, sess, client, unsettled, torn, faults>>

\* current_clip_target and append_clip_to_current: the clip is appended to the
\* text that is current now.
Compose(s) ==
  /\ At(s, "clip", "compose")
  /\ IF Editable /\ call[s].token = resident.head /\ Clip[resident.text] # NoText
     THEN call' = [call EXCEPT ![s].step = "target", ![s].text = Clip[resident.text]]
     ELSE Finish(s)
  /\ UNCHANGED <<store, late, resident, sess, client, unsettled, torn, faults>>

\* The first check of the token; a text that is there already is not saved again.
Target(s) ==
  /\ call[s].step = "target" /\ Unlocked
  /\ LET fits == Editable /\ call[s].token = resident.head
     IN /\ IF fits /\ call[s].text # resident.text THEN Continue(s, "author") ELSE Finish(s)
        /\ IF fits /\ call[s].text = resident.text THEN Accept(s) ELSE client' = client
  /\ UNCHANGED <<store, late, resident, sess, unsettled, torn, faults>>

\* Mutant of Fits: what the first check found is relied on.
FitsAsBefore(s) == TRUE

\* The second check, under the lock the save is made under.
Fits(s) == call[s].token # {} /\ call[s].token = resident.head

\* The event names everything the store has as its parents.  A token that does
\* not fit, and a store that takes no more, end the call.
AuthorSave(s) ==
  /\ call[s].step = "author" /\ Unlocked
  /\ IF Fits(s) /\ Len(store) < MaxVersions
     THEN /\ store' = Append(store, [by |-> s, text |-> call[s].text, past |-> Known,
                                     base |-> call[s].token,
                                     unseen |-> Known \ resident.seen,
                                     clipped |-> call[s].kind = "clip"])
          /\ unsettled' = unsettled \cup (IF late = {} THEN {} ELSE {Len(store) + 1})
          /\ Continue(s, "install")
     ELSE UNCHANGED <<store, unsettled>> /\ Finish(s)
  /\ UNCHANGED <<late, resident, sess, client, torn, faults>>

InstallSave(s) ==
  /\ call[s].step = "install"
  /\ resident' = Installed
  /\ Continue(s, "saved")
  /\ UNCHANGED <<store, late, sess, client, unsettled, torn, faults>>

\* The save was made and the call ends in an error.
InstallSaveFails(s) ==
  /\ call[s].step = "install"
  /\ faults < MaxFaults
  /\ resident' \in FailedInstalls
  /\ torn' = (torn \/ resident' \in HalfInstalled)
  /\ unsettled' = unsettled \cup {x \in Own : \A y \in Own : y <= x}
  /\ faults' = faults + 1
  /\ Finish(s)
  /\ UNCHANGED <<store, late, sess, client>>

ObserveSave(s) ==
  /\ call[s].step = "saved" /\ Unlocked
  /\ sess' = [sess EXCEPT ![s] = Observed(s)]
  /\ Accept(s)
  /\ Continue(s, "read")
  /\ UNCHANGED <<store, late, resident, unsettled, torn, faults>>

-----------------------------------------------------------------------------
(* build_snapshot *)

\* Mutant of Built: the token is made from the store's head.
BuiltWithStoreHead(s) ==
  [rev |-> sess[s].rev,
   text |-> IF Editable THEN resident.text ELSE NoText,
   token |-> IF Editable THEN Projection.head ELSE {}]

\* What editable_text discloses, under the revision the call observed.
Built(s) ==
  [rev |-> sess[s].rev,
   text |-> IF Editable THEN resident.text ELSE NoText,
   token |-> IF Editable THEN resident.head ELSE {}]

\* Mutant of Read: a snapshot built for an intent counts as announced.
ReadAnnounces(s) ==
  LET asked == call[s].kind \in {"snapshot", "resume"}
  IN /\ call[s].step = "read" /\ Unlocked
     /\ sess' = [sess EXCEPT ![s].snap = Built(s), ![s].announced = sess[s].rev]
     /\ client' = IF asked THEN [client EXCEPT ![s].view = Built(s), ![s].bell = FALSE] ELSE client
     /\ Finish(s)
     /\ UNCHANGED <<store, late, resident, unsettled, torn, faults>>

\* A snapshot that was asked for is the client's view; one built for an intent
\* is kept, and its revision is still to be announced.
Read(s) ==
  LET asked == call[s].kind \in {"snapshot", "resume"}
  IN /\ call[s].step = "read" /\ Unlocked
     /\ sess' = [sess EXCEPT ![s].snap = Built(s),
                             ![s].announced = IF asked THEN sess[s].rev ELSE @]
     /\ client' = IF asked THEN [client EXCEPT ![s].view = Built(s), ![s].bell = FALSE] ELSE client
     /\ Finish(s)
     /\ UNCHANGED <<store, late, resident, unsettled, torn, faults>>

-----------------------------------------------------------------------------
StoreStep ==
  \/ \E t \in Typed[Remote], upTo \in Id \cup {0} : RemotePut(t, upTo) \/ RemotePutEarly(t, upTo)
  \/ \E x \in Id : Arrive(x)

Look(s) == Poll(s) \/ Resume(s)

Ask(s) ==
  \/ Mount(s) \/ Look(s) \/ InsertClip(s)
  \/ \E t \in Typed[s] : Save(s, t)
  \/ Edit(s)

\* The steps of a call that is being answered.
Answer(s) ==
  \/ AnswerSnapshot(s) \/ AnswerPoll(s) \/ AnswerResume(s)
  \/ AnswerIntent(s, "save", "target") \/ AnswerIntent(s, "clip", "compose")
  \/ Compose(s) \/ Target(s) \/ AuthorSave(s) \/ InstallSave(s)
  \/ ObserveSave(s) \/ Read(s)

Next ==
  \/ StoreStep
  \/ \E s \in Sessions : Ask(s) \/ Answer(s) \/ BeginFails(s) \/ InstallSaveFails(s)

Spec == Init /\ [][Next]_vars

-----------------------------------------------------------------------------
(* Properties *)

\* The types of the state.
TypeOK ==
  /\ store \in Seq(Version) /\ Len(store) <= MaxVersions
  /\ late \subseteq Known
  /\ resident \in Resident
  /\ sess \in [Sessions -> Session]
  /\ call \in [Sessions -> Call]
  /\ client \in [Sessions -> Client]
  /\ unsettled \subseteq Own
  /\ torn \in BOOLEAN
  /\ faults \in 0..MaxFaults

\* What a client knows of when it shows the text with this token.
Behind(token) == token \cup UNION {store[x].past : x \in token}

\* A save replaces nothing but what its client had in front of it and what the
\* resident had not projected, and that is no save of another session that was
\* accepted while the history was whole.  This is what base tokens are for: two
\* saves over one base are not both accepted, and a conflict is not settled by
\* a save that did not see it.
SaveReplacesItsBase ==
  \A x \in Known : LET v == store[x]
    IN v.by \in Sessions => /\ v.past \subseteq Behind(v.base) \cup v.unseen
                             /\ v.unseen \cap Own \subseteq unsettled

\* A clip is appended to what its save replaces, whoever saves while it is
\* composed: the text comes from one look at the document and the token is
\* compared at two later ones.
ClipKeepsText ==
  \A x \in Known : store[x].clipped =>
    store[x].text = Clip[Settled(HeadsOf(store[x].past \ store[x].unseen))]

\* Unless an install stopped half way, a client never has a text with the token
\* of another one: what the token lets it replace is what it shows.
TextFitsToken ==
  ~torn => \A s \in Sessions : \A v \in {client[s].view, sess[s].snap} :
             v.text # NoText => v.text = Settled(v.token)

\* While a session has seen the resident's revision, a text disclosed under the
\* session's revision is the resident's: without this neither a stale intent
\* nor a change could be told by its number.
RevisionNamesText ==
  \A s \in Sessions : \A v \in {client[s].view, sess[s].snap} :
    (v.rev = sess[s].rev /\ v.text # NoText /\ sess[s].observed = resident.rev)
      => v.text = resident.text

\* A client whose view is not of its session's revision has been told, or the
\* next poll tells it: no other call uses the announcement up.
ChangeIsAnnounced ==
  \A s \in Sessions :
    (Mounted(s) /\ client[s].view.rev # sess[s].rev)
      => client[s].bell \/ sess[s].announced < sess[s].rev

=============================================================================
