--------------------------- MODULE RecoveryCopies ---------------------------
(***************************************************************************)
(* More that is proved of Recovery for every number of sessions, documents *)
(* and ids and every limit: what was cleared stays cleared, an accepted    *)
(* copy is kept until it is replaced, cleared or reported, and every       *)
(* variable keeps to its type, the order of the records included.          *)
(***************************************************************************)
EXTENDS RecoveryProofs

-----------------------------------------------------------------------------
(* Where the newest copy of i is *)

\* The commands that decide what becomes of the copy of i.
Mine(q, i) == {n \in DOMAIN q : q[n].kind \in {"upsert", "remove"} /\ q[n].id = i}

\* The newest copy says x and has not reached the writer.
Ahead(i, x, copies, q) ==
  \/ copies[i] # NoText /\ copies[i] = x
  \/ /\ copies[i] = NoText
     /\ \E n \in Mine(q, i) : q[n].text = x /\ \A m \in Mine(q, i) : m <= n

\* The writer of s has it, or wrote it.
Arrived(s, i, x, w, dir) ==
  \/ w.pending[i] # NoText /\ w.pending[i] = x
  \/ w.pending[i] = NoText /\ w.batch[i] # NoText /\ w.batch[i] = x
  \/ w.pending[i] = NoText /\ w.batch[i] = NoText /\ dir[i].owner = s /\ dir[i].text = x

NewestIs(s, i, x, copies, q, w, dir) ==
  \/ Ahead(i, x, copies, q)
  \/ copies[i] = NoText /\ Mine(q, i) = {} /\ Arrived(s, i, x, w, dir)

\* No copy of i in s, and no claim that would make one.
Claims(q) == {i \in Ids : \E n \in DOMAIN q : q[n].kind = "claim" /\ q[n].id = i}

Forgotten(s, i, copies, q, w, dir) ==
  /\ i \notin Holds(copies) \cup Holds(w.pending) \cup Holds(w.batch)
  /\ i \notin Queued(q) \cup Claims(q)
  /\ dir[i].owner # s

-----------------------------------------------------------------------------
(* The inductive invariant *)

\* The documents of a session: no two follow the same copy.
DocsFit(docs) ==
  /\ \A t \in Tabs : docs[t].id = NoId => docs[t].mark = NoText
  /\ \A t \in Tabs : docs[t].open => docs[t].text # NoText
  /\ \A t, v \in Tabs : t # v /\ docs[t].id # NoId => docs[t].id # docs[v].id

Clears(c, i) == c # NoCall /\ Clearing(c) /\ c.id = i

\* A document that was reloaded keeps its id until sync_recovery comes to it.
Reloaded(docs, u, t) ==
  docs[t].open /\ ~Unsaved(docs[t]) /\ u.phase = "sync" /\ t \notin u.tried

\* The call and the document it is about.
CallFits(docs, u) ==
  /\ u.call.why = "none" => u.call = NoCall
  /\ u.call # NoCall /\ Clearing(u.call) => u.call.id \in Ids
  /\ u.call.why \in {"resolved", "saved", "quitting", "reloaded"} =>
       docs[u.call.tab].id = u.call.id
  /\ u.call.why \in {"closed", "restore"} => \A t \in Tabs : docs[t].id # u.call.id
  /\ u.call.why = "reloaded" => Reloaded(docs, u, u.call.tab)

\* The command of the call is the last one.  A Remove nobody waits for is one
\* whose call returned an error, or is about to.
CommandFits(c, n, u, q, tr) ==
  /\ c.kind = "upsert" => c.id \in Ids /\ c.text # NoText
  /\ c.awaited => n = Len(q) /\ u.call # NoCall /\ c.kind = Request(u.call).kind
  /\ c.kind = "remove" =>
       \/ c.id \in tr \/ c.awaited
       \/ u.call.stage = "answered" /\ ~u.call.ok /\ Clears(u.call, c.id)

QueueFits(u, q, tr) ==
  /\ Len(q) <= QueueSize
  /\ \A n \in DOMAIN q : CommandFits(q[n], n, u, q, tr)

\* What a fingerprint promises.
Promised(d, i, u, rep, tr) ==
  /\ d.id = i /\ i # NoId /\ d.mark # NoText
  /\ i \notin rep /\ i \notin tr /\ ~Clears(u.call, i)

CopiesKept(s, docs, u, q, w, rep, tr, dir) ==
  \A t \in Tabs, i \in Ids :
    Promised(docs[t], i, u, rep, tr) /\ ~Reloaded(docs, u, t)
      => NewestIs(s, i, docs[t].mark, u.deferred, q, w, dir)

\* What a clear promises, while it is waited for and once it returned.
ClearsFit(s, u, q, w, cl, dir) ==
  /\ \A i \in cl : /\ Forgotten(s, i, u.deferred, q, w, dir)
                   /\ i \notin u.listed /\ (u.call.why = "restore" => u.call.id # i)
  /\ u.call.stage = "wait" /\ Clearing(u.call) => u.call.id \notin Holds(u.deferred)
  /\ u.call.stage = "answered" /\ u.call.ok /\ Clearing(u.call) =>
       Forgotten(s, u.call.id, u.deferred, q, w, dir)
  /\ w.flushing => ~Clearing(u.call)

SessionFits(s, docs, u, q, w, rep, tr, cl, dir) ==
  /\ DocsFit(docs) /\ CallFits(docs, u) /\ QueueFits(u, q, tr)
  /\ rep \subseteq Ids /\ tr \subseteq Ids /\ cl \subseteq Ids
  /\ CopiesKept(s, docs, u, q, w, rep, tr, dir)
  /\ ClearsFit(s, u, q, w, cl, dir)

Noted == [Sessions -> SUBSET Ids]

SessionsFit ==
  /\ reports \in Noted /\ troubled \in Noted /\ cleared \in Noted
  /\ \A s \in Sessions :
       /\ SessionFits(s, tab[s], ui[s], queue[s], writer[s], reports[s], troubled[s],
                      cleared[s], disk)
       /\ Live(s) \/ cleared[s] = {}

-----------------------------------------------------------------------------
(* One session moves *)

\* What the session notes besides.
Notes(s, rep, tr, cl) ==
  /\ reports' = [reports EXCEPT ![s] = rep]
  /\ troubled' = [troubled EXCEPT ![s] = tr]
  /\ cleared' = [cleared EXCEPT ![s] = cl]

\* A record of a session that lives changes only as the target of its own store
\* operation.
LEMMA RecordStays ==
  ASSUME Inv, NEW s \in Sessions, NEW v \in Sessions, NEW j, Alters(s, j), Live(v),
         NEW i \in Ids, disk[i].owner = v, v # s \/ i # j
  PROVE  disk'[i] = disk[i]
<1>1. i \in OnDisk \ Abandoned
  BY RecoveryAssumption DEF OnDisk, Abandoned, NoRecord
<1>2. v # s => OwnedByOther(s, i)
  BY <1>1 DEF OwnedByOther
<1> QED
  BY <1>1, <1>2 DEF Alters

\* A record another session does not own does not become its own.
LEMMA OwnerStays ==
  ASSUME NEW s \in Sessions, NEW v \in Sessions, NEW j, Alters(s, j),
         NEW i \in Ids, disk[i].owner # v, v # s \/ i # j
  PROVE  disk'[i].owner # v
  BY RecoveryAssumption DEF Alters, NoRecord

\* What s does to the directory leaves the other sessions what they had.
LEMMA OthersFit ==
  ASSUME Inv, SessionsFit, NEW s \in Sessions, NEW j, Alters(s, j),
         NEW v \in Sessions, v # s
  PROVE  SessionFits(v, tab[v], ui[v], queue[v], writer[v], reports[v], troubled[v],
                     cleared[v], disk')
<1>1. SessionFits(v, tab[v], ui[v], queue[v], writer[v], reports[v], troubled[v],
                  cleared[v], disk)
  BY DEF SessionsFit
<1>2. ASSUME NEW t \in Tabs, NEW i \in Ids,
             Promised(tab[v][t], i, ui[v], reports[v], troubled[v]),
             ~Reloaded(tab[v], ui[v], t)
      PROVE  NewestIs(v, i, tab[v][t].mark, ui[v].deferred, queue[v], writer[v], disk')
  <2>1. NewestIs(v, i, tab[v][t].mark, ui[v].deferred, queue[v], writer[v], disk)
    BY <1>1, <1>2 DEF SessionFits, CopiesKept
  <2>2. Live(v)
    BY <1>2 DEF Promised, Inv, Custody, Keeps, KeptBy, Opened
  <2>3. disk[i].owner = v => disk'[i] = disk[i]
    BY <2>2, RecordStays
  <2> QED
    BY <2>1, <2>3 DEF NewestIs, Arrived
<1>3. ASSUME NEW i \in Ids,
             Forgotten(v, i, ui[v].deferred, queue[v], writer[v], disk)
      PROVE  Forgotten(v, i, ui[v].deferred, queue[v], writer[v], disk')
  BY <1>3, OwnerStays DEF Forgotten
<1>4. ClearsFit(v, ui[v], queue[v], writer[v], cleared[v], disk')
  <2>1. ui[v].call.stage = "answered" /\ Clearing(ui[v].call) => ui[v].call.id \in Ids
    BY <1>1, NoCallType DEF SessionFits, CallFits
  <2>2. cleared[v] \subseteq Ids /\ ClearsFit(v, ui[v], queue[v], writer[v], cleared[v], disk)
    BY <1>1 DEF SessionFits
  <2> QED
    BY <1>3, <2>1, <2>2 DEF ClearsFit
<1>5. CopiesKept(v, tab[v], ui[v], queue[v], writer[v], reports[v], troubled[v], disk')
  BY <1>2 DEF CopiesKept
<1> QED
  BY <1>1, <1>4, <1>5 DEF SessionFits

\* So the invariant is kept when the session that moves fits.
LEMMA MovesKeepFit ==
  ASSUME Inv, SessionsFit, NEW s \in Sessions, NEW docs, NEW u, NEW q, NEW w,
         NEW rep, NEW tr, NEW cl, NEW j,
         Moves(s, docs, u, q, w), Alters(s, j), Notes(s, rep, tr, cl),
         SessionFits(s, docs, u, q, w, rep, tr, cl, disk'),
         session'[s] = "live" \/ cl = {}
  PROVE  SessionsFit'
<1>1. rep \in SUBSET Ids /\ tr \in SUBSET Ids /\ cl \in SUBSET Ids
  BY DEF SessionFits
<1>2. reports' \in Noted /\ troubled' \in Noted /\ cleared' \in Noted
  BY <1>1 DEF SessionsFit, Notes, Noted
<1>3. ASSUME NEW v \in Sessions
      PROVE  /\ SessionFits(v, tab'[v], ui'[v], queue'[v], writer'[v], reports'[v],
                            troubled'[v], cleared'[v], disk')
             /\ session'[v] = "live" \/ cleared'[v] = {}
  <2>1. CASE v = s
    <3>1. /\ tab'[v] = docs /\ ui'[v] = u /\ queue'[v] = q /\ writer'[v] = w
          /\ reports'[v] = rep /\ troubled'[v] = tr /\ cleared'[v] = cl
      BY <2>1 DEF Moves, Notes, SessionsFit, Noted, Inv, Shape
    <3> QED
      BY <2>1, <3>1
  <2>2. CASE v # s
    <3>1. /\ tab'[v] = tab[v] /\ ui'[v] = ui[v] /\ queue'[v] = queue[v]
          /\ writer'[v] = writer[v] /\ reports'[v] = reports[v]
          /\ troubled'[v] = troubled[v] /\ cleared'[v] = cleared[v]
          /\ session'[v] = session[v]
      BY <2>2 DEF Moves, Notes, SessionsFit, Noted, Inv, Shape
    <3>2. SessionFits(v, tab[v], ui[v], queue[v], writer[v], reports[v], troubled[v],
                      cleared[v], disk')
      BY <2>2, OthersFit
    <3>3. Live(v) \/ cleared[v] = {}
      BY DEF SessionsFit
    <3> QED
      BY <3>1, <3>2, <3>3 DEF Live
  <2> QED
    BY <2>1, <2>2
<1> QED
  BY <1>2, <1>3 DEF SessionsFit, Live

-----------------------------------------------------------------------------
(* Calls and commands *)

\* What a call asks of the writer.
LEMMA RequestKinds ==
  ASSUME NEW call \in Call
  PROVE  /\ Clearing(call) <=> call.why \notin {"restore", "exit", "retention"}
         /\ call.why = "restore" <=> Request(call).kind = "claim"
         /\ call.why = "exit" <=> Request(call).kind = "flush"
         /\ call.why = "retention" <=> Request(call).kind = "retention"
         /\ Request(call).kind # "upsert" /\ Request(call).id = call.id /\ Request(call).awaited
<1>1. Request(call).kind =
        CASE call.why = "restore" -> "claim"
          [] call.why = "exit" -> "flush"
          [] call.why = "retention" -> "retention"
          [] OTHER -> "remove"
  BY DEF Request
<1>2. Request(call).id = call.id /\ Request(call).awaited
  BY DEF Request
<1> QED
  BY <1>1, <1>2 DEF Clearing

\* The call changes its stage and result, not what it is for.
SameCall(c, d) == c.why = d.why /\ c.id = d.id /\ c.tab = d.tab /\ (c = NoCall <=> d = NoCall)

LEMMA SameRequest ==
  ASSUME NEW c \in Call, NEW d \in Call, SameCall(c, d)
  PROVE  /\ Request(c).kind = Request(d).kind /\ (Clearing(c) <=> Clearing(d))
         /\ \A i : Clears(c, i) <=> Clears(d, i)
<1>1. Clearing(c) <=> Clearing(d)
  BY RequestKinds DEF SameCall
<1>2. Request(c).kind = Request(d).kind
  BY DEF SameCall, Request
<1> QED
  BY <1>1, <1>2 DEF SameCall, Clears

\* What is known of a session.
LEMMA FitParts ==
  ASSUME SessionsFit, NEW s \in Sessions
  PROVE  /\ DocsFit(tab[s]) /\ CallFits(tab[s], ui[s])
         /\ QueueFits(ui[s], queue[s], troubled[s])
         /\ reports[s] \subseteq Ids /\ troubled[s] \subseteq Ids /\ cleared[s] \subseteq Ids
         /\ CopiesKept(s, tab[s], ui[s], queue[s], writer[s], reports[s], troubled[s], disk)
         /\ ClearsFit(s, ui[s], queue[s], writer[s], cleared[s], disk)
  BY DEF SessionsFit, SessionFits

\* Before a call is sent nobody waits, and the Removes that are left belong to
\* calls that returned an error.
LEMMA QuietQueue ==
  ASSUME Inv, SessionsFit, NEW s \in Sessions, ui[s].call.stage = "send"
  PROVE  \A n \in DOMAIN queue[s] :
           /\ ~queue[s][n].awaited
           /\ queue[s][n].kind = "upsert" => queue[s][n].id \in Ids /\ queue[s][n].text # NoText
           /\ queue[s][n].kind = "remove" => queue[s][n].id \in troubled[s]
  BY NobodyWaits, FitParts DEF QueueFits, CommandFits

\* So it fits whatever is called next.
LEMMA QuietQueueFits ==
  ASSUME Inv, SessionsFit, NEW s \in Sessions, ui[s].call.stage = "send", NEW u
  PROVE  QueueFits(u, queue[s], troubled[s])
<1>1. Len(queue[s]) <= QueueSize
  BY FitParts DEF QueueFits
<1> QED
  BY <1>1, QuietQueue DEF QueueFits, CommandFits

-----------------------------------------------------------------------------
(* What the user does *)

\* Documents that keep their ids and fingerprints or lose them.
Follows(docs, before) ==
  \A t \in Tabs : docs[t].id = NoId \/ (docs[t].id = before[t].id /\ docs[t].mark = before[t].mark)

\* A dispatch begins when the last one is over, and makes no copies.
LEMMA DispatchKeepsFit ==
  ASSUME Inv, SessionsFit, NEW s \in Sessions, NEW phase \in {"sync", "quit"}, NEW call \in Call,
         call.stage = "send", ~call.ok, Dispatch(s, phase, call),
         NEW docs \in [Tabs -> Document], tab' = [tab EXCEPT ![s] = docs],
         DocsFit(docs), Follows(docs, tab[s]),
         CallFits(docs, [ui[s] EXCEPT !.phase = phase, !.tried = {}, !.call = call]),
         call.why = "restore" => call.id \in ui[s].listed
  PROVE  SessionsFit'
<1> DEFINE u == [ui[s] EXCEPT !.phase = phase, !.tried = {}, !.call = call]
<1>0. Shape /\ Live(s) /\ ui[s].call = NoCall /\ ui[s].phase = "idle"
  BY DEF Inv, Dispatch, Ready
<1>1. /\ u \in Thread /\ u.call = call /\ u.deferred = ui[s].deferred
      /\ u.listed = ui[s].listed
  BY <1>0, Parts DEF Thread
<1>2. CallFits(docs, u)
  OBVIOUS
<1>3. /\ queue' = queue /\ writer' = writer /\ reports' = reports /\ session' = session
      /\ troubled' = troubled /\ cleared' = cleared
      /\ minted' = minted /\ disk' = disk /\ ui' = [ui EXCEPT ![s] = u]
  BY DEF Dispatch
<1> HIDE DEF u
<1>4. ui[s].call.stage = "send" /\ Corresponds(u, queue[s], writer[s])
  BY <1>0, <1>1, NobodyWaits, NoCallType DEF Corresponds
<1>5. Moves(s, docs, u, queue[s], writer[s])
  BY <1>0, <1>1, <1>3, <1>4, Parts DEF Moves, Shape
<1>6. Notes(s, reports[s], troubled[s], cleared[s])
  BY <1>3 DEF Notes, SessionsFit, Noted
<1>7. Alters(s, NoId)
  BY <1>0, <1>3 DEF Alters, Shape
<1>8. CopiesKept(s, docs, u, queue[s], writer[s], reports[s], troubled[s], disk)
  <2> SUFFICES ASSUME NEW t \in Tabs, NEW i \in Ids,
                      Promised(docs[t], i, u, reports[s], troubled[s])
               PROVE  NewestIs(s, i, docs[t].mark, u.deferred, queue[s], writer[s], disk)
    BY DEF CopiesKept
  <2>1. tab[s][t].id = i /\ docs[t].mark = tab[s][t].mark
    BY DEF Promised, Follows
  <2>2. Promised(tab[s][t], i, ui[s], reports[s], troubled[s]) /\ ~Reloaded(tab[s], ui[s], t)
    BY <1>0, <2>1 DEF Promised, Clears, Reloaded
  <2> QED
    BY <1>1, <2>1, <2>2, FitParts DEF CopiesKept
<1>9. ClearsFit(s, u, queue[s], writer[s], cleared[s], disk)
  <2>1. ~writer[s].flushing
    BY <1>4, NobodyWaits
  <2>2. ClearsFit(s, ui[s], queue[s], writer[s], cleared[s], disk)
    BY FitParts
  <2> QED
    BY <1>1, <2>1, <2>2 DEF ClearsFit
<1>10. SessionFits(s, docs, u, queue[s], writer[s], reports[s], troubled[s], cleared[s], disk')
  BY <1>2, <1>3, <1>4, <1>8, <1>9, QuietQueueFits, FitParts DEF SessionFits
<1>11. session'[s] = "live"
  BY <1>0, <1>3 DEF Live
<1> QED
  BY <1>5, <1>6, <1>7, <1>10, <1>11, MovesKeepFit

\* Changing one document, its id and fingerprint kept or forgotten.
LEMMA SetTabFits ==
  ASSUME Inv, SessionsFit, NEW s \in Sessions, NEW t \in Tabs, NEW d \in Document,
         d.id = NoId \/ (d.id = tab[s][t].id /\ d.mark = tab[s][t].mark),
         d.id = NoId => d.mark = NoText, d.open => d.text # NoText
  PROVE  LET docs == [tab[s] EXCEPT ![t] = d]
         IN  /\ docs \in [Tabs -> Document] /\ docs[t] = d
             /\ \A v \in Tabs : v # t => docs[v] = tab[s][v]
             /\ DocsFit(docs) /\ Follows(docs, tab[s])
             /\ SetTab(s, t, d) => tab' = [tab EXCEPT ![s] = docs]
<1> DEFINE docs == [tab[s] EXCEPT ![t] = d]
<1>1. tab[s] \in [Tabs -> Document] /\ DocsFit(tab[s]) /\ Shape
  BY Parts, FitParts DEF Inv
<1>2. docs \in [Tabs -> Document] /\ docs[t] = d /\ \A v \in Tabs : v # t => docs[v] = tab[s][v]
  BY <1>1
<1>3. SetTab(s, t, d) => tab' = [tab EXCEPT ![s] = docs]
  BY <1>1 DEF SetTab, Shape
<1> HIDE DEF docs
<1>4. DocsFit(docs)
  BY <1>1, <1>2 DEF DocsFit
<1>5. Follows(docs, tab[s])
  BY <1>2 DEF Follows
<1> QED
  BY <1>2, <1>3, <1>4, <1>5 DEF docs

\* What a new call is for.
LEMMA CallingFields ==
  ASSUME NEW why \in {"resolved", "saved", "closed", "reloaded", "discarded",
                      "quitting", "restore", "exit", "retention"},
         NEW i \in Ids \cup {NoId}, NEW t \in Tabs
  PROVE  /\ Calling(why, i, t).why = why /\ Calling(why, i, t).id = i
         /\ Calling(why, i, t).tab = t /\ Calling(why, i, t) # NoCall
<1>1. ASSUME NEW c \in Call
      PROVE  LET d == [c EXCEPT !.why = why, !.id = i, !.tab = t]
             IN  d.why = why /\ d.id = i /\ d.tab = t
  BY DEF Call
<1>2. /\ Calling(why, i, t).why = why /\ Calling(why, i, t).id = i
      /\ Calling(why, i, t).tab = t
  BY <1>1, NoCallType DEF Calling
<1> QED
  BY <1>2, NoCallType

\* No call fits any documents.
LEMMA NoCallFits ==
  ASSUME NEW docs, NEW u, u.call = NoCall
  PROVE  CallFits(docs, u)
  BY NoCallType DEF CallFits

\* The thread of a dispatch that begins.
LEMMA DispatchThread ==
  ASSUME Shape, NEW s \in Sessions, NEW phase \in {"sync", "quit"}, NEW call \in Call
  PROVE  LET u == [ui[s] EXCEPT !.phase = phase, !.tried = {}, !.call = call]
         IN  u.call = call /\ u.phase = phase /\ u.tried = {}
<1>1. ui[s] \in Thread
  BY Parts
<1> QED
  BY <1>1 DEF Thread

\* A dispatch that changes one document and calls nobody.
LEMMA PlainDispatchKeepsFit ==
  ASSUME Inv, SessionsFit, NEW s \in Sessions, NEW phase \in {"sync", "quit"},
         Dispatch(s, phase, NoCall), NEW t \in Tabs, NEW d \in Document,
         d.id = NoId \/ (d.id = tab[s][t].id /\ d.mark = tab[s][t].mark),
         d.id = NoId => d.mark = NoText, d.open => d.text # NoText, SetTab(s, t, d)
  PROVE  SessionsFit'
<1> DEFINE u    == [ui[s] EXCEPT !.phase = phase, !.tried = {}, !.call = NoCall]
           docs == [tab[s] EXCEPT ![t] = d]
<1>1. NoCall \in Call /\ NoCall.stage = "send" /\ ~NoCall.ok /\ NoCall.why # "restore"
  BY NoCallType
<1>2. u.call = NoCall
  BY <1>1, DispatchThread DEF Inv
<1>3. CallFits(docs, u)
  BY <1>2, NoCallFits
<1>4. /\ docs \in [Tabs -> Document] /\ DocsFit(docs) /\ Follows(docs, tab[s])
      /\ tab' = [tab EXCEPT ![s] = docs]
  BY SetTabFits
<1> QED
  BY <1>1, <1>3, <1>4, DispatchKeepsFit

\* A dispatch that changes a document and clears its copy.
LEMMA ClearingDispatchKeepsFit ==
  ASSUME Inv, SessionsFit, NEW s \in Sessions, NEW why \in {"saved", "closed", "reloaded"},
         NEW t \in Tabs, Dispatch(s, "sync", ClearFor(why, t, tab[s][t])), NEW d \in Document,
         IF why = "closed" THEN d.id = NoId
                           ELSE d.id = tab[s][t].id /\ d.mark = tab[s][t].mark,
         d.id = NoId => d.mark = NoText, d.open => d.text # NoText,
         why = "reloaded" => d.open /\ ~Unsaved(d), SetTab(s, t, d)
  PROVE  SessionsFit'
<1> DEFINE call == ClearFor(why, t, tab[s][t])
           u    == [ui[s] EXCEPT !.phase = "sync", !.tried = {}, !.call = call]
           docs == [tab[s] EXCEPT ![t] = d]
<1>0. Shape /\ tab[s][t] \in Document /\ tab[s][t].id \in Ids \cup {NoId} /\ DocsFit(tab[s])
  BY Parts, FitParts DEF Inv, Document
<1>1. call \in Call /\ call.stage = "send" /\ ~call.ok
  BY <1>0, ClearForType
<1>2. u.call = call /\ u.phase = "sync" /\ u.tried = {}
  <2> HIDE DEF call
  <2> QED
    BY <1>0, <1>1, DispatchThread
<1>3. /\ docs \in [Tabs -> Document] /\ docs[t] = d
      /\ \A v \in Tabs : v # t => docs[v] = tab[s][v]
      /\ DocsFit(docs) /\ Follows(docs, tab[s])
      /\ tab' = [tab EXCEPT ![s] = docs]
  BY SetTabFits
<1>4. \/ call = NoCall
      \/ /\ call # NoCall /\ call.why = why /\ call.id = tab[s][t].id /\ call.tab = t
         /\ call.id \in Ids
  BY <1>0, CallingFields DEF ClearFor
<1> HIDE DEF call, u, docs
<1>5. CallFits(docs, u)
  <2>1. CASE call = NoCall
    BY <1>2, <2>1, NoCallFits
  <2>2. CASE call # NoCall
    <3>1. call.why = why /\ call.id = tab[s][t].id /\ call.tab = t /\ call.id \in Ids
      BY <1>4, <2>2
    <3>2. why = "closed" => \A v \in Tabs : docs[v].id # call.id
      BY <1>0, <1>3, <3>1, RecoveryAssumption DEF DocsFit
    <3>3. why = "reloaded" => Reloaded(docs, u, t)
      BY <1>2, <1>3 DEF Reloaded
    <3> QED
      BY <1>2, <1>3, <3>1, <3>2, <3>3 DEF CallFits
  <2> QED
    BY <2>1, <2>2
<1>6. call.why # "restore"
  BY <1>4, NoCallType
<1>7. Dispatch(s, "sync", call)
  BY DEF call
<1>8. CallFits(docs, [ui[s] EXCEPT !.phase = "sync", !.tried = {}, !.call = call])
  BY <1>5 DEF u
<1> QED
  BY <1>1, <1>3, <1>6, <1>7, <1>8, DispatchKeepsFit

\* A dispatch that leaves the documents alone.
LEMMA AloneDispatchKeepsFit ==
  ASSUME Inv, SessionsFit, NEW s \in Sessions, NEW phase \in {"sync", "quit"}, NEW call \in Call,
         call.stage = "send", ~call.ok, Dispatch(s, phase, call), UNCHANGED tab,
         call.why = "restore" => call.id \in ui[s].listed,
         CallFits(tab[s], [ui[s] EXCEPT !.phase = phase, !.tried = {}, !.call = call])
  PROVE  SessionsFit'
<1>1. tab[s] \in [Tabs -> Document] /\ tab' = [tab EXCEPT ![s] = tab[s]] /\ DocsFit(tab[s])
  BY Parts, FitParts DEF Inv, Shape
<1>2. Follows(tab[s], tab[s])
  BY DEF Follows
<1> QED
  BY <1>1, <1>2, DispatchKeepsFit

\* Everything the user does but quitting with nothing unsaved.
LEMMA UserStepKeepsFit ==
  ASSUME Inv, SessionsFit, NEW s \in Sessions, UserStep(s), ~Quit(s)
  PROVE  SessionsFit'
<1>0. Shape /\ tab[s] \in [Tabs -> Document] /\ DocsFit(tab[s])
  BY Parts, FitParts DEF Inv
<1>1. ASSUME NEW t \in Tabs, NEW x \in Texts, OpenDocument(s, t, x) PROVE SessionsFit'
  <2> DEFINE d == [Closed EXCEPT !.open = TRUE, !.text = x, !.saved = x]
  <2>1. d \in Document /\ d.id = NoId /\ d.mark = NoText /\ d.text = x
    BY IdleTypes DEF Closed, Document, MaybeText
  <2>2. SetTab(s, t, d) /\ Dispatch(s, "sync", NoCall) /\ x # NoText
    BY <1>1, RecoveryAssumption DEF OpenDocument
  <2> HIDE DEF d
  <2> QED
    BY <2>1, <2>2, PlainDispatchKeepsFit
<1>2. ASSUME NEW t \in Tabs, NEW x \in Texts, Edit(s, t, x) PROVE SessionsFit'
  <2> DEFINE d == [tab[s][t] EXCEPT !.text = x]
  <2>1. d \in Document /\ d.id = tab[s][t].id /\ d.mark = tab[s][t].mark /\ d.text = x
    BY <1>0 DEF Document, MaybeText
  <2>2. SetTab(s, t, d) /\ Dispatch(s, "sync", NoCall) /\ x # NoText
    BY <1>2, RecoveryAssumption DEF Edit
  <2>3. d.id = NoId => d.mark = NoText
    BY <1>0, <2>1 DEF DocsFit
  <2> HIDE DEF d
  <2> QED
    BY <2>1, <2>2, <2>3, PlainDispatchKeepsFit
<1>3. ASSUME NEW t \in Tabs, CloseSaved(s, t) PROVE SessionsFit'
  <2>1. Closed \in Document /\ Closed.id = NoId /\ Closed.mark = NoText /\ ~Closed.open
    BY IdleTypes DEF Closed
  <2>2. SetTab(s, t, Closed) /\ Dispatch(s, "sync", NoCall)
    BY <1>3 DEF CloseSaved
  <2> QED
    BY <2>1, <2>2, PlainDispatchKeepsFit
<1>4. ASSUME NEW t \in Tabs, Save(s, t) PROVE SessionsFit'
  <2> DEFINE d == [tab[s][t] EXCEPT !.saved = tab[s][t].text]
  <2>1. /\ d \in Document /\ d.id = tab[s][t].id /\ d.mark = tab[s][t].mark
        /\ d.text = tab[s][t].text /\ d.open = tab[s][t].open
    BY <1>0 DEF Document
  <2>2. SetTab(s, t, d) /\ Dispatch(s, "sync", ClearFor("saved", t, tab[s][t]))
    BY <1>4 DEF Save
  <2> HIDE DEF d
  <2>3. (d.id = NoId => d.mark = NoText) /\ (d.open => d.text # NoText)
    BY <1>0, <2>1 DEF DocsFit
  <2> QED
    BY <2>1, <2>2, <2>3, ClearingDispatchKeepsFit
<1>5. ASSUME NEW t \in Tabs, DiscardAndClose(s, t) PROVE SessionsFit'
  <2>1. Closed \in Document /\ Closed.id = NoId /\ Closed.mark = NoText /\ ~Closed.open
    BY IdleTypes DEF Closed
  <2>2. SetTab(s, t, Closed) /\ Dispatch(s, "sync", ClearFor("closed", t, tab[s][t]))
    BY <1>5 DEF DiscardAndClose
  <2> QED
    BY <2>1, <2>2, ClearingDispatchKeepsFit
<1>6. ASSUME NEW t \in Tabs, DiscardAndReload(s, t) PROVE SessionsFit'
  <2> DEFINE d == [tab[s][t] EXCEPT !.text = tab[s][t].saved]
  <2>1. /\ d \in Document /\ d.id = tab[s][t].id /\ d.mark = tab[s][t].mark
        /\ d.text = tab[s][t].saved /\ d.open = tab[s][t].open
        /\ d.saved = tab[s][t].saved /\ d.candidate = tab[s][t].candidate
    BY <1>0 DEF Document
  <2>2. /\ SetTab(s, t, d) /\ Dispatch(s, "sync", ClearFor("reloaded", t, tab[s][t]))
        /\ tab[s][t].open /\ ~tab[s][t].candidate /\ tab[s][t].saved # NoText
    BY <1>6 DEF DiscardAndReload, Unsaved
  <2> HIDE DEF d
  <2>3. d.id = NoId => d.mark = NoText
    BY <1>0, <2>1 DEF DocsFit
  <2>4. d.open /\ ~Unsaved(d) /\ d.text # NoText
    BY <2>1, <2>2 DEF Unsaved
  <2> QED
    BY <2>1, <2>2, <2>3, <2>4, ClearingDispatchKeepsFit
<1>7. ASSUME NEW i \in Ids, DiscardCopy(s, i) PROVE SessionsFit'
  <2> DEFINE call == Calling("discarded", i, NoCall.tab)
             u    == [ui[s] EXCEPT !.phase = "sync", !.tried = {}, !.call = call]
  <2>1. /\ call \in Call /\ call.stage = "send" /\ ~call.ok
        /\ call.why = "discarded" /\ call.id = i
    BY NoCallType, CallingType, CallingFields
  <2>2. Dispatch(s, "sync", call) /\ UNCHANGED tab
    BY <1>7 DEF DiscardCopy
  <2> HIDE DEF call
  <2>3. u.call = call
    BY <1>0, <2>1, DispatchThread
  <2>4. CallFits(tab[s], u)
    BY <2>1, <2>3 DEF CallFits
  <2> QED
    BY <2>1, <2>2, <2>4, AloneDispatchKeepsFit
<1>8. ASSUME NEW i \in Ids, NEW t \in Tabs, Restore(s, i, t) PROVE SessionsFit'
  <2> DEFINE call == Calling("restore", i, t)
             u    == [ui[s] EXCEPT !.phase = "sync", !.tried = {}, !.call = call]
  <2>1. /\ call \in Call /\ call.stage = "send" /\ ~call.ok
        /\ call.why = "restore" /\ call.id = i
    BY CallingType, CallingFields
  <2>2. /\ Dispatch(s, "sync", call) /\ UNCHANGED tab
        /\ i \in ui[s].listed /\ \A v \in Tabs : tab[s][v].id # i
    BY <1>8 DEF Restore
  <2> HIDE DEF call
  <2>3. u.call = call
    BY <1>0, <2>1, DispatchThread
  <2>4. CallFits(tab[s], u)
    BY <2>1, <2>2, <2>3 DEF CallFits
  <2> QED
    BY <2>1, <2>2, <2>4, AloneDispatchKeepsFit
<1>9. CASE SetRetention(s)
  <2> DEFINE call == Calling("retention", NoId, NoCall.tab)
             u    == [ui[s] EXCEPT !.phase = "sync", !.tried = {}, !.call = call]
  <2>1. call \in Call /\ call.stage = "send" /\ ~call.ok /\ call.why = "retention"
    BY NoCallType, CallingType, CallingFields
  <2>2. Dispatch(s, "sync", call) /\ UNCHANGED tab
    BY <1>9 DEF SetRetention
  <2> HIDE DEF call
  <2>3. u.call = call /\ ~Clearing(call)
    BY <1>0, <2>1, DispatchThread, RequestKinds
  <2>4. CallFits(tab[s], u)
    BY <2>1, <2>3 DEF CallFits
  <2> QED
    BY <2>1, <2>2, <2>4, AloneDispatchKeepsFit
<1>10. CASE QuitDiscarding(s)
  <2> DEFINE u == [ui[s] EXCEPT !.phase = "quit", !.tried = {}, !.call = NoCall]
  <2>1. NoCall \in Call /\ NoCall.stage = "send" /\ ~NoCall.ok /\ NoCall.why # "restore"
    BY NoCallType
  <2>2. Dispatch(s, "quit", NoCall) /\ UNCHANGED tab
    BY <1>10 DEF QuitDiscarding
  <2>3. u.call = NoCall
    BY <1>0, <2>1, DispatchThread
  <2>4. CallFits(tab[s], u)
    BY <2>3, NoCallFits
  <2> QED
    BY <2>1, <2>2, <2>4, AloneDispatchKeepsFit
<1> QED
  BY <1>1, <1>2, <1>3, <1>4, <1>5, <1>6, <1>7, <1>8, <1>9, <1>10 DEF UserStep

-----------------------------------------------------------------------------
(* Sending the deferred copies again *)

\* Appending a copy or a command that is none.
LEMMA AppendMine ==
  ASSUME NEW q \in Seq(Command), NEW c \in Command, NEW i
  PROVE  /\ Len(Append(q, c)) = Len(q) + 1 /\ Len(q) \in Nat
         /\ \A n \in DOMAIN q : n <= Len(q)
         /\ Append(q, c)[Len(q) + 1] = c /\ Len(q) + 1 \in DOMAIN Append(q, c)
         /\ \A n \in DOMAIN Append(q, c) :
              \/ n \in DOMAIN q /\ n <= Len(q) /\ Append(q, c)[n] = q[n]
              \/ n = Len(q) + 1 /\ Append(q, c)[n] = c
         /\ \A n \in DOMAIN q : n \in DOMAIN Append(q, c) /\ Append(q, c)[n] = q[n]
         /\ (c.kind \notin {"upsert", "remove"} \/ c.id # i) => Mine(Append(q, c), i) = Mine(q, i)
<1> DEFINE longer == Append(q, c)
<1>1. /\ longer \in Seq(Command) /\ Len(longer) = Len(q) + 1
      /\ \A n \in 1..Len(q) : longer[n] = q[n]
      /\ longer[Len(q) + 1] = c
  BY AppendProperties
<1>2. Len(q) \in Nat /\ DOMAIN q = 1..Len(q) /\ DOMAIN longer = 1..(Len(q) + 1)
  BY <1>1, LenProperties
<1> HIDE DEF longer
<1>3. /\ Len(longer) = Len(q) + 1 /\ Len(q) \in Nat
      /\ \A n \in DOMAIN q : n <= Len(q)
      /\ longer[Len(q) + 1] = c /\ Len(q) + 1 \in DOMAIN longer
      /\ \A n \in DOMAIN longer :
           \/ n \in DOMAIN q /\ n <= Len(q) /\ longer[n] = q[n]
           \/ n = Len(q) + 1 /\ longer[n] = c
      /\ \A n \in DOMAIN q : n \in DOMAIN longer /\ longer[n] = q[n]
  BY <1>1, <1>2
<1>4. (c.kind \notin {"upsert", "remove"} \/ c.id # i) => Mine(longer, i) = Mine(q, i)
  BY <1>3 DEF Mine
<1> QED
  BY <1>3, <1>4 DEF longer

\* What retry queues: the deferred copies it moved, each once, and last.
Requeued(before, q, copies, moved) ==
  /\ Len(q) <= QueueSize
  /\ \A n \in DOMAIN q :
       \/ n \in DOMAIN before /\ q[n] = before[n]
       \/ /\ q[n].kind = "upsert" /\ q[n].id \in moved /\ ~q[n].awaited
          /\ q[n].text = copies[q[n].id]
  /\ \A n \in DOMAIN before : n \in DOMAIN q /\ q[n] = before[n]
  /\ \A i \in moved : \E n \in Mine(q, i) :
       q[n].text = copies[i] /\ \A m \in Mine(q, i) : m <= n

\* The number of copies that are moved is bounded by the room in the queue.
LEMMA RetryFitsQueue ==
  ASSUME Shape, NEW s \in Sessions, NEW moved \in SUBSET Holds(ui[s].deferred), Retry(s, moved),
         Len(queue[s]) <= QueueSize
  PROVE  /\ Cardinality(moved) \in Nat /\ IsFiniteSet(moved)
         /\ Len(queue[s]) \in Nat /\ Len(queue[s]) + Cardinality(moved) <= QueueSize
<1>1. IsFiniteSet(moved) /\ IsFiniteSet(Holds(ui[s].deferred))
  BY RecoveryAssumption, FS_Subset DEF Holds
<1>2. Cardinality(moved) \in Nat /\ Cardinality(Holds(ui[s].deferred)) \in Nat
  BY <1>1, FS_CardinalityType
<1>3. Len(queue[s]) \in Nat /\ QueueSize \in Nat
  BY Parts, LenProperties, RecoveryAssumption
<1>4. Cardinality(moved) = IF Cardinality(Holds(ui[s].deferred)) <= QueueSize - Len(queue[s])
                           THEN Cardinality(Holds(ui[s].deferred))
                           ELSE QueueSize - Len(queue[s])
  BY DEF Retry
<1> DEFINE k == Cardinality(moved)
           h == Cardinality(Holds(ui[s].deferred))
           l == Len(queue[s])
<1>5. k = (IF h <= QueueSize - l THEN h ELSE QueueSize - l) /\ k \in Nat /\ h \in Nat /\ l \in Nat
  BY <1>2, <1>3, <1>4
<1> HIDE DEF k, h, l
<1>6. l + k <= QueueSize
  BY <1>3, <1>5
<1> QED
  BY <1>1, <1>2, <1>3, <1>6 DEF k, l

LEMMA RetryRequeues ==
  ASSUME Shape, NEW s \in Sessions, NEW moved \in SUBSET Holds(ui[s].deferred),
         Retry(s, moved), Len(queue[s]) <= QueueSize
  PROVE  \E q \in Seq(Command) :
           /\ queue' = [queue EXCEPT ![s] = q]
           /\ Requeued(queue[s], q, ui[s].deferred, moved)
<1> DEFINE d == ui[s].deferred
           k == Cardinality(moved)
           l == Len(queue[s])
<1>1. moved \subseteq Ids /\ IsFiniteSet(moved) /\ k \in Nat /\ l \in Nat /\ l + k <= QueueSize
  BY RetryFitsQueue DEF Holds
<1>2. PICK sent \in Arrangements(moved) :
        queue' = [queue EXCEPT ![s] =
                    queue[s] \o [n \in DOMAIN sent |-> Copy(sent[n], d[sent[n]])]]
  BY DEF Retry
<1> DEFINE more == [n \in DOMAIN sent |-> Copy(sent[n], d[sent[n]])]
           q == queue[s] \o more
<1>3. sent \in [1..k -> moved] /\ \A i \in moved : \E n \in 1..k : sent[n] = i
  BY <1>2 DEF Arrangements
<1>4. \A n, m \in 1..k : sent[n] = sent[m] => n = m
  <2>1. IsFiniteSet(1..k) /\ Cardinality(1..k) = k
    BY <1>1, FS_Interval
  <2>2. sent \in Surjection(1..k, moved)
    BY <1>3 DEF Surjection
  <2>3. sent \in Injection(1..k, moved)
    BY <2>1, <2>2, FS_SurjSameCardinalityImpliesInj
  <2> QED
    BY <1>3, <2>3 DEF Injection, IsInjective
<1>5. ASSUME NEW n \in 1..k
      PROVE  /\ more[n] \in Command /\ more[n].kind = "upsert" /\ more[n].id = sent[n]
             /\ ~more[n].awaited /\ more[n].text = d[sent[n]]
  <2>1. sent[n] \in moved /\ d[sent[n]] \in MaybeText
    BY <1>1, <1>3, Parts DEF Copies
  <2>2. more[n] = Copy(sent[n], d[sent[n]])
    BY <1>3
  <2> HIDE DEF more
  <2> QED
    BY <1>1, <2>1, <2>2 DEF Copy, Command
<1>6. more \in Seq(Command) /\ Len(more) = k
  <2>1. DOMAIN more = 1..k
    BY <1>3
  <2>2. more = [n \in 1..k |-> more[n]]
    BY <2>1
  <2> HIDE DEF more
  <2>3. more \in Seq(Command)
    BY <1>1, <1>5, <2>2, IsASeq
  <2> QED
    BY <1>1, <2>1, <2>3, LenProperties
<1>7. queue[s] \in Seq(Command) /\ DOMAIN queue[s] = 1..l
  BY Parts, LenProperties
<1> HIDE DEF more
<1>8. /\ q \in Seq(Command) /\ Len(q) = l + k /\ DOMAIN q = 1..(l + k)
      /\ \A n \in 1..(l + k) : q[n] = IF n <= l THEN queue[s][n] ELSE more[n - l]
  <2>1. /\ q \in Seq(Command) /\ Len(q) = Len(queue[s]) + Len(more)
        /\ \A n \in 1..(Len(queue[s]) + Len(more)) :
             q[n] = IF n <= Len(queue[s]) THEN queue[s][n] ELSE more[n - Len(queue[s])]
    BY <1>6, <1>7, ConcatProperties
  <2> HIDE DEF q
  <2>2. DOMAIN q = 1..Len(q)
    BY <2>1, LenProperties
  <2>3. Len(more) = k
    BY <1>6
  <2> QED
    BY <2>1, <2>2, <2>3
<1>9. queue' = [queue EXCEPT ![s] = q]
  BY <1>2 DEF more
<1> HIDE DEF q, l, k, d
<1>10. \A n \in DOMAIN queue[s] : n \in DOMAIN q /\ q[n] = queue[s][n]
  BY <1>1, <1>7, <1>8
<1>11. ASSUME NEW n \in DOMAIN q
       PROVE  \/ n \in DOMAIN queue[s] /\ n <= l /\ q[n] = queue[s][n]
              \/ n - l \in 1..k /\ n > l /\ q[n] = more[n - l]
  BY <1>1, <1>7, <1>8
<1>12. ASSUME NEW i \in moved
       PROVE  \E n \in Mine(q, i) : q[n].text = d[i] /\ \A m \in Mine(q, i) : m <= n
  <2>1. PICK n \in 1..k : sent[n] = i
    BY <1>3
  <2>2. l + n \in DOMAIN q /\ ~(l + n <= l) /\ (l + n) - l = n
    BY <1>1, <1>8
  <2>3. q[l + n] = more[n]
    BY <1>1, <1>8, <2>2
  <2>4. l + n \in Mine(q, i) /\ q[l + n].text = d[i]
    BY <1>5, <2>1, <2>2, <2>3 DEF Mine
  <2>5. ASSUME NEW m \in Mine(q, i) PROVE m <= l + n
    <3>1. m \in DOMAIN q /\ m \in Int /\ q[m].id = i
      BY <1>8 DEF Mine
    <3>2. CASE m <= l
      BY <1>1, <3>1, <3>2
    <3>3. CASE ~(m <= l)
      <4>1. m - l \in 1..k /\ q[m] = more[m - l]
        BY <1>1, <1>11, <3>1, <3>3
      <4>2. m - l = n
        BY <1>4, <1>5, <2>1, <3>1, <4>1
      <4> QED
        BY <1>1, <3>1, <4>2
    <3> QED
      BY <3>2, <3>3
  <2> QED
    BY <2>4, <2>5
<1>13. ASSUME NEW n \in DOMAIN q
       PROVE  \/ n \in DOMAIN queue[s] /\ q[n] = queue[s][n]
              \/ /\ q[n].kind = "upsert" /\ q[n].id \in moved /\ ~q[n].awaited
                 /\ q[n].text = d[q[n].id]
  BY <1>3, <1>5, <1>11
<1>14. Requeued(queue[s], q, d, moved)
  BY <1>1, <1>8, <1>10, <1>12, <1>13 DEF Requeued
<1> QED
  BY <1>8, <1>9, <1>14 DEF d

\* Sending a deferred copy again leaves the newest copy the newest, and revives
\* none that was forgotten.
LEMMA RequeuedKeeps ==
  ASSUME NEW copies \in Copies, NEW moved \in SUBSET Holds(copies), NEW before \in Seq(Command),
         NEW q \in Seq(Command), Requeued(before, q, copies, moved),
         NEW s, NEW i \in Ids, NEW w, NEW dir
  PROVE  /\ \A x : NewestIs(s, i, x, copies, before, w, dir)
                     => NewestIs(s, i, x, Kept(copies, moved), q, w, dir)
         /\ Forgotten(s, i, copies, before, w, dir)
              => Forgotten(s, i, Kept(copies, moved), q, w, dir)
<1> DEFINE kept == Kept(copies, moved)
<1>1. /\ Holds(kept) \subseteq Holds(copies)
      /\ kept[i] = IF i \in moved THEN NoText ELSE copies[i]
  BY KeptType DEF Kept
<1> HIDE DEF kept
<1>2. CASE i \in moved
  <2>1. copies[i] # NoText /\ kept[i] = NoText
    BY <1>1, <1>2 DEF Holds
  <2>2. \E n \in Mine(q, i) : q[n].text = copies[i] /\ \A m \in Mine(q, i) : m <= n
    BY <1>2 DEF Requeued
  <2>3. ~Forgotten(s, i, copies, before, w, dir)
    BY <2>1 DEF Forgotten, Holds
  <2> QED
    BY <2>1, <2>2, <2>3 DEF NewestIs, Ahead, kept
<1>3. CASE i \notin moved
  <2>1. kept[i] = copies[i]
    BY <1>1, <1>3
  <2>2. ASSUME NEW n \in DOMAIN q, q[n].id = i PROVE n \in DOMAIN before /\ q[n] = before[n]
    BY <1>3, <2>2 DEF Requeued
  <2>3. \A n \in DOMAIN before : n \in DOMAIN q /\ q[n] = before[n]
    BY DEF Requeued
  <2>4. Mine(q, i) = Mine(before, i) /\ \A n \in Mine(q, i) : q[n] = before[n]
    BY <2>2, <2>3 DEF Mine
  <2>5. i \notin Queued(before) \cup Claims(before) => i \notin Queued(q) \cup Claims(q)
    BY <2>2 DEF Queued, Claims
  <2>6. ASSUME NEW x, NewestIs(s, i, x, copies, before, w, dir)
        PROVE  NewestIs(s, i, x, kept, q, w, dir)
    BY <2>1, <2>4, <2>6 DEF NewestIs, Ahead
  <2>7. Forgotten(s, i, copies, before, w, dir) => Forgotten(s, i, kept, q, w, dir)
    BY <1>1, <2>5 DEF Forgotten
  <2> QED
    BY <2>6, <2>7 DEF kept
<1> QED
  BY <1>2, <1>3

\* The thread u sends the deferred copies again, and calls nobody unless to flush.
Retries(s, moved, u) ==
  /\ Retry(s, moved) /\ ui' = [ui EXCEPT ![s] = u]
  /\ u.call.why \in {"none", "exit"} /\ u.call.stage = "send" /\ ~u.call.ok
  /\ u.call.why = "none" => u.call = NoCall
  /\ u.deferred = Kept(ui[s].deferred, moved) /\ u.listed = ui[s].listed

\* The documents forget the fingerprints of the failures that are drained.
Redraws(s, docs, rep) ==
  /\ tab' = [tab EXCEPT ![s] = docs] /\ reports' = [reports EXCEPT ![s] = rep]
  /\ DocsFit(docs)
  /\ \A t \in Tabs : /\ docs[t].id = tab[s][t].id
                     /\ \/ docs[t].mark = NoText
                        \/ /\ docs[t].mark = tab[s][t].mark
                           /\ tab[s][t].id \in reports[s] => tab[s][t].id \in rep

UnchangedByUi ==
  /\ session' = session /\ disk' = disk /\ writer' = writer /\ minted' = minted
  /\ cleared' = cleared /\ troubled' = troubled

\* Between calls the deferred copies are sent again, and the fingerprints of the
\* failed ones are forgotten with their reports.
LEMMA RetryKeepsFit ==
  ASSUME Inv, SessionsFit, NEW s \in Sessions, Live(s), ui[s].call = NoCall,
         \A t \in Tabs : Reloaded(tab[s], ui[s], t) => tab[s][t].id = NoId,
         NEW moved \in SUBSET Holds(ui[s].deferred), NEW u \in Thread,
         NEW docs \in [Tabs -> Document], NEW rep \in SUBSET Ids,
         Retries(s, moved, u), Redraws(s, docs, rep), UnchangedByUi
  PROVE  SessionsFit'
<1>0. /\ Shape /\ Len(queue[s]) <= QueueSize /\ ui[s].deferred \in Copies
      /\ queue[s] \in Seq(Command)
  BY Parts, FitParts DEF Inv, QueueFits
<1>1. PICK q \in Seq(Command) : /\ queue' = [queue EXCEPT ![s] = q]
                                /\ Requeued(queue[s], q, ui[s].deferred, moved)
  BY <1>0, RetryRequeues DEF Retries
<1>2. ~writer[s].flushing /\ \A n \in DOMAIN queue[s] : ~queue[s][n].awaited
  BY NobodyWaits, NoCallType
<1>3. Corresponds(u, q, writer[s])
  BY <1>1, <1>2 DEF Retries, Corresponds, Requeued
<1>4. Moves(s, docs, u, q, writer[s])
  BY <1>0, <1>1, <1>3, Parts DEF Moves, Shape, Retries, Redraws, UnchangedByUi
<1>5. Alters(s, NoId)
  BY <1>0 DEF Alters, Shape, UnchangedByUi
<1>6. Notes(s, rep, troubled[s], cleared[s])
  BY DEF Notes, SessionsFit, Noted, Redraws, UnchangedByUi
<1>7. u.call = NoCall \/ ~Clearing(u.call)
  <2>1. u.call \in Call
    BY DEF Thread
  <2> QED
    BY <2>1, RequestKinds DEF Retries
<1>8. CallFits(docs, u)
  BY <1>7, NoCallFits DEF CallFits, Retries
<1>9. QueueFits(u, q, troubled[s])
  <2>1. ui[s].call.stage = "send"
    BY NoCallType
  <2>2. ASSUME NEW n \in DOMAIN q PROVE CommandFits(q[n], n, u, q, troubled[s])
    <3>1. CASE n \in DOMAIN queue[s] /\ q[n] = queue[s][n]
      BY <2>1, <3>1, QuietQueue DEF CommandFits
    <3>2. CASE /\ q[n].kind = "upsert" /\ q[n].id \in moved /\ ~q[n].awaited
               /\ q[n].text = ui[s].deferred[q[n].id]
      BY <3>2 DEF CommandFits, Holds
    <3> QED
      BY <1>1, <3>1, <3>2 DEF Requeued
  <2> QED
    BY <1>1, <2>2 DEF QueueFits, Requeued
<1>10. CopiesKept(s, docs, u, q, writer[s], rep, troubled[s], disk')
  <2> SUFFICES ASSUME NEW t \in Tabs, NEW i \in Ids,
                      Promised(docs[t], i, u, rep, troubled[s])
               PROVE  NewestIs(s, i, docs[t].mark, u.deferred, q, writer[s], disk')
    BY DEF CopiesKept
  <2>1. tab[s][t].id = i /\ docs[t].mark = tab[s][t].mark /\ i \notin reports[s]
    BY DEF Promised, Redraws
  <2>2. Promised(tab[s][t], i, ui[s], reports[s], troubled[s]) /\ ~Reloaded(tab[s], ui[s], t)
    BY <2>1 DEF Promised, Clears
  <2>3. NewestIs(s, i, docs[t].mark, ui[s].deferred, queue[s], writer[s], disk)
    BY <2>1, <2>2, FitParts DEF CopiesKept
  <2> QED
    BY <1>0, <1>1, <2>3, RequeuedKeeps DEF Retries, UnchangedByUi
<1>11. ClearsFit(s, u, q, writer[s], cleared[s], disk')
  <2>1. ASSUME NEW i \in cleared[s]
        PROVE  /\ Forgotten(s, i, u.deferred, q, writer[s], disk')
               /\ i \notin u.listed
    <3>1. /\ i \in Ids /\ Forgotten(s, i, ui[s].deferred, queue[s], writer[s], disk)
          /\ i \notin ui[s].listed
      BY <2>1, FitParts DEF ClearsFit
    <3>2. Forgotten(s, i, Kept(ui[s].deferred, moved), q, writer[s], disk)
      BY <1>0, <1>1, <3>1, RequeuedKeeps
    <3> QED
      BY <3>1, <3>2 DEF Retries, UnchangedByUi
  <2> QED
    BY <1>2, <2>1 DEF ClearsFit, Retries
<1>12. SessionFits(s, docs, u, q, writer[s], rep, troubled[s], cleared[s], disk')
  BY <1>8, <1>9, <1>10, <1>11, FitParts DEF SessionFits, Redraws
<1>13. session'[s] = "live"
  BY DEF Live, UnchangedByUi
<1> QED
  BY <1>4, <1>5, <1>6, <1>12, <1>13, MovesKeepFit

\* Quitting with nothing unsaved: retry, then flush.
LEMMA QuitKeepsFit ==
  ASSUME Inv, SessionsFit, NEW s \in Sessions, Quit(s)
  PROVE  SessionsFit'
<1>0. Shape /\ Live(s) /\ ui[s].call = NoCall /\ ui[s].phase = "idle"
  BY DEF Inv, Quit, Ready
<1>1. PICK moved \in SUBSET Holds(ui[s].deferred), call \in {NoCall, Calling("exit", NoId, NoCall.tab)} :
        /\ Retry(s, moved)
        /\ ui' = [ui EXCEPT ![s] = [ui[s] EXCEPT !.phase = "sync", !.tried = {},
                   !.deferred = Kept(ui[s].deferred, moved), !.call = call]]
  BY <1>0 DEF Quit
<1> DEFINE u == [ui[s] EXCEPT !.phase = "sync", !.tried = {},
                   !.deferred = Kept(ui[s].deferred, moved), !.call = call]
<1>2. call \in Call /\ call.stage = "send" /\ ~call.ok
  BY <1>1, NoCallType, CallingType
<1>3. call.why \in {"none", "exit"} /\ (call.why = "none" => call = NoCall)
  BY <1>1, NoCallType, CallingFields
<1>4. Kept(ui[s].deferred, moved) \in Copies
  BY <1>0, Parts, KeptType
<1>5. /\ u \in Thread /\ u.call = call /\ u.deferred = Kept(ui[s].deferred, moved)
      /\ u.listed = ui[s].listed
  BY <1>0, <1>2, <1>4, Parts DEF Thread
<1>6. ui' = [ui EXCEPT ![s] = u]
  BY <1>1
<1> HIDE DEF u
<1>7. /\ session' = session /\ disk' = disk /\ writer' = writer /\ minted' = minted
      /\ cleared' = cleared /\ troubled' = troubled /\ tab' = tab /\ reports' = reports
  BY DEF Quit
<1>8. /\ tab[s] \in [Tabs -> Document] /\ tab' = [tab EXCEPT ![s] = tab[s]]
      /\ reports[s] \in SUBSET Ids /\ reports' = [reports EXCEPT ![s] = reports[s]]
      /\ DocsFit(tab[s])
  BY <1>0, <1>7, Parts, FitParts DEF Shape, SessionsFit, Noted
<1>9. \A t \in Tabs : Reloaded(tab[s], ui[s], t) => tab[s][t].id = NoId
  BY <1>0 DEF Reloaded
<1>10. Retries(s, moved, u)
  BY <1>1, <1>2, <1>3, <1>5, <1>6 DEF Retries
<1>11. Redraws(s, tab[s], reports[s]) /\ UnchangedByUi
  BY <1>7, <1>8 DEF Redraws, UnchangedByUi
<1> QED
  BY <1>0, <1>5, <1>8, <1>9, <1>10, <1>11, RetryKeepsFit

\* Draining the reports, with a retry, once no reloaded document is left.
LEMMA DrainKeepsFit ==
  ASSUME Inv, SessionsFit, NEW s \in Sessions, NEW wake \in BOOLEAN, Live(s),
         ui[s].call = NoCall, Drain(s, "idle", wake),
         \A t \in Tabs : Reloaded(tab[s], ui[s], t) => tab[s][t].id = NoId
  PROVE  SessionsFit'
<1>0. Shape
  BY DEF Inv
<1>1. PICK moved \in SUBSET Holds(ui[s].deferred) :
        /\ Retry(s, moved)
        /\ ui' = [ui EXCEPT ![s] = [ui[s] EXCEPT !.phase = "idle", !.wake = wake,
                                       !.deferred = Kept(ui[s].deferred, moved)]]
  BY DEF Drain
<1> DEFINE u    == [ui[s] EXCEPT !.phase = "idle", !.wake = wake,
                                 !.deferred = Kept(ui[s].deferred, moved)]
           docs == [t \in Tabs |-> IF tab[s][t].id \in reports[s]
                                   THEN [tab[s][t] EXCEPT !.mark = NoText] ELSE tab[s][t]]
<1>2. Kept(ui[s].deferred, moved) \in Copies
  BY <1>0, Parts, KeptType
<1>3. /\ u \in Thread /\ u.call = NoCall /\ u.deferred = Kept(ui[s].deferred, moved)
      /\ u.listed = ui[s].listed
  BY <1>0, <1>2, Parts DEF Thread
<1>4. ASSUME NEW t \in Tabs
      PROVE  /\ docs[t] \in Document /\ docs[t].id = tab[s][t].id /\ docs[t].open = tab[s][t].open
             /\ docs[t].text = tab[s][t].text
             /\ \/ docs[t].mark = NoText
                \/ docs[t].mark = tab[s][t].mark /\ tab[s][t].id \notin reports[s]
  BY <1>0, Parts DEF Document, MaybeText
<1>5. docs \in [Tabs -> Document]
  BY <1>4
<1>6. /\ ui' = [ui EXCEPT ![s] = u] /\ tab' = [tab EXCEPT ![s] = docs]
      /\ reports' = [reports EXCEPT ![s] = {}]
      /\ session' = session /\ disk' = disk /\ writer' = writer /\ minted' = minted
      /\ cleared' = cleared /\ troubled' = troubled
  BY <1>1 DEF Drain
<1> HIDE DEF u, docs
<1>7. DocsFit(docs)
  BY <1>4, FitParts DEF DocsFit
<1>8. Retries(s, moved, u)
  BY <1>1, <1>3, <1>6, NoCallType DEF Retries
<1>9. Redraws(s, docs, {}) /\ UnchangedByUi /\ {} \in SUBSET Ids
  BY <1>4, <1>6, <1>7 DEF Redraws, UnchangedByUi
<1> QED
  BY <1>3, <1>5, <1>8, <1>9, RetryKeepsFit

-----------------------------------------------------------------------------
(* The calls of the UI thread *)

\* A document that is not reloaded any more is the one that is being cleared.
Proceeds(s, u) ==
  /\ ui' = [ui EXCEPT ![s] = u]
  /\ u.call.stage = "send" /\ ~u.call.ok /\ u.call.why # "restore"
  /\ u.deferred = ui[s].deferred /\ u.listed = ui[s].listed
  /\ CallFits(tab[s], u)
  /\ \A t \in Tabs : Reloaded(tab[s], ui[s], t) =>
       Reloaded(tab[s], u, t) \/ Clears(u.call, tab[s][t].id)

\* Between calls the thread goes on to the next document or phase.
LEMMA ThreadKeepsFit ==
  ASSUME Inv, SessionsFit, NEW s \in Sessions, Live(s), ui[s].call = NoCall,
         NEW u \in Thread, Proceeds(s, u), UnchangedByUi,
         tab' = tab /\ queue' = queue /\ reports' = reports
  PROVE  SessionsFit'
<1>0. Shape /\ tab[s] \in [Tabs -> Document] /\ ui[s].call.stage = "send"
  BY Parts, NoCallType DEF Inv
<1>1. ~writer[s].flushing /\ \A n \in DOMAIN queue[s] : ~queue[s][n].awaited
  BY <1>0, NobodyWaits
<1>2. Corresponds(u, queue[s], writer[s])
  BY <1>1 DEF Proceeds, Corresponds
<1>3. Moves(s, tab[s], u, queue[s], writer[s])
  BY <1>0, <1>2, Parts DEF Moves, Shape, Proceeds, UnchangedByUi
<1>4. Alters(s, NoId)
  BY <1>0 DEF Alters, Shape, UnchangedByUi
<1>5. Notes(s, reports[s], troubled[s], cleared[s])
  BY DEF Notes, SessionsFit, Noted, UnchangedByUi
<1>6. CopiesKept(s, tab[s], u, queue[s], writer[s], reports[s], troubled[s], disk')
  <2> SUFFICES ASSUME NEW t \in Tabs, NEW i \in Ids,
                      Promised(tab[s][t], i, u, reports[s], troubled[s]),
                      ~Reloaded(tab[s], u, t)
               PROVE  NewestIs(s, i, tab[s][t].mark, u.deferred, queue[s], writer[s], disk')
    BY DEF CopiesKept
  <2>1. Promised(tab[s][t], i, ui[s], reports[s], troubled[s]) /\ ~Reloaded(tab[s], ui[s], t)
    BY DEF Promised, Clears, Proceeds
  <2> QED
    BY <2>1, FitParts DEF CopiesKept, Proceeds, UnchangedByUi
<1>7. ClearsFit(s, u, queue[s], writer[s], cleared[s], disk')
  BY <1>1, FitParts DEF ClearsFit, Proceeds, UnchangedByUi
<1>8. SessionFits(s, tab[s], u, queue[s], writer[s], reports[s], troubled[s], cleared[s], disk')
  BY <1>0, <1>6, <1>7, QuietQueueFits, FitParts DEF SessionFits, Proceeds
<1>9. session'[s] = "live"
  BY DEF Live, UnchangedByUi
<1> QED
  BY <1>3, <1>4, <1>5, <1>8, <1>9, MovesKeepFit

\* sync_recovery and confirm_discard call the writer for one document.
LEMMA CallForKeepsFit ==
  ASSUME Inv, SessionsFit, NEW s \in Sessions, NEW t \in Tabs, NEW why \in {"resolved", "quitting"},
         Live(s), ui[s].call = NoCall, tab[s][t].id # NoId, CallFor(s, why, t)
  PROVE  SessionsFit'
<1> DEFINE call == Calling(why, tab[s][t].id, t)
           u == [ui[s] EXCEPT !.tried = ui[s].tried \cup {t}, !.call = call]
<1>0. Shape
  BY DEF Inv
<1>1. tab[s][t].id \in Ids
  BY <1>0, Parts DEF Document
<1>2. /\ call \in Call /\ call.stage = "send" /\ ~call.ok /\ call.why = why
      /\ call.id = tab[s][t].id /\ call.tab = t /\ call # NoCall
  BY <1>1, CallingType, CallingFields
<1> HIDE DEF call
<1>3. /\ u \in Thread /\ u.call = call /\ u.deferred = ui[s].deferred
      /\ u.listed = ui[s].listed /\ u.phase = ui[s].phase /\ u.tried = ui[s].tried \cup {t}
  BY <1>0, <1>2, Parts DEF Thread
<1>4. /\ ui' = [ui EXCEPT ![s] = u] /\ UnchangedByUi
      /\ tab' = tab /\ queue' = queue /\ reports' = reports
  BY DEF CallFor, call, UnchangedByUi
<1> HIDE DEF u
<1>5. CallFits(tab[s], u)
  BY <1>1, <1>2, <1>3 DEF CallFits
<1>6. Clears(call, tab[s][t].id)
  BY <1>2, RequestKinds DEF Clears
<1>7. Proceeds(s, u)
  BY <1>2, <1>3, <1>4, <1>5, <1>6 DEF Proceeds, Reloaded
<1> QED
  BY <1>3, <1>4, <1>7, ThreadKeepsFit

\* Deciding whether the window closes.
LEMMA QuitDecideKeepsFit ==
  ASSUME Inv, SessionsFit, NEW s \in Sessions, QuitDecide(s)
  PROVE  SessionsFit'
<1>0. Shape /\ Live(s) /\ ui[s].call = NoCall /\ ui[s].phase = "quit"
  BY DEF Inv, QuitDecide, Busy
<1> DEFINE closing == \A t \in Tabs : tab[s][t].id = NoId
           u == [ui[s] EXCEPT !.phase = "sync", !.tried = {}, !.closing = closing]
<1>1. closing \in BOOLEAN
  OBVIOUS
<1> HIDE DEF closing
<1>2. u \in Thread /\ u.call = NoCall /\ u.deferred = ui[s].deferred /\ u.listed = ui[s].listed
  BY <1>0, <1>1, Parts DEF Thread
<1>3. /\ ui' = [ui EXCEPT ![s] = u] /\ UnchangedByUi
      /\ tab' = tab /\ queue' = queue /\ reports' = reports
  BY DEF QuitDecide, closing, UnchangedByUi
<1> HIDE DEF u
<1>4. Proceeds(s, u)
  BY <1>0, <1>2, <1>3, NoCallType, NoCallFits DEF Proceeds, Reloaded
<1> QED
  BY <1>0, <1>2, <1>3, <1>4, ThreadKeepsFit

\* A thread that is still in the same call about the same documents.
SameSync(u, before) ==
  /\ SameCall(u.call, before.call) /\ u.phase = before.phase /\ u.tried = before.tried
  /\ u.listed = before.listed

LEMMA SameSyncFits ==
  ASSUME NEW docs, NEW u \in Thread, NEW before \in Thread, SameSync(u, before)
  PROVE  /\ CallFits(docs, before) => CallFits(docs, u)
         /\ \A t : Reloaded(docs, u, t) <=> Reloaded(docs, before, t)
         /\ \A d, i, rep, tr : Promised(d, i, u, rep, tr) <=> Promised(d, i, before, rep, tr)
         /\ (Clearing(u.call) <=> Clearing(before.call))
         /\ Request(u.call).kind = Request(before.call).kind
<1>1. u.call \in Call /\ before.call \in Call /\ SameCall(u.call, before.call)
  BY DEF Thread, SameSync
<1>2. /\ Request(u.call).kind = Request(before.call).kind
      /\ Clearing(u.call) <=> Clearing(before.call)
      /\ \A i : Clears(u.call, i) <=> Clears(before.call, i)
  BY <1>1, SameRequest
<1>3. \A t : Reloaded(docs, u, t) <=> Reloaded(docs, before, t)
  BY DEF SameSync, Reloaded
<1>4. CallFits(docs, before) => CallFits(docs, u)
  BY <1>1, <1>2, <1>3 DEF CallFits, SameCall
<1>5. \A d, i, rep, tr : Promised(d, i, u, rep, tr) <=> Promised(d, i, before, rep, tr)
  BY <1>2 DEF Promised
<1> QED
  BY <1>2, <1>3, <1>4, <1>5

\* A command about something else leaves the newest copy where it is.
LEMMA AppendKeepsNewest ==
  ASSUME NEW q \in Seq(Command), NEW c \in Command, NEW i \in Ids,
         c.kind \notin {"upsert", "remove"} \/ c.id # i,
         NEW copies, NEW before, copies[i] = before[i], NEW s, NEW x, NEW w, NEW dir,
         NewestIs(s, i, x, before, q, w, dir)
  PROVE  NewestIs(s, i, x, copies, Append(q, c), w, dir)
<1> DEFINE longer == Append(q, c)
<1>1. Mine(longer, i) = Mine(q, i) /\ \A n \in DOMAIN q : longer[n] = q[n]
  BY AppendMine
<1> HIDE DEF longer
<1>2. \A n \in Mine(longer, i) : longer[n] = q[n]
  BY <1>1 DEF Mine
<1>3. NewestIs(s, i, x, copies, longer, w, dir)
  BY <1>1, <1>2 DEF NewestIs, Ahead
<1> QED
  BY <1>3 DEF longer

\* And revives nothing unless it copies or claims it.
LEMMA AppendForgets ==
  ASSUME NEW q \in Seq(Command), NEW c \in Command, NEW i \in Ids,
         c.kind \notin {"upsert", "claim"} \/ c.id # i,
         NEW copies, NEW before, i \notin Holds(before) => i \notin Holds(copies),
         NEW s, NEW w, NEW dir, Forgotten(s, i, before, q, w, dir)
  PROVE  Forgotten(s, i, copies, Append(q, c), w, dir)
<1> DEFINE longer == Append(q, c)
<1>1. \A n \in DOMAIN longer : (n \in DOMAIN q /\ longer[n] = q[n]) \/ longer[n] = c
  BY AppendMine
<1> HIDE DEF longer
<1>2. i \notin Queued(q) \cup Claims(q)
  BY DEF Forgotten
<1>3. i \notin Queued(longer) \cup Claims(longer)
  BY <1>1, <1>2 DEF Queued, Claims
<1>4. Forgotten(s, i, copies, longer, w, dir)
  BY <1>3 DEF Forgotten
<1> QED
  BY <1>4 DEF longer

\* Sending the command of a call.
LEMMA SendKeepsFit ==
  ASSUME Inv, SessionsFit, NEW s \in Sessions, Send(s)
  PROVE  SessionsFit'
<1> DEFINE c    == ui[s].call
           gone == IF Clearing(c) THEN {c.id} ELSE {}
           over == [c EXCEPT !.stage = "wait"]
           u    == [ui[s] EXCEPT !.call = over, !.deferred = Kept(ui[s].deferred, gone)]
           r    == Request(c)
           q    == Append(queue[s], r)
<1>0. /\ Shape /\ Live(s) /\ c.stage = "send" /\ ~c.ok /\ c \in Call /\ c # NoCall
      /\ queue[s] \in Seq(Command) /\ Len(queue[s]) < QueueSize /\ r \in Command
      /\ ui[s] \in Thread /\ ui[s].deferred \in Copies
  BY Parts, RequestType DEF Inv, Send, CallsCorrespond, Corresponds
<1>1. over \in Call /\ over.stage = "wait" /\ ~over.ok /\ over.id = c.id
      /\ over.why = c.why /\ over.tab = c.tab
  BY <1>0 DEF Call
<1>2. SameCall(over, c)
  BY <1>0, <1>1, NoCallType DEF SameCall
<1>3. Kept(ui[s].deferred, gone) \in Copies
  BY <1>0, KeptType
<1>4. /\ u \in Thread /\ u.call = over /\ u.deferred = Kept(ui[s].deferred, gone)
      /\ u.listed = ui[s].listed /\ u.phase = ui[s].phase /\ u.tried = ui[s].tried
  BY <1>0, <1>1, <1>3 DEF Thread
<1>5. /\ ui' = [ui EXCEPT ![s] = u] /\ UnchangedByUi /\ queue' = [queue EXCEPT ![s] = q]
      /\ tab' = tab /\ reports' = reports
  BY DEF Send, UnchangedByUi
<1>6. /\ q \in Seq(Command) /\ Len(q) = Len(queue[s]) + 1 /\ Len(queue[s]) \in Nat
      /\ q[Len(queue[s]) + 1] = r
      /\ \A n \in DOMAIN q : \/ n \in DOMAIN queue[s] /\ q[n] = queue[s][n]
                             \/ n = Len(queue[s]) + 1 /\ q[n] = r
  BY <1>0, AppendMine, AppendQueued
<1>7. /\ r.kind # "upsert" /\ r.id = c.id /\ r.awaited
      /\ (r.kind = "claim" => c.why = "restore") /\ (r.kind = "remove" <=> Clearing(c))
  BY <1>0, RequestKinds DEF Clearing
<1>8. SameSync(u, ui[s])
  BY <1>2, <1>4 DEF SameSync
<1>9. \A i \in Ids : i \notin Holds(ui[s].deferred) => i \notin Holds(u.deferred)
  BY <1>4 DEF Holds, Kept
<1>10. ~writer[s].flushing /\ \A n \in DOMAIN queue[s] : ~queue[s][n].awaited
  BY <1>0, NobodyWaits
<1>11. \A i \in Ids : ~Clears(c, i) => u.deferred[i] = ui[s].deferred[i]
  BY <1>0, <1>4 DEF Kept, Clears
<1>12. Clearing(c) => c.id \notin Holds(u.deferred)
  BY <1>4 DEF Kept, Holds
<1>13. QueueSize \in Nat
  BY RecoveryAssumption
<1>14. c = ui[s].call
  OBVIOUS
<1> HIDE DEF u, q, gone, over, r, c
<1>15. Corresponds(u, q, writer[s])
  BY <1>0, <1>1, <1>4, <1>6, <1>7, <1>10 DEF Corresponds
<1>16. Moves(s, tab[s], u, q, writer[s])
  BY <1>0, <1>4, <1>5, <1>6, <1>15, Parts DEF Moves, Shape, UnchangedByUi
<1>17. Alters(s, NoId)
  BY <1>0, <1>5 DEF Alters, Shape, UnchangedByUi
<1>18. Notes(s, reports[s], troubled[s], cleared[s])
  BY <1>5 DEF Notes, SessionsFit, Noted, UnchangedByUi
<1>19. QueueFits(u, q, troubled[s])
  <2>1. Len(q) <= QueueSize
    BY <1>0, <1>6, <1>13
  <2>2. ASSUME NEW n \in DOMAIN q PROVE CommandFits(q[n], n, u, q, troubled[s])
    <3>1. CASE n \in DOMAIN queue[s] /\ q[n] = queue[s][n]
      BY <1>0, <1>14, <3>1, QuietQueue DEF CommandFits
    <3>2. CASE n = Len(queue[s]) + 1 /\ q[n] = r
      <4>1. Request(u.call).kind = r.kind
        BY <1>0, <1>4, <1>8, <1>14, SameSyncFits DEF r
      <4>2. u.call # NoCall
        BY <1>1, <1>4, NoCallType
      <4> QED
        BY <1>6, <1>7, <3>2, <4>1, <4>2 DEF CommandFits
    <3> QED
      BY <1>6, <3>1, <3>2
  <2> QED
    BY <2>1, <2>2 DEF QueueFits
<1>20. CopiesKept(s, tab[s], u, q, writer[s], reports[s], troubled[s], disk)
  <2> SUFFICES ASSUME NEW t \in Tabs, NEW i \in Ids,
                      Promised(tab[s][t], i, u, reports[s], troubled[s]),
                      ~Reloaded(tab[s], u, t)
               PROVE  NewestIs(s, i, tab[s][t].mark, u.deferred, q, writer[s], disk)
    BY DEF CopiesKept
  <2>1. Promised(tab[s][t], i, ui[s], reports[s], troubled[s]) /\ ~Reloaded(tab[s], ui[s], t)
    BY <1>0, <1>4, <1>8, SameSyncFits
  <2>2. NewestIs(s, i, tab[s][t].mark, ui[s].deferred, queue[s], writer[s], disk)
    BY <2>1, FitParts DEF CopiesKept
  <2>3. ~Clears(c, i)
    BY <1>14, <2>1 DEF Promised
  <2>4. u.deferred[i] = ui[s].deferred[i] /\ (r.kind \notin {"upsert", "remove"} \/ r.id # i)
    BY <1>0, <1>7, <1>11, <2>3 DEF Clears
  <2> QED
    BY <1>0, <2>2, <2>4, AppendKeepsNewest DEF q
<1>21. ClearsFit(s, u, q, writer[s], cleared[s], disk)
  <2>1. ASSUME NEW i \in cleared[s]
        PROVE  /\ Forgotten(s, i, u.deferred, q, writer[s], disk)
               /\ i \notin u.listed /\ (u.call.why = "restore" => u.call.id # i)
    <3>1. /\ i \in Ids /\ Forgotten(s, i, ui[s].deferred, queue[s], writer[s], disk)
          /\ i \notin ui[s].listed /\ (c.why = "restore" => c.id # i)
      BY <1>14, <2>1, FitParts DEF ClearsFit
    <3>2. r.kind \notin {"upsert", "claim"} \/ r.id # i
      BY <1>7, <3>1
    <3>3. Forgotten(s, i, u.deferred, q, writer[s], disk)
      BY <1>0, <1>9, <3>1, <3>2, AppendForgets DEF q
    <3> QED
      BY <1>1, <1>4, <3>1, <3>3
  <2>2. Clearing(u.call) => Clearing(c)
    BY <1>0, <1>4, <1>8, <1>14, SameSyncFits
  <2> QED
    BY <1>1, <1>4, <1>10, <1>12, <2>1, <2>2 DEF ClearsFit
<1>22. CallFits(tab[s], u)
  BY <1>0, <1>4, <1>8, FitParts, SameSyncFits
<1>23. SessionFits(s, tab[s], u, q, writer[s], reports[s], troubled[s], cleared[s], disk')
  BY <1>5, <1>19, <1>20, <1>21, <1>22, FitParts DEF SessionFits, UnchangedByUi
<1>24. session'[s] = "live"
  BY <1>0, <1>5 DEF Live, UnchangedByUi
<1> QED
  BY <1>16, <1>17, <1>18, <1>23, <1>24, MovesKeepFit

\* Giving up a call: what was sent stays sent.
LEMMA GiveUpKeepsFit ==
  ASSUME Inv, SessionsFit, NEW s \in Sessions, GiveUp(s)
  PROVE  SessionsFit'
<1> DEFINE c    == ui[s].call
           gone == IF Clearing(c) THEN {c.id} ELSE {}
           over == [c EXCEPT !.stage = "answered"]
           u    == [ui[s] EXCEPT !.call = over, !.deferred = Kept(ui[s].deferred, gone)]
           q    == [n \in DOMAIN queue[s] |-> [queue[s][n] EXCEPT !.awaited = FALSE]]
           w    == [writer[s] EXCEPT !.flushing = FALSE]
<1>0. /\ Shape /\ Live(s) /\ c.stage # "answered" /\ ~c.ok /\ c \in Call /\ c # NoCall
      /\ queue[s] \in Seq(Command) /\ ui[s] \in Thread /\ ui[s].deferred \in Copies
      /\ Corresponds(ui[s], queue[s], writer[s])
  BY Parts DEF Inv, GiveUp, CallsCorrespond, Corresponds
<1>1. /\ over \in Call /\ ~over.ok /\ over.stage = "answered" /\ over.id = c.id
      /\ over.why = c.why /\ over.tab = c.tab
  BY <1>0 DEF Call
<1>2. SameCall(over, c)
  BY <1>0, <1>1, NoCallType DEF SameCall
<1>3. Kept(ui[s].deferred, gone) \in Copies
  BY <1>0, KeptType
<1>4. /\ u \in Thread /\ u.call = over /\ u.deferred = Kept(ui[s].deferred, gone)
      /\ u.listed = ui[s].listed /\ u.phase = ui[s].phase /\ u.tried = ui[s].tried
  <2> HIDE DEF over
  <2> QED
    BY <1>0, <1>1, <1>3 DEF Thread
<1>5. w \in Worker /\ ~w.flushing /\ w.pending = writer[s].pending /\ w.batch = writer[s].batch
  BY <1>0, Parts DEF Worker
<1>6. /\ DOMAIN q = DOMAIN queue[s]
      /\ \A n \in DOMAIN q :
           /\ q[n] \in Command /\ ~q[n].awaited
           /\ q[n].kind = queue[s][n].kind /\ q[n].id = queue[s][n].id
           /\ q[n].text = queue[s][n].text
  <2>1. \A n \in DOMAIN queue[s] : queue[s][n] \in Command
    BY <1>0, LenProperties
  <2> QED
    BY <2>1 DEF Command
<1>7. q \in Seq(Command) /\ Len(q) = Len(queue[s])
  <2>1. Len(queue[s]) \in Nat /\ DOMAIN queue[s] = 1..Len(queue[s])
    BY <1>0, LenProperties
  <2>2. \A n \in 1..Len(queue[s]) : [queue[s][n] EXCEPT !.awaited = FALSE] \in Command
    BY <1>6, <2>1
  <2>3. q = [n \in 1..Len(queue[s]) |-> [queue[s][n] EXCEPT !.awaited = FALSE]]
    BY <2>1
  <2> HIDE DEF q
  <2>4. q \in Seq(Command)
    BY <2>1, <2>2, <2>3, IsASeq
  <2> QED
    BY <1>6, <2>1, <2>4, LenProperties
<1>8. /\ ui' = [ui EXCEPT ![s] = u] /\ queue' = [queue EXCEPT ![s] = q]
      /\ writer' = [writer EXCEPT ![s] = w] /\ tab' = tab /\ reports' = reports
      /\ session' = session /\ disk' = disk /\ minted' = minted
      /\ cleared' = cleared /\ troubled' = troubled
  BY DEF GiveUp
<1>9. SameSync(u, ui[s])
  BY <1>2, <1>4 DEF SameSync
<1>10. \A i \in Ids : i \notin Holds(ui[s].deferred) => i \notin Holds(u.deferred)
  BY <1>4 DEF Holds, Kept
<1>11. \A i \in Ids : ~Clears(c, i) => u.deferred[i] = ui[s].deferred[i]
  BY <1>0, <1>4 DEF Kept, Clears
<1>12. c = ui[s].call
  OBVIOUS
<1> HIDE DEF u, q, w, gone, over, c
<1>13. Corresponds(u, q, w)
  BY <1>1, <1>4, <1>5, <1>6 DEF Corresponds
<1>14. Moves(s, tab[s], u, q, w)
  BY <1>0, <1>4, <1>5, <1>7, <1>8, <1>13, Parts DEF Moves, Shape
<1>15. Alters(s, NoId)
  BY <1>0, <1>8 DEF Alters, Shape
<1>16. Notes(s, reports[s], troubled[s], cleared[s])
  BY <1>8 DEF Notes, SessionsFit, Noted
<1>17. QueueFits(u, q, troubled[s])
  <2>1. QueueFits(ui[s], queue[s], troubled[s])
    BY FitParts
  <2>2. ASSUME NEW n \in DOMAIN q PROVE CommandFits(q[n], n, u, q, troubled[s])
    <3>1. CommandFits(queue[s][n], n, ui[s], queue[s], troubled[s])
      BY <1>6, <2>1, <2>2 DEF QueueFits
    <3>2. ASSUME queue[s][n].kind = "remove", queue[s][n].awaited
          PROVE  Clears(u.call, queue[s][n].id)
      <4>1. c.id = queue[s][n].id
        BY <1>0, <1>6, <1>12, <2>2, <3>2 DEF Corresponds
      <4>2. Clearing(c)
        BY <1>12, <3>1, <3>2 DEF CommandFits, Clearing
      <4>3. Clears(c, queue[s][n].id)
        BY <1>0, <4>1, <4>2 DEF Clears
      <4>4. u.call \in Call /\ SameCall(u.call, c)
        BY <1>1, <1>2, <1>4
      <4> QED
        BY <1>0, <4>3, <4>4, SameRequest
    <3> QED
      BY <1>0, <1>1, <1>4, <1>6, <1>12, <3>1, <3>2 DEF CommandFits
  <2> QED
    BY <1>7, <2>1, <2>2 DEF QueueFits
<1>18. \A i \in Ids : Mine(q, i) = Mine(queue[s], i)
  BY <1>6 DEF Mine
<1>19. CopiesKept(s, tab[s], u, q, w, reports[s], troubled[s], disk)
  <2> SUFFICES ASSUME NEW t \in Tabs, NEW i \in Ids,
                      Promised(tab[s][t], i, u, reports[s], troubled[s]),
                      ~Reloaded(tab[s], u, t)
               PROVE  NewestIs(s, i, tab[s][t].mark, u.deferred, q, w, disk)
    BY DEF CopiesKept
  <2>1. Promised(tab[s][t], i, ui[s], reports[s], troubled[s]) /\ ~Reloaded(tab[s], ui[s], t)
    BY <1>0, <1>4, <1>9, SameSyncFits
  <2>2. NewestIs(s, i, tab[s][t].mark, ui[s].deferred, queue[s], writer[s], disk)
    BY <2>1, FitParts DEF CopiesKept
  <2>3. u.deferred[i] = ui[s].deferred[i]
    BY <1>11, <1>12, <2>1 DEF Promised
  <2>4. Mine(q, i) = Mine(queue[s], i) /\ \A n \in Mine(q, i) : q[n].text = queue[s][n].text
    BY <1>6, <1>18 DEF Mine
  <2> QED
    BY <1>5, <2>2, <2>3, <2>4 DEF NewestIs, Ahead, Arrived
<1>20. ASSUME NEW i \in Ids, Forgotten(s, i, ui[s].deferred, queue[s], writer[s], disk)
       PROVE  Forgotten(s, i, u.deferred, q, w, disk)
  <2>1. i \notin Queued(queue[s]) \cup Claims(queue[s])
    BY <1>20 DEF Forgotten
  <2>2. i \notin Queued(q) \cup Claims(q)
    BY <1>6, <2>1 DEF Queued, Claims
  <2> QED
    BY <1>5, <1>10, <1>20, <2>2 DEF Forgotten
<1>21. ClearsFit(s, u, q, w, cleared[s], disk)
  <2>1. cleared[s] \subseteq Ids /\ ClearsFit(s, ui[s], queue[s], writer[s], cleared[s], disk)
    BY FitParts
  <2> QED
    BY <1>1, <1>4, <1>5, <1>12, <1>20, <2>1 DEF ClearsFit
<1>22. CallFits(tab[s], u)
  BY <1>0, <1>4, <1>9, FitParts, SameSyncFits
<1>23. SessionFits(s, tab[s], u, q, w, reports[s], troubled[s], cleared[s], disk')
  BY <1>8, <1>17, <1>19, <1>21, <1>22, FitParts DEF SessionFits
<1>24. session'[s] = "live"
  BY <1>0, <1>8 DEF Live
<1> QED
  BY <1>14, <1>15, <1>16, <1>23, <1>24, MovesKeepFit

\* What a call leaves of a document: itself, or one without a fingerprint.
LEMMA SettledMarks ==
  ASSUME NEW d \in Document, NEW t \in Tabs, NEW call \in Call
  PROVE  LET e == Settled(d, t, call)
         IN  \/ e = d /\ (call.ok => \/ call.why \notin {"resolved", "saved", "quitting", "discarded"}
                                     \/ call.why = "discarded" /\ d.id # call.id
                                     \/ call.why # "discarded" /\ t # call.tab)
             \/ /\ e.id = NoId /\ e.mark = NoText /\ (e.open => d.open /\ e.text = d.text)
             \/ /\ e.id = call.id /\ e.mark = NoText /\ e.text # NoText
                /\ call.why = "restore" /\ t = call.tab
<1> DEFINE unfollowed == [d EXCEPT !.id = NoId, !.candidate = FALSE, !.mark = NoText]
           restored == [Closed EXCEPT !.open = TRUE, !.text = call.text, !.id = call.id,
                                      !.candidate = TRUE]
<1>1. unfollowed.id = NoId /\ unfollowed.mark = NoText /\ unfollowed.open = d.open /\ unfollowed.text = d.text
  BY DEF Document
<1>2. restored.id = call.id /\ restored.mark = NoText /\ restored.text = call.text
  BY DEF Closed
<1>3. Closed.id = NoId /\ Closed.mark = NoText /\ ~Closed.open
  BY DEF Closed
<1>4. Settled(d, t, call) =
        IF ~call.ok THEN d
        ELSE IF call.why \in {"resolved", "saved", "quitting"} /\ t = call.tab THEN unfollowed
        ELSE IF call.why = "discarded" /\ d.id = call.id THEN Closed
        ELSE IF call.why = "restore" /\ t = call.tab /\ call.text # NoText THEN restored
        ELSE d
  BY DEF Settled
<1> HIDE DEF unfollowed, restored
<1> QED
  BY <1>1, <1>2, <1>3, <1>4

\* A call returns, and its caller settles the documents.
LEMMA ReturnKeepsFit ==
  ASSUME Inv, SessionsFit, NEW s \in Sessions, Return(s)
  PROVE  SessionsFit'
<1> DEFINE c       == ui[s].call
           gone    == IF Clearing(c) THEN {c.id} ELSE {}
           listed  == IF c.ok THEN ui[s].listed \ gone ELSE ui[s].listed
           closing == ui[s].closing \/ (c.ok /\ c.why = "exit")
           cl      == IF c.ok THEN cleared[s] \cup gone ELSE cleared[s]
           tr      == IF c.ok THEN troubled[s] ELSE troubled[s] \cup gone
           u       == [ui[s] EXCEPT !.call = NoCall, !.listed = listed, !.closing = closing]
           docs    == [t \in Tabs |-> Settled(tab[s][t], t, c)]
<1>0. /\ Shape /\ Live(s) /\ c.stage = "answered" /\ c \in Call /\ c # NoCall
      /\ ui[s] \in Thread /\ tab[s] \in [Tabs -> Document]
  BY Parts DEF Inv, Return
<1>1. CallFits(tab[s], ui[s]) /\ DocsFit(tab[s]) /\ c = ui[s].call
  BY FitParts
<1>2. gone \subseteq Ids /\ \A i \in Ids : i \in gone <=> Clears(c, i)
  BY <1>0, <1>1 DEF CallFits, Clears
<1>3. listed \subseteq Ids /\ closing \in BOOLEAN
  BY <1>0 DEF Thread
<1>4. /\ ui' = [ui EXCEPT ![s] = u] /\ tab' = [tab EXCEPT ![s] = docs]
      /\ queue' = queue /\ writer' = writer /\ reports' = reports
      /\ session' = session /\ disk' = disk /\ minted' = minted
      /\ cleared' = [cleared EXCEPT ![s] = cl] /\ troubled' = [troubled EXCEPT ![s] = tr]
  BY DEF Return, SessionsFit, Noted
<1>5. /\ listed \subseteq ui[s].listed /\ (c.ok => listed \cap gone = {})
      /\ cl \subseteq cleared[s] \cup {i \in gone : c.ok}
      /\ troubled[s] \subseteq tr /\ (~c.ok => gone \subseteq tr) /\ tr \subseteq troubled[s] \cup gone
  OBVIOUS
<1> HIDE DEF listed, closing, cl, tr
<1>6. /\ u \in Thread /\ u.call = NoCall /\ u.deferred = ui[s].deferred /\ u.listed = listed
      /\ u.phase = ui[s].phase /\ u.tried = ui[s].tried
  BY <1>0, <1>3, NoCallType DEF Thread
<1>7. docs \in [Tabs -> Document]
  BY <1>0, SettledType
<1> DEFINE Stays(t) == /\ docs[t] = tab[s][t]
                       /\ c.ok => \/ c.why \notin {"resolved", "saved", "quitting", "discarded"}
                                  \/ c.why = "discarded" /\ docs[t].id # c.id
                                  \/ c.why # "discarded" /\ t # c.tab
           Leaves(t) == /\ docs[t].id = NoId /\ docs[t].mark = NoText
                        /\ docs[t].open => tab[s][t].open /\ docs[t].text = tab[s][t].text
           Restored(t) == /\ docs[t].id = c.id /\ docs[t].mark = NoText /\ docs[t].text # NoText
                          /\ c.why = "restore" /\ t = c.tab
<1>8. ASSUME NEW t \in Tabs PROVE Stays(t) \/ Leaves(t) \/ Restored(t)
  <2>1. docs[t] = Settled(tab[s][t], t, c) /\ tab[s][t] \in Document
    BY <1>0
  <2> HIDE DEF docs
  <2> QED
    BY <1>0, <2>1, SettledMarks
<1> HIDE DEF u, docs, gone, c
<1>9. ~writer[s].flushing /\ \A n \in DOMAIN queue[s] : ~queue[s][n].awaited
  BY <1>0, <1>1, NobodyWaits
<1>10. Corresponds(u, queue[s], writer[s])
  BY <1>6, <1>9, NoCallType DEF Corresponds
<1>11. Moves(s, docs, u, queue[s], writer[s])
  BY <1>0, <1>4, <1>6, <1>7, <1>10, Parts DEF Moves, Shape
<1>12. Alters(s, NoId)
  BY <1>0, <1>4 DEF Alters, Shape
<1>13. Notes(s, reports[s], tr, cl)
  BY <1>4 DEF Notes, SessionsFit, Noted
<1>14. DocsFit(docs)
  <2>1. ASSUME NEW t \in Tabs
        PROVE  /\ docs[t].id = NoId => docs[t].mark = NoText
               /\ docs[t].open => docs[t].text # NoText
    BY <1>1, <1>8 DEF DocsFit
  <2>2. ASSUME NEW t \in Tabs, NEW v \in Tabs, t # v, docs[t].id # NoId,
               docs[t].id = docs[v].id
        PROVE  FALSE
    <3>1. ~Leaves(t) /\ ~Leaves(v)
      BY <2>2
    <3>2. ~(Restored(t) /\ Restored(v))
      BY <2>2
    <3>3. Restored(t) \/ Restored(v) => \A x \in Tabs : tab[s][x].id # c.id
      BY <1>1 DEF CallFits
    <3>4. Stays(t) /\ Stays(v)
      BY <1>8, <2>2, <3>1, <3>2, <3>3
    <3> QED
      BY <1>1, <2>2, <3>4 DEF DocsFit
  <2> QED
    BY <2>1, <2>2 DEF DocsFit
<1>15. CallFits(docs, u)
  BY <1>6, NoCallFits
<1>16. QueueFits(u, queue[s], tr)
  <2>1. QueueFits(ui[s], queue[s], troubled[s])
    BY FitParts
  <2>2. ASSUME NEW n \in DOMAIN queue[s] PROVE CommandFits(queue[s][n], n, u, queue[s], tr)
    <3>1. CommandFits(queue[s][n], n, ui[s], queue[s], troubled[s])
      BY <2>1, <2>2 DEF QueueFits
    <3>2. ~c.ok /\ Clears(c, queue[s][n].id) => queue[s][n].id \in tr
      BY <1>0, <1>1, <1>2, <1>5 DEF Clears, CallFits
    <3> QED
      BY <1>1, <1>5, <1>9, <3>1, <3>2 DEF CommandFits
  <2> QED
    BY <2>1, <2>2 DEF QueueFits
<1>17. CopiesKept(s, docs, u, queue[s], writer[s], reports[s], tr, disk)
  <2> SUFFICES ASSUME NEW t \in Tabs, NEW i \in Ids,
                      Promised(docs[t], i, u, reports[s], tr), ~Reloaded(docs, u, t)
               PROVE  NewestIs(s, i, docs[t].mark, u.deferred, queue[s], writer[s], disk)
    BY DEF CopiesKept
  <2>1. Stays(t) /\ docs[t].id = i /\ i # NoId
    BY <1>8 DEF Promised
  <2>2. ~Reloaded(tab[s], ui[s], t)
    BY <1>6, <2>1 DEF Reloaded
  <2>3. ~Clears(c, i)
    <3> SUFFICES ASSUME Clears(c, i) PROVE FALSE
      OBVIOUS
    <3>1. c.id = i /\ c.ok
      BY <1>2, <1>5 DEF Promised, Clears
    <3>2. Clearing(c) /\ c.why \notin {"none", "restore", "exit", "retention"}
      BY <1>0, <1>1, RequestKinds DEF Clears, CallFits
    <3>3. ASSUME c.why \in {"resolved", "saved", "quitting", "reloaded"} PROVE t = c.tab
      <4>1. tab[s][c.tab].id = i /\ c.tab \in Tabs
        BY <1>0, <1>1, <3>1, <3>3 DEF CallFits, Call
      <4> QED
        BY <1>1, <2>1, <4>1 DEF DocsFit
    <3>4. c.why # "reloaded"
      BY <1>1, <2>2, <3>3 DEF CallFits
    <3>5. c.why # "closed"
      BY <1>1, <2>1, <3>1 DEF CallFits
    <3>6. c.why \in {"resolved", "saved", "quitting", "discarded"}
      BY <1>0, <3>2, <3>4, <3>5 DEF Call
    <3> QED
      BY <2>1, <3>1, <3>3, <3>6
  <2>4. Promised(tab[s][t], i, ui[s], reports[s], troubled[s])
    BY <1>1, <1>5, <2>1, <2>3 DEF Promised
  <2> QED
    BY <1>6, <2>1, <2>2, <2>4, FitParts DEF CopiesKept
<1>18. ClearsFit(s, u, queue[s], writer[s], cl, disk)
  <2>1. cleared[s] \subseteq Ids /\ ClearsFit(s, ui[s], queue[s], writer[s], cleared[s], disk)
    BY FitParts
  <2>2. ASSUME NEW i \in cl
        PROVE  Forgotten(s, i, u.deferred, queue[s], writer[s], disk) /\ i \notin u.listed
    <3>1. CASE i \in cleared[s]
      BY <1>5, <1>6, <2>1, <3>1 DEF ClearsFit
    <3>2. CASE i \in gone /\ c.ok
      <4>1. Clearing(c) /\ c.id = i
        BY <1>2, <3>2 DEF Clears
      <4> QED
        BY <1>0, <1>1, <1>5, <1>6, <2>1, <3>2, <4>1 DEF ClearsFit
    <3> QED
      BY <1>5, <3>1, <3>2
  <2> QED
    BY <1>6, <1>9, <2>2, NoCallType DEF ClearsFit
<1>19. tr \subseteq Ids /\ cl \subseteq Ids
  BY <1>2, <1>5, FitParts
<1>20. SessionFits(s, docs, u, queue[s], writer[s], reports[s], tr, cl, disk')
  BY <1>4, <1>14, <1>15, <1>16, <1>17, <1>18, <1>19, FitParts DEF SessionFits
<1>21. session'[s] = "live"
  BY <1>0, <1>4 DEF Live
<1> QED
  BY <1>11, <1>12, <1>13, <1>20, <1>21, MovesKeepFit

-----------------------------------------------------------------------------
(* sync_recovery *)

\* A copy that is queued is the newest one.
LEMMA AppendIsNewest ==
  ASSUME NEW q \in Seq(Command), NEW c \in Command, c.kind = "upsert", NEW i \in Ids, c.id = i,
         NEW copies, copies[i] = NoText
  PROVE  Ahead(i, c.text, copies, Append(q, c))
<1> DEFINE longer == Append(q, c)
           l == Len(q)
<1>1. /\ l \in Nat /\ longer[l + 1] = c /\ l + 1 \in DOMAIN longer
      /\ \A n \in DOMAIN q : n <= l
      /\ \A n \in DOMAIN longer : n \in DOMAIN q \/ n = l + 1
  BY AppendMine
<1>2. DOMAIN q = 1..l
  BY LenProperties
<1> HIDE DEF longer, l
<1>3. l + 1 \in Mine(longer, i) /\ \A m \in Mine(longer, i) : m <= l + 1
  BY <1>1, <1>2 DEF Mine
<1>4. Ahead(i, c.text, copies, longer)
  BY <1>1, <1>3 DEF Ahead
<1> QED
  BY <1>4 DEF longer

\* Offering text x of document t under id i: queued, deferred or refused.
OfferMoves(s, t, i, x, copies, q, mark) ==
  \/ /\ Len(queue[s]) < QueueSize
     /\ q = Append(queue[s], Copy(i, x)) /\ copies = Kept(ui[s].deferred, {i}) /\ mark = x
  \/ q = queue[s] /\ copies = [ui[s].deferred EXCEPT ![i] = x] /\ mark = x
  \/ q = queue[s] /\ copies = ui[s].deferred /\ mark = tab[s][t].mark

\* The steps of SyncOffer, in those terms.
LEMMA SyncOfferMoves ==
  ASSUME Shape, NEW s \in Sessions, NEW t \in Tabs, SyncOffer(s, t)
  PROVE  \E i \in IF tab[s][t].id # NoId THEN {tab[s][t].id} ELSE Ids \ minted :
         \E copies, q, mark :
           /\ OfferMoves(s, t, i, tab[s][t].text, copies, q, mark)
           /\ queue' = [queue EXCEPT ![s] = q]
           /\ ui' = [ui EXCEPT ![s] = [ui[s] EXCEPT !.tried = ui[s].tried \cup {t},
                                                    !.deferred = copies]]
           /\ SetTab(s, t, [tab[s][t] EXCEPT !.id = i, !.mark = mark])
           /\ minted' = minted \cup {i}
           /\ cleared' = [cleared EXCEPT ![s] = cleared[s] \ {i}]
<1> DEFINE d == tab[s][t]
           queued == Len(queue[s]) < QueueSize
<1>1. PICK i \in IF d.id # NoId THEN {d.id} ELSE Ids \ minted, deferred \in BOOLEAN :
        /\ queue' = IF queued THEN [queue EXCEPT ![s] = Append(queue[s], Copy(i, d.text))]
                    ELSE queue
        /\ ui' = [ui EXCEPT ![s] = [ui[s] EXCEPT !.tried = ui[s].tried \cup {t},
             !.deferred = IF queued THEN Kept(ui[s].deferred, {i})
                          ELSE IF deferred THEN [ui[s].deferred EXCEPT ![i] = d.text]
                          ELSE ui[s].deferred]]
        /\ SetTab(s, t, [d EXCEPT !.id = i, !.mark = IF queued \/ deferred THEN d.text ELSE d.mark])
        /\ minted' = minted \cup {i}
        /\ cleared' = [cleared EXCEPT ![s] = @ \ {i}]
  BY DEF SyncOffer
<1> DEFINE copies == IF queued THEN Kept(ui[s].deferred, {i})
                     ELSE IF deferred THEN [ui[s].deferred EXCEPT ![i] = d.text]
                     ELSE ui[s].deferred
           q    == IF queued THEN Append(queue[s], Copy(i, d.text)) ELSE queue[s]
           mark == IF queued \/ deferred THEN d.text ELSE d.mark
<1>2. OfferMoves(s, t, i, d.text, copies, q, mark)
  BY DEF OfferMoves
<1>3. queue' = [queue EXCEPT ![s] = q]
  BY <1>1 DEF Shape
<1>4. cleared' = [cleared EXCEPT ![s] = cleared[s] \ {i}]
  BY <1>1
<1> HIDE DEF q
<1> QED
  BY <1>1, <1>2, <1>3, <1>4

\* What an offer leaves: the new text newest if it was accepted, the copies of
\* other documents where they were.
LEMMA OfferedCopies ==
  ASSUME Inv, SessionsFit, NEW s \in Sessions, NEW t \in Tabs, NEW i \in Ids, NEW x \in Texts,
         ui[s].call.stage = "send", NEW copies, NEW q, NEW mark,
         OfferMoves(s, t, i, x, copies, q, mark)
  PROVE  /\ copies \in Copies /\ q \in Seq(Command) /\ mark \in {x, tab[s][t].mark}
         /\ \A n \in DOMAIN q : ~q[n].awaited
         /\ \A u : QueueFits(u, q, troubled[s])
         /\ \/ Ahead(i, mark, copies, q)
            \/ mark = tab[s][t].mark /\ copies = ui[s].deferred /\ q = queue[s]
         /\ \A j \in Ids \ {i} : \A y, w, dir :
              /\ NewestIs(s, j, y, ui[s].deferred, queue[s], w, dir)
                   => NewestIs(s, j, y, copies, q, w, dir)
              /\ Forgotten(s, j, ui[s].deferred, queue[s], w, dir)
                   => Forgotten(s, j, copies, q, w, dir)
<1> DEFINE c == Copy(i, x)
           before == ui[s].deferred
<1>0. /\ Shape /\ before \in Copies /\ queue[s] \in Seq(Command)
      /\ x # NoText /\ x \in MaybeText
  BY Parts, RecoveryAssumption DEF Inv, MaybeText
<1>1. c \in Command /\ c.kind = "upsert" /\ c.id = i /\ c.text = x /\ ~c.awaited
  BY <1>0 DEF Copy, Command
<1> HIDE DEF c
<1>2. \A n \in DOMAIN queue[s] : ~queue[s][n].awaited
  BY QuietQueue
<1>3. ASSUME NEW u PROVE QueueFits(u, queue[s], troubled[s])
  BY QuietQueueFits
<1>4. CASE /\ Len(queue[s]) < QueueSize
           /\ q = Append(queue[s], c) /\ copies = Kept(before, {i}) /\ mark = x
  <2>1. /\ Len(q) = Len(queue[s]) + 1 /\ Len(queue[s]) \in Nat /\ q \in Seq(Command)
        /\ \A n \in DOMAIN q : \/ n \in DOMAIN queue[s] /\ q[n] = queue[s][n]
                               \/ n = Len(queue[s]) + 1 /\ q[n] = c
    BY <1>0, <1>1, <1>4, AppendMine, AppendQueued
  <2>2. copies \in Copies /\ copies[i] = NoText /\ \A j \in Ids \ {i} : copies[j] = before[j]
    BY <1>0, <1>4, KeptType DEF Kept
  <2>3. Ahead(i, mark, copies, q)
    BY <1>0, <1>1, <1>4, <2>2, AppendIsNewest
  <2>4. ASSUME NEW u PROVE QueueFits(u, q, troubled[s])
    <3>1. Len(q) <= QueueSize
      BY <1>4, <2>1, RecoveryAssumption
    <3>2. \A n \in DOMAIN q : CommandFits(q[n], n, u, q, troubled[s])
      BY <1>0, <1>1, <2>1, QuietQueue DEF CommandFits
    <3> QED
      BY <3>1, <3>2 DEF QueueFits
  <2>5. ASSUME NEW j \in Ids \ {i}, NEW y, NEW w, NEW dir,
               NewestIs(s, j, y, before, queue[s], w, dir)
        PROVE  NewestIs(s, j, y, copies, q, w, dir)
    BY <1>0, <1>1, <1>4, <2>2, <2>5, AppendKeepsNewest
  <2>6. ASSUME NEW j \in Ids \ {i}, NEW w, NEW dir,
               Forgotten(s, j, before, queue[s], w, dir)
        PROVE  Forgotten(s, j, copies, q, w, dir)
    <3>1. j \notin Holds(before) => j \notin Holds(copies)
      BY <2>2 DEF Holds
    <3> QED
      BY <1>0, <1>1, <1>4, <2>6, <3>1, AppendForgets
  <2>7. \A n \in DOMAIN q : ~q[n].awaited
    BY <1>1, <1>2, <2>1
  <2> QED
    BY <1>4, <2>1, <2>2, <2>3, <2>4, <2>5, <2>6, <2>7
<1>5. CASE q = queue[s] /\ copies = [before EXCEPT ![i] = x] /\ mark = x
  <2>1. copies \in Copies /\ copies[i] = x /\ \A j \in Ids \ {i} : copies[j] = before[j]
    BY <1>0, <1>5 DEF Copies
  <2>2. Ahead(i, mark, copies, q)
    BY <1>0, <1>5, <2>1 DEF Ahead
  <2>3. ASSUME NEW j \in Ids \ {i}, NEW y, NEW w, NEW dir
        PROVE  /\ NewestIs(s, j, y, before, queue[s], w, dir) => NewestIs(s, j, y, copies, q, w, dir)
               /\ Forgotten(s, j, before, queue[s], w, dir) => Forgotten(s, j, copies, q, w, dir)
    BY <1>5, <2>1 DEF NewestIs, Ahead, Forgotten, Holds
  <2> QED
    BY <1>0, <1>2, <1>3, <1>5, <2>1, <2>2, <2>3
<1>6. CASE q = queue[s] /\ copies = before /\ mark = tab[s][t].mark
  BY <1>0, <1>2, <1>3, <1>6
<1> QED
  BY <1>4, <1>5, <1>6 DEF OfferMoves, c

\* sync_recovery offers a copy of a document that differs from its last one.
LEMMA SyncOfferKeepsFit ==
  ASSUME Inv, SessionsFit, NEW s \in Sessions, NEW t \in Tabs, SyncOffer(s, t)
  PROVE  SessionsFit'
<1> DEFINE d == tab[s][t]
<1>0. /\ Shape /\ Live(s) /\ ui[s].call = NoCall /\ d \in Document /\ Unsaved(d) /\ ui[s] \in Thread
      /\ ui[s].call.stage = "send" /\ tab[s] \in [Tabs -> Document] /\ DocsFit(tab[s])
  BY Parts, FitParts, NoCallType DEF Inv, SyncOffer, Busy, ToOffer
<1>1. d.text \in Texts
  BY <1>0 DEF DocsFit, Unsaved, Document, MaybeText
<1> DEFINE Offered(i, copies, q, mark) ==
             /\ OfferMoves(s, t, i, d.text, copies, q, mark)
             /\ queue' = [queue EXCEPT ![s] = q]
             /\ ui' = [ui EXCEPT ![s] = [ui[s] EXCEPT !.tried = ui[s].tried \cup {t},
                                                      !.deferred = copies]]
             /\ SetTab(s, t, [d EXCEPT !.id = i, !.mark = mark])
             /\ minted' = minted \cup {i}
             /\ cleared' = [cleared EXCEPT ![s] = cleared[s] \ {i}]
<1>1a. PICK i \in (IF d.id # NoId THEN {d.id} ELSE Ids \ minted) :
         \E copies, q, mark : Offered(i, copies, q, mark)
  BY <1>0, SyncOfferMoves
<1>2. PICK copies, q, mark : Offered(i, copies, q, mark)
  BY <1>1a
<1>3. i \in Ids /\ (i = d.id \/ (d.id = NoId /\ \A v \in Tabs : tab[s][v].id # i))
  <2>1. d.id \in Ids \cup {NoId}
    BY <1>0 DEF Document
  <2>2. d.id = NoId => \A v \in Tabs : tab[s][v].id # i
    BY <1>1a DEF Inv, Custody, Keeps, KeptBy, Opened
  <2> QED
    BY <1>1a, <2>1, <2>2
<1> DEFINE e    == [d EXCEPT !.id = i, !.mark = mark]
           docs == [tab[s] EXCEPT ![t] = e]
           u    == [ui[s] EXCEPT !.tried = ui[s].tried \cup {t}, !.deferred = copies]
<1>4. /\ copies \in Copies /\ q \in Seq(Command) /\ mark \in {d.text, d.mark}
      /\ \A n \in DOMAIN q : ~q[n].awaited
      /\ QueueFits(u, q, troubled[s])
      /\ \/ Ahead(i, mark, copies, q)
         \/ mark = d.mark /\ copies = ui[s].deferred /\ q = queue[s]
      /\ \A j \in Ids \ {i} : \A y, w, dir :
           /\ NewestIs(s, j, y, ui[s].deferred, queue[s], w, dir)
                => NewestIs(s, j, y, copies, q, w, dir)
           /\ Forgotten(s, j, ui[s].deferred, queue[s], w, dir)
                => Forgotten(s, j, copies, q, w, dir)
  <2>1. OfferMoves(s, t, i, d.text, copies, q, mark)
    BY <1>2
  <2> DEFINE x == d.text
  <2>2. OfferMoves(s, t, i, x, copies, q, mark) /\ x \in Texts /\ i \in Ids
    BY <1>1, <1>3, <2>1
  <2>3. ui[s].call.stage = "send"
    BY <1>0
  <2> HIDE DEF u, e, docs, Offered, x
  <2>4. /\ copies \in Copies /\ q \in Seq(Command) /\ mark \in {x, tab[s][t].mark}
        /\ \A n \in DOMAIN q : ~q[n].awaited
        /\ QueueFits(u, q, troubled[s])
        /\ \/ Ahead(i, mark, copies, q)
           \/ mark = tab[s][t].mark /\ copies = ui[s].deferred /\ q = queue[s]
    BY <2>2, <2>3, OfferedCopies
  <2>5. \A j \in Ids \ {i} : \A y, w, dir :
           /\ NewestIs(s, j, y, ui[s].deferred, queue[s], w, dir)
                => NewestIs(s, j, y, copies, q, w, dir)
           /\ Forgotten(s, j, ui[s].deferred, queue[s], w, dir)
                => Forgotten(s, j, copies, q, w, dir)
    BY <2>2, <2>3, OfferedCopies
  <2> QED
    BY <2>4, <2>5 DEF x
<1>5. e \in Document /\ e.id = i /\ e.mark = mark /\ e.open = d.open /\ e.text = d.text
  BY <1>0, <1>3, <1>4 DEF Document
<1> HIDE DEF e
<1>6. /\ docs \in [Tabs -> Document] /\ docs[t] = e
      /\ \A v \in Tabs : v # t => docs[v] = tab[s][v]
  BY <1>0, <1>5
<1>7. /\ u \in Thread /\ u.call = NoCall /\ u.deferred = copies /\ u.listed = ui[s].listed
      /\ u.phase = ui[s].phase /\ u.tried = ui[s].tried \cup {t}
  BY <1>0, <1>4 DEF Thread
<1>8. /\ tab' = [tab EXCEPT ![s] = docs] /\ ui' = [ui EXCEPT ![s] = u]
      /\ disk' = disk /\ writer' = writer /\ session' = session /\ reports' = reports
      /\ troubled' = troubled
  BY <1>0, <1>2 DEF SyncOffer, SetTab, Shape, e
<1> HIDE DEF docs, u, d
<1>9. ~writer[s].flushing
  BY <1>0, NobodyWaits
<1>10. Corresponds(u, q, writer[s])
  BY <1>4, <1>7, <1>9, NoCallType DEF Corresponds
<1>11. Moves(s, docs, u, q, writer[s])
  BY <1>0, <1>2, <1>3, <1>4, <1>6, <1>7, <1>8, <1>10, Parts DEF Moves, Shape
<1>12. Alters(s, NoId)
  BY <1>0, <1>8 DEF Alters, Shape
<1>13. Notes(s, reports[s], troubled[s], cleared[s] \ {i})
  BY <1>2, <1>8 DEF Notes, SessionsFit, Noted
<1>14. DocsFit(docs)
  BY <1>0, <1>3, <1>5, <1>6, RecoveryAssumption DEF DocsFit, d
<1>15. CopiesKept(s, docs, u, q, writer[s], reports[s], troubled[s], disk)
  <2> SUFFICES ASSUME NEW v \in Tabs, NEW j \in Ids,
                      Promised(docs[v], j, u, reports[s], troubled[s]), ~Reloaded(docs, u, v)
               PROVE  NewestIs(s, j, docs[v].mark, u.deferred, q, writer[s], disk)
    BY DEF CopiesKept
  <2>1. CASE v # t
    <3>1. docs[v] = tab[s][v] /\ j # i
      BY <1>5, <1>6, <1>14, <2>1 DEF DocsFit, Promised
    <3>2. ~Reloaded(tab[s], ui[s], v)
      BY <1>7, <2>1, <3>1 DEF Reloaded
    <3>3. Promised(tab[s][v], j, ui[s], reports[s], troubled[s])
      BY <1>0, <1>7, <3>1 DEF Promised
    <3>4. NewestIs(s, j, docs[v].mark, ui[s].deferred, queue[s], writer[s], disk)
      BY <3>1, <3>2, <3>3, FitParts DEF CopiesKept
    <3> QED
      BY <1>4, <1>7, <3>1, <3>4
  <2>2. CASE v = t
    <3>1. j = i /\ docs[v].mark = mark
      BY <1>5, <1>6, <2>2 DEF Promised
    <3>2. CASE Ahead(i, mark, copies, q)
      BY <1>7, <3>1, <3>2 DEF NewestIs
    <3>3. CASE mark = d.mark /\ copies = ui[s].deferred /\ q = queue[s]
      <4>1. d.id = i
        BY <1>0, <1>3, <2>2, <3>1, <3>3 DEF Promised, DocsFit, d
      <4>2. Promised(tab[s][t], i, ui[s], reports[s], troubled[s])
        BY <1>0, <1>7, <2>2, <3>1, <3>3, <4>1 DEF Promised, d
      <4>3. ~Reloaded(tab[s], ui[s], t)
        BY <1>0 DEF Reloaded, d
      <4>4. NewestIs(s, i, tab[s][t].mark, ui[s].deferred, queue[s], writer[s], disk)
        BY <1>3, <4>2, <4>3, FitParts DEF CopiesKept
      <4> QED
        BY <1>7, <3>1, <3>3, <4>4 DEF d
    <3> QED
      BY <1>4, <3>2, <3>3
  <2> QED
    BY <2>1, <2>2
<1>16. ClearsFit(s, u, q, writer[s], cleared[s] \ {i}, disk)
  <2>1. ASSUME NEW j \in cleared[s] \ {i}
        PROVE  Forgotten(s, j, u.deferred, q, writer[s], disk) /\ j \notin u.listed
    <3>1. /\ j \in Ids \ {i} /\ Forgotten(s, j, ui[s].deferred, queue[s], writer[s], disk)
          /\ j \notin ui[s].listed
      BY <2>1, FitParts DEF ClearsFit
    <3> QED
      BY <1>4, <1>7, <3>1
  <2> QED
    BY <1>7, <1>9, <2>1, NoCallType DEF ClearsFit
<1>17. CallFits(docs, u)
  BY <1>7, NoCallFits
<1>18. SessionFits(s, docs, u, q, writer[s], reports[s], troubled[s], cleared[s] \ {i}, disk')
  BY <1>4, <1>8, <1>14, <1>15, <1>16, <1>17, FitParts DEF SessionFits
<1>19. session'[s] = "live"
  BY <1>0, <1>8 DEF Live
<1> QED
  BY <1>11, <1>12, <1>13, <1>18, <1>19, MovesKeepFit

\* Everything the UI thread does.
LEMMA UiStepKeepsFit ==
  ASSUME Inv, SessionsFit, NEW s \in Sessions, UiStep(s)
  PROVE  SessionsFit'
<1>1. ASSUME NEW t \in Tabs, SyncResolve(s, t) PROVE SessionsFit'
  BY <1>1, CallForKeepsFit DEF SyncResolve, Busy, ToResolve
<1>2. ASSUME NEW t \in Tabs, QuitClear(s, t) PROVE SessionsFit'
  BY <1>2, CallForKeepsFit DEF QuitClear, Busy, ToClear
<1>3. CASE SyncFinish(s)
  <2>1. ui[s].wake \in BOOLEAN
    BY Parts DEF Inv, Thread
  <2>2. \A t \in Tabs : Reloaded(tab[s], ui[s], t) => tab[s][t].id = NoId
    BY <1>3 DEF SyncFinish, ToResolve, Reloaded
  <2> QED
    BY <1>3, <2>1, <2>2, DrainKeepsFit DEF SyncFinish, Busy
<1>4. CASE AfterWake(s)
  <2>1. \A t \in Tabs : Reloaded(tab[s], ui[s], t) => tab[s][t].id = NoId
    BY <1>4 DEF AfterWake, Busy, Reloaded
  <2> QED
    BY <1>4, <2>1, DrainKeepsFit DEF AfterWake, Busy
<1> QED
  BY <1>1, <1>2, <1>3, <1>4, SendKeepsFit, ReturnKeepsFit, SyncOfferKeepsFit, QuitDecideKeepsFit
  DEF UiStep

-----------------------------------------------------------------------------
(* The writer *)

\* What is left of the queue: an awaited head was all of it.
LEMMA TailMine ==
  ASSUME NEW q \in Seq(Command), q # <<>>, NEW i
  PROVE  LET rest == Tail(q)
         IN  /\ rest \in Seq(Command) /\ Len(rest) = Len(q) - 1 /\ Len(q) \in Nat /\ Len(rest) \in Nat
             /\ 1 = Len(q) => DOMAIN rest = {}
             /\ \A n \in DOMAIN rest : n \in Nat \ {0} /\ n + 1 \in DOMAIN q /\ rest[n] = q[n + 1]
             /\ \A n \in Mine(rest, i) : n + 1 \in Mine(q, i)
             /\ \A n \in Mine(q, i) : n \in Nat /\ (n = 1 \/ n - 1 \in Mine(rest, i))
<1> DEFINE rest == Tail(q)
           l == Len(q)
<1>1. /\ rest \in Seq(Command) /\ Len(rest) = l - 1
      /\ \A n \in 1..Len(rest) : rest[n] = q[n + 1]
  BY HeadTailProperties
<1>2. l \in Nat /\ l >= 1 /\ DOMAIN q = 1..l
  BY EmptySeq, LenProperties
<1>3. DOMAIN rest = 1..(l - 1)
  BY <1>1, LenProperties
<1> HIDE DEF rest, l
<1>4. \A n \in DOMAIN rest : n \in Nat \ {0} /\ n + 1 \in DOMAIN q /\ rest[n] = q[n + 1]
  BY <1>1, <1>2, <1>3
<1>5. \A n \in Mine(rest, i) : n + 1 \in Mine(q, i)
  BY <1>4 DEF Mine
<1>6. ASSUME NEW n \in Mine(q, i), n # 1 PROVE n - 1 \in Mine(rest, i)
  <2>1. n - 1 \in DOMAIN rest /\ (n - 1) + 1 = n
    BY <1>2, <1>3, <1>6 DEF Mine
  <2> QED
    BY <1>4, <1>6, <2>1 DEF Mine
<1>7. \A n \in Mine(q, i) : n \in Nat
  BY <1>2 DEF Mine
<1>8. 1 = l => DOMAIN rest = {}
  BY <1>3
<1> QED
  BY <1>1, <1>2, <1>4, <1>5, <1>6, <1>7, <1>8 DEF rest, l

\* Taking the head leaves the newest copy ahead, or the head was it, or it had
\* arrived before.
LEMMA TailKeepsNewest ==
  ASSUME NEW q \in Seq(Command), q # <<>>, NEW s, NEW i, NEW x, NEW copies, NEW w, NEW dir,
         NewestIs(s, i, x, copies, q, w, dir)
  PROVE  \/ Ahead(i, x, copies, Tail(q))
         \/ /\ copies[i] = NoText /\ Mine(Tail(q), i) = {}
            /\ \/ Head(q).kind \in {"upsert", "remove"} /\ Head(q).id = i /\ Head(q).text = x
               \/ /\ ~(Head(q).kind \in {"upsert", "remove"} /\ Head(q).id = i)
                  /\ Arrived(s, i, x, w, dir)
<1> DEFINE rest == Tail(q)
           h == Head(q)
<1>1. /\ \A n \in DOMAIN rest : n \in Nat \ {0} /\ rest[n] = q[n + 1]
      /\ \A n \in Mine(rest, i) : n + 1 \in Mine(q, i)
      /\ \A n \in Mine(q, i) : n \in Nat /\ (n = 1 \/ n - 1 \in Mine(rest, i))
  BY TailMine
<1>2. h = q[1] /\ 1 \in DOMAIN q
  BY TailFacts
<1> HIDE DEF rest, h
<1>3. h.kind \in {"upsert", "remove"} /\ h.id = i <=> 1 \in Mine(q, i)
  BY <1>2 DEF Mine
<1>4. CASE copies[i] # NoText
  BY <1>4 DEF NewestIs, Ahead, rest
<1>5. CASE /\ copies[i] = NoText
           /\ \E n \in Mine(q, i) : q[n].text = x /\ \A m \in Mine(q, i) : m <= n
  <2>1. PICK n \in Mine(q, i) : q[n].text = x /\ \A m \in Mine(q, i) : m <= n
    BY <1>5
  <2>2. CASE n = 1
    <3>1. Mine(rest, i) = {}
      <4> SUFFICES ASSUME NEW m \in Mine(rest, i) PROVE FALSE
        OBVIOUS
      <4>1. m \in Nat \ {0} /\ m + 1 <= 1
        BY <1>1, <2>1, <2>2 DEF Mine
      <4> QED
        BY <4>1
    <3> QED
      BY <1>2, <1>3, <1>5, <2>1, <2>2, <3>1 DEF rest, h
  <2>3. CASE n # 1
    <3>1. n \in Nat /\ n - 1 \in Mine(rest, i)
      BY <1>1, <2>1, <2>3
    <3>2. rest[n - 1] = q[n]
      BY <1>1, <3>1 DEF Mine
    <3>3. ASSUME NEW m \in Mine(rest, i) PROVE m <= n - 1
      <4>1. m \in Nat /\ m + 1 <= n
        BY <1>1, <2>1, <3>3 DEF Mine
      <4> QED
        BY <3>1, <4>1
    <3>4. Ahead(i, x, copies, rest)
      BY <1>5, <2>1, <3>1, <3>2, <3>3 DEF Ahead
    <3> QED
      BY <3>4 DEF rest
  <2> QED
    BY <2>2, <2>3
<1>6. CASE copies[i] = NoText /\ Mine(q, i) = {} /\ Arrived(s, i, x, w, dir)
  BY <1>1, <1>3, <1>6 DEF rest, h
<1> QED
  BY <1>4, <1>5, <1>6 DEF NewestIs, Ahead

\* And what was forgotten is neither the head, if it copies or claims, nor left.
LEMMA TailForgets ==
  ASSUME NEW q \in Seq(Command), q # <<>>, NEW i \in Ids, i \notin Queued(q) \cup Claims(q)
  PROVE  /\ i \notin Queued(Tail(q)) \cup Claims(Tail(q))
         /\ Head(q).kind \in {"upsert", "claim"} => Head(q).id # i
<1>1. /\ Head(q) = q[1] /\ 1 \in DOMAIN q
      /\ \A n \in DOMAIN Tail(q) : n + 1 \in DOMAIN q /\ Tail(q)[n] = q[n + 1]
  BY TailFacts
<1> QED
  BY <1>1 DEF Queued, Claims

\* What a thread in the same call knows of the rest of the queue.
LEMMA TailFits ==
  ASSUME Inv, SessionsFit, NEW s \in Sessions, queue[s] # <<>>, NEW u,
         u.call = ui[s].call \/ Head(queue[s]).awaited
  PROVE  /\ QueueFits(u, Tail(queue[s]), troubled[s])
         /\ Head(queue[s]).awaited => DOMAIN Tail(queue[s]) = {}
<1> DEFINE rest == Tail(queue[s])
<1>1. queue[s] \in Seq(Command)
  BY Parts DEF Inv
<1>2. /\ Len(rest) = Len(queue[s]) - 1 /\ Len(queue[s]) \in Nat /\ Len(rest) \in Nat
      /\ 1 = Len(queue[s]) => DOMAIN rest = {}
      /\ \A n \in DOMAIN rest : n \in Nat \ {0} /\ n + 1 \in DOMAIN queue[s]
                                /\ rest[n] = queue[s][n + 1]
  BY <1>1, TailMine
<1>3. Head(queue[s]) = queue[s][1] /\ 1 \in DOMAIN queue[s]
  BY <1>1, TailFacts
<1>4. QueueFits(ui[s], queue[s], troubled[s])
  BY FitParts
<1>5. Head(queue[s]).awaited => DOMAIN rest = {}
  BY <1>2, <1>3, <1>4 DEF QueueFits, CommandFits
<1>6. Len(rest) <= QueueSize
  BY <1>2, <1>4, RecoveryAssumption DEF QueueFits
<1>7. ASSUME NEW n \in DOMAIN rest PROVE CommandFits(rest[n], n, u, rest, troubled[s])
  <2>1. u.call = ui[s].call
    BY <1>5, <1>7
  <2>2. CommandFits(queue[s][n + 1], n + 1, ui[s], queue[s], troubled[s]) /\ rest[n] = queue[s][n + 1]
    BY <1>2, <1>4, <1>7 DEF QueueFits
  <2>3. n + 1 = Len(queue[s]) => n = Len(rest)
    BY <1>2, <1>7
  <2> HIDE DEF rest
  <2> QED
    BY <2>1, <2>2, <2>3 DEF CommandFits
<1> QED
  BY <1>5, <1>6, <1>7 DEF QueueFits

\* What a step of the writer leaves: the newest copies that are neither
\* reported, cleared nor troubled ...
Survives(s, q, w, rep, dir) ==
  \A i \in Ids : \A x :
    i \notin rep \cup troubled[s] /\ ~Clears(ui[s].call, i) =>
      (NewestIs(s, i, x, ui[s].deferred, queue[s], writer[s], disk)
         => NewestIs(s, i, x, ui[s].deferred, q, w, dir))

\* ... what was forgotten ...
Forgets(s, q, w, dir) ==
  \A i \in Ids : Forgotten(s, i, ui[s].deferred, queue[s], writer[s], disk)
                   => Forgotten(s, i, ui[s].deferred, q, w, dir)

\* ... and a thread in the same call, whose clear is answered with Ok once it is
\* done.
Answers(s, u, q, w, dir) ==
  /\ SameSync(u, ui[s]) /\ u.deferred = ui[s].deferred
  /\ u.call.stage = "wait" => ui[s].call.stage = "wait"
  /\ u.call.stage = "answered" /\ u.call.ok /\ Clearing(u.call) =>
       Forgotten(s, u.call.id, u.deferred, q, w, dir)
  /\ w.flushing => ~Clearing(ui[s].call)

LEMMA WriterKeepsFit ==
  ASSUME Inv, SessionsFit, NEW s \in Sessions, Live(s), NEW u, NEW q, NEW w,
         NEW rep \in SUBSET Ids, reports[s] \subseteq rep, NEW j,
         Moves(s, tab[s], u, q, w), Alters(s, j), session' = session,
         reports' = [reports EXCEPT ![s] = rep], cleared' = cleared, troubled' = troubled,
         QueueFits(u, q, troubled[s]),
         Survives(s, q, w, rep, disk'), Forgets(s, q, w, disk'), Answers(s, u, q, w, disk')
  PROVE  SessionsFit'
<1>1. Notes(s, rep, troubled[s], cleared[s])
  BY DEF Notes, SessionsFit, Noted
<1>2. u \in Thread /\ ui[s] \in Thread /\ SameSync(u, ui[s]) /\ u.deferred = ui[s].deferred
  BY Parts DEF Inv, Moves, Answers
<1>3. CallFits(tab[s], u)
  BY <1>2, FitParts, SameSyncFits
<1>4. CopiesKept(s, tab[s], u, q, w, rep, troubled[s], disk')
  <2> SUFFICES ASSUME NEW t \in Tabs, NEW i \in Ids,
                      Promised(tab[s][t], i, u, rep, troubled[s]), ~Reloaded(tab[s], u, t)
               PROVE  NewestIs(s, i, tab[s][t].mark, u.deferred, q, w, disk')
    BY DEF CopiesKept
  <2>1. Promised(tab[s][t], i, ui[s], rep, troubled[s]) /\ ~Reloaded(tab[s], ui[s], t)
    BY <1>2, SameSyncFits
  <2>2. /\ Promised(tab[s][t], i, ui[s], reports[s], troubled[s])
        /\ i \notin rep \cup troubled[s] /\ ~Clears(ui[s].call, i)
    BY <2>1 DEF Promised
  <2>3. NewestIs(s, i, tab[s][t].mark, ui[s].deferred, queue[s], writer[s], disk)
    BY <2>1, <2>2, FitParts DEF CopiesKept
  <2> QED
    BY <1>2, <2>2, <2>3 DEF Survives
<1>5. ClearsFit(s, u, q, w, cleared[s], disk')
  <2>1. cleared[s] \subseteq Ids /\ ClearsFit(s, ui[s], queue[s], writer[s], cleared[s], disk)
    BY FitParts
  <2>2. /\ u.call.why = ui[s].call.why /\ u.call.id = ui[s].call.id
        /\ u.listed = ui[s].listed /\ (Clearing(u.call) <=> Clearing(ui[s].call))
    BY <1>2, SameSyncFits DEF SameSync, SameCall
  <2>3. ASSUME NEW i \in cleared[s]
        PROVE  /\ Forgotten(s, i, u.deferred, q, w, disk')
               /\ i \notin u.listed /\ (u.call.why = "restore" => u.call.id # i)
    BY <1>2, <2>1, <2>2, <2>3 DEF ClearsFit, Forgets
  <2> QED
    BY <1>2, <2>1, <2>2, <2>3 DEF ClearsFit, Answers
<1>6. SessionFits(s, tab[s], u, q, w, rep, troubled[s], cleared[s], disk')
  BY <1>3, <1>4, <1>5, FitParts DEF SessionFits
<1>7. session'[s] = "live"
  BY DEF Live
<1> QED
  BY <1>1, <1>6, <1>7, MovesKeepFit

\* A directory in which the records of s other than j are what they were.
LEMMA ArrivedStays ==
  ASSUME Inv, NEW s \in Sessions, Live(s), NEW j, Alters(s, j), NEW i \in Ids, i # j, NEW x,
         NEW w, NEW before, w.pending[i] = before.pending[i], w.batch[i] = before.batch[i],
         Arrived(s, i, x, before, disk)
  PROVE  Arrived(s, i, x, w, disk')
<1>1. disk[i].owner = s => disk'[i] = disk[i]
  BY RecordStays
<1> QED
  BY <1>1 DEF Arrived

\* Flushing what was gathered.
LEMMA FlushingFacts ==
  ASSUME NEW pending \in Copies, NEW awaited \in BOOLEAN
  PROVE  LET w == Flushing(pending, awaited)
         IN  /\ w \in Worker /\ w.pending = NoCopies /\ w.batch = pending /\ w.flushing = awaited
             /\ \A i \in Ids : w.pending[i] = NoText
  BY IdleTypes DEF Flushing, Worker, NoCopies

LEMMA FlushKeepsArrived ==
  ASSUME NEW before \in Worker, Holds(before.batch) = {}, NEW w, NEW i \in Ids,
         w.pending[i] = NoText, w.batch[i] = before.pending[i], NEW s, NEW x, NEW dir
  PROVE  /\ Arrived(s, i, x, before, dir) => Arrived(s, i, x, w, dir)
         /\ i \notin Holds(before.pending) => i \notin Holds(w.pending) \cup Holds(w.batch)
<1>1. before.batch[i] = NoText
  BY DEF Holds
<1> QED
  BY <1>1 DEF Arrived, Holds

\* What the writer does with a copy: refused, gathered or flushed at once.
TakesIn(s, c, w, rep) ==
  LET pending == Gathered(writer[s].pending, c)
  IN  \/ w = writer[s] /\ rep = reports[s] \cup {c.id}
      \/ w = [writer[s] EXCEPT !.pending = pending, !.first = TRUE] /\ rep = reports[s]
      \/ w = Flushing(pending, FALSE) /\ rep = reports[s]

\* A copy that was taken in is the gathered one, unless it was refused.
LEMMA TakesInFacts ==
  ASSUME Inv, NEW s \in Sessions, NEW c \in Command, c.id \in Ids, c.text # NoText,
         Holds(writer[s].batch) = {}, ~writer[s].flushing, NEW w, NEW rep, TakesIn(s, c, w, rep)
  PROVE  /\ w \in Worker /\ ~w.flushing
         /\ rep = reports[s] \/ rep = reports[s] \cup {c.id}
         /\ \A dir, x : c.id \in rep \/ (x = c.text => Arrived(s, c.id, x, w, dir))
         /\ \A i \in Ids : \A dir, x :
              i # c.id => /\ Arrived(s, i, x, writer[s], dir) => Arrived(s, i, x, w, dir)
                          /\ i \notin Holds(writer[s].pending) =>
                               i \notin Holds(w.pending) \cup Holds(w.batch)
<1> DEFINE v == writer[s]
           pending == Gathered(v.pending, c)
<1>0. v \in Worker /\ v.pending \in Copies /\ v.batch \in Copies /\ c.text \in MaybeText
  BY Parts DEF Inv, Command
<1>1. /\ pending \in Copies /\ pending[c.id] = c.text
      /\ \A i \in Ids : i # c.id => pending[i] = v.pending[i]
  BY <1>0 DEF Gathered, Copies
<1>2. \A i \in Ids : v.batch[i] = NoText
  BY DEF Holds
<1>3. v = writer[s]
  OBVIOUS
<1> HIDE DEF pending, v
<1>4. CASE w = v /\ rep = reports[s] \cup {c.id}
  BY <1>0, <1>2, <1>3, <1>4 DEF Holds
<1>5. CASE w = [v EXCEPT !.pending = pending, !.first = TRUE] /\ rep = reports[s]
  <2>1. /\ w \in Worker /\ w.pending = pending /\ w.batch = v.batch
        /\ w.flushing = v.flushing
    BY <1>0, <1>1, <1>5 DEF Worker
  <2>2. \A dir, x : x = c.text => Arrived(s, c.id, x, w, dir)
    BY <1>1, <2>1 DEF Arrived
  <2>3. ASSUME NEW i \in Ids, NEW dir, NEW x, i # c.id
        PROVE  /\ Arrived(s, i, x, v, dir) => Arrived(s, i, x, w, dir)
               /\ i \notin Holds(v.pending) => i \notin Holds(w.pending) \cup Holds(w.batch)
    BY <1>1, <1>2, <2>1, <2>3 DEF Arrived, Holds
  <2> QED
    BY <1>3, <1>5, <2>1, <2>2, <2>3
<1>6. CASE w = Flushing(pending, FALSE) /\ rep = reports[s]
  <2>1. /\ w \in Worker /\ ~w.flushing /\ w.batch = pending
        /\ \A i \in Ids : w.pending[i] = NoText
    BY <1>1, <1>6, FlushingFacts
  <2>2. \A dir, x : x = c.text => Arrived(s, c.id, x, w, dir)
    BY <1>1, <2>1 DEF Arrived
  <2>3. ASSUME NEW i \in Ids, NEW dir, NEW x, i # c.id
        PROVE  /\ Arrived(s, i, x, v, dir) => Arrived(s, i, x, w, dir)
               /\ i \notin Holds(v.pending) => i \notin Holds(w.pending) \cup Holds(w.batch)
    BY <1>1, <1>2, <2>1, <2>3 DEF Arrived, Holds
  <2> QED
    BY <1>3, <1>6, <2>1, <2>2, <2>3
<1> QED
  BY <1>3, <1>4, <1>5, <1>6 DEF TakesIn, pending

\* Taking a copy in.
LEMMA TakeUpsertKeepsFit ==
  ASSUME Inv, SessionsFit, NEW s \in Sessions, TakeUpsert(s)
  PROVE  SessionsFit'
<1> DEFINE h == Head(queue[s])
           u == [ui[s] EXCEPT !.wake = TRUE]
           q == Tail(queue[s])
<1>0. /\ Shape /\ Live(s) /\ queue[s] \in Seq(Command) /\ queue[s] # <<>> /\ h \in Command
      /\ h.kind = "upsert" /\ Corresponds(ui[s], queue[s], writer[s])
      /\ Holds(writer[s].batch) = {} /\ ~writer[s].flushing /\ ui[s] \in Thread
  BY ReceivesFacts, Parts DEF TakeUpsert
<1>1. h.id \in Ids /\ h.text # NoText
  BY <1>0, TailFacts, FitParts DEF QueueFits, CommandFits
<1>2. /\ u \in Thread /\ u.call = ui[s].call /\ u.deferred = ui[s].deferred
      /\ u.listed = ui[s].listed /\ u.phase = ui[s].phase /\ u.tried = ui[s].tried
  BY <1>0 DEF Thread
<1>3. /\ q \in Seq(Command)
      /\ \A n \in DOMAIN q : q[n].awaited =>
           /\ ui[s].call.stage = "wait" /\ ui[s].call.id = q[n].id
           /\ \A m \in DOMAIN q : q[m].awaited => m = n
  BY <1>0, TailFacts, TailQueued
<1>4. PICK w, rep : /\ TakesIn(s, h, w, rep) /\ writer' = [writer EXCEPT ![s] = w]
                    /\ reports' = [reports EXCEPT ![s] = rep]
  <2> DEFINE before == writer[s]
             pending == Gathered(before.pending, h)
             w1 == [before EXCEPT !.pending = pending, !.first = TRUE]
             w2 == Flushing(pending, FALSE)
  <2>0. /\ writer = [writer EXCEPT ![s] = before]
        /\ reports = [reports EXCEPT ![s] = reports[s]]
    BY <1>0 DEF Shape, SessionsFit, Noted
  <2>1. TakesIn(s, h, before, reports[s] \cup {h.id})
    BY DEF TakesIn
  <2>2. TakesIn(s, h, w1, reports[s])
    BY DEF TakesIn
  <2>3. TakesIn(s, h, w2, reports[s])
    BY DEF TakesIn
  <2>4. \/ writer' = writer /\ reports' = [reports EXCEPT ![s] = reports[s] \cup {h.id}]
        \/ writer' = [writer EXCEPT ![s] = w1] /\ reports' = reports
        \/ writer' = [writer EXCEPT ![s] = w2] /\ reports' = reports
    BY DEF TakeUpsert
  <2> HIDE DEF before, pending, w1, w2, h, u, q
  <2> QED
    BY <2>0, <2>1, <2>2, <2>3, <2>4
<1>5. /\ ui' = [ui EXCEPT ![s] = u] /\ queue' = [queue EXCEPT ![s] = q] /\ tab' = tab
      /\ session' = session /\ minted' = minted /\ disk' = disk
      /\ cleared' = cleared /\ troubled' = troubled
  BY DEF TakeUpsert, Wake, Taken
<1> HIDE DEF u, h
<1>6. /\ w \in Worker /\ ~w.flushing
      /\ rep = reports[s] \/ rep = reports[s] \cup {h.id}
      /\ \A dir, x : h.id \in rep \/ (x = h.text => Arrived(s, h.id, x, w, dir))
      /\ \A i \in Ids : \A dir, x :
           i # h.id => /\ Arrived(s, i, x, writer[s], dir) => Arrived(s, i, x, w, dir)
                       /\ i \notin Holds(writer[s].pending) =>
                            i \notin Holds(w.pending) \cup Holds(w.batch)
  BY <1>0, <1>1, <1>4, TakesInFacts
<1>7. Corresponds(u, q, w)
  <2> HIDE DEF q
  <2> QED
    BY <1>0, <1>2, <1>3, <1>6 DEF Corresponds
<1>8. Moves(s, tab[s], u, q, w) /\ Alters(s, NoId)
  <2> HIDE DEF q
  <2> QED
    BY <1>0, <1>2, <1>3, <1>4, <1>5, <1>6, <1>7, Parts DEF Moves, Alters, Shape
<1>9. QueueFits(u, q, troubled[s])
  BY <1>0, <1>2, TailFits
<1>10. Survives(s, q, w, rep, disk')
  <2>0. ASSUME NEW i \in Ids, NEW x, i \notin rep,
               NewestIs(s, i, x, ui[s].deferred, queue[s], writer[s], disk)
        PROVE  NewestIs(s, i, x, ui[s].deferred, q, w, disk)
    <3>1. \/ Ahead(i, x, ui[s].deferred, q)
          \/ /\ ui[s].deferred[i] = NoText /\ Mine(q, i) = {}
             /\ \/ h.id = i /\ h.text = x
                \/ h.id # i /\ Arrived(s, i, x, writer[s], disk)
      BY <1>0, <2>0, TailKeepsNewest DEF h
    <3> HIDE DEF q
    <3> QED
      BY <1>6, <2>0, <3>1 DEF NewestIs
  <2> HIDE DEF q
  <2>2. disk' = disk
    BY <1>5
  <2>3. Survives(s, q, w, rep, disk)
    BY <2>0 DEF Survives
  <2> QED
    BY <2>2, <2>3
<1>11. Forgets(s, q, w, disk')
  <2> SUFFICES ASSUME NEW i \in Ids,
                      Forgotten(s, i, ui[s].deferred, queue[s], writer[s], disk)
               PROVE  Forgotten(s, i, ui[s].deferred, q, w, disk)
    BY <1>5 DEF Forgets
  <2>1. i \notin Queued(q) \cup Claims(q) /\ h.id # i
    BY <1>0, TailForgets DEF Forgotten, h
  <2> HIDE DEF q
  <2> QED
    BY <1>6, <2>1 DEF Forgotten
<1>12. Answers(s, u, q, w, disk')
  <2>1. ui[s].call.stage = "answered" /\ ui[s].call.ok /\ Clearing(ui[s].call) =>
          /\ ui[s].call.id \in Ids
          /\ Forgotten(s, ui[s].call.id, ui[s].deferred, queue[s], writer[s], disk)
    BY FitParts, NoCallType DEF ClearsFit, CallFits
  <2> HIDE DEF q
  <2> QED
    BY <1>2, <1>6, <1>11, <2>1 DEF Answers, SameSync, SameCall, Forgets
<1>13. rep \in SUBSET Ids /\ reports[s] \subseteq rep
  BY <1>1, <1>6, FitParts
<1> HIDE DEF q
<1> QED
  BY <1>0, <1>4, <1>5, <1>8, <1>9, <1>10, <1>11, <1>12, <1>13, WriterKeepsFit

\* The command the writer takes: what somebody waits for is the call, and a
\* Remove is the call's or one whose call returned an error.
LEMMA HeadFits ==
  ASSUME Inv, SessionsFit, NEW s \in Sessions, NEW kind, Receives(s, kind)
  PROVE  LET h == Head(queue[s])
             c == ui[s].call
         IN  /\ h.awaited => c # NoCall /\ c.stage = "wait" /\ c.id = h.id
                             /\ h.kind = Request(c).kind
             /\ h.awaited => (Clearing(c) <=> h.kind = "remove")
             /\ h.kind = "remove" => h.id \in troubled[s] \/ Clears(c, h.id)
             /\ h.kind = "upsert" => h.id \in Ids /\ h.text # NoText
<1> DEFINE h == Head(queue[s])
           c == ui[s].call
<1>1. h = queue[s][1] /\ 1 \in DOMAIN queue[s] /\ Corresponds(ui[s], queue[s], writer[s])
  BY ReceivesFacts, TailFacts
<1>2. CommandFits(h, 1, ui[s], queue[s], troubled[s])
  BY <1>1, FitParts DEF QueueFits
<1>3. h.awaited => c.stage = "wait" /\ c.id = h.id
  BY <1>1 DEF Corresponds
<1>4. h.awaited => c # NoCall /\ h.kind = Request(c).kind
  BY <1>2 DEF CommandFits
<1> HIDE DEF h
<1>5. h.kind = "remove" => h.id \in troubled[s] \/ Clears(c, h.id)
  BY <1>2, <1>3, <1>4 DEF CommandFits, Clears, Clearing
<1>6. h.kind = "upsert" => h.id \in Ids /\ h.text # NoText
  BY <1>2 DEF CommandFits
<1> QED
  BY <1>3, <1>4, <1>5, <1>6 DEF h, Clearing

\* The thread that is answered.
LEMMA AnsweredCall ==
  ASSUME NEW c \in Call, c.stage = "wait", NEW ok \in BOOLEAN, NEW x \in MaybeText
  PROVE  /\ Answered(c, ok, x) \in Call /\ SameCall(Answered(c, ok, x), c)
         /\ Answered(c, ok, x).stage = "answered" /\ Answered(c, ok, x).ok = ok
<1>1. /\ Answered(c, ok, x) \in Call /\ Answered(c, ok, x).stage = "answered"
      /\ Answered(c, ok, x).ok = ok /\ Answered(c, ok, x).why = c.why
      /\ Answered(c, ok, x).id = c.id /\ Answered(c, ok, x).tab = c.tab
  BY DEF Answered, Call
<1>2. Answered(c, ok, x) # NoCall /\ c # NoCall
  BY <1>1, NoCallType
<1> QED
  BY <1>1, <1>2 DEF SameCall

\* The invariant is kept by an answer that leaves the copies where they were,
\* if a clear is answered with Ok only once it is done.
LEMMA AnswerKeepsFit ==
  ASSUME Inv, SessionsFit, NEW s \in Sessions, NEW kind, Receives(s, kind),
         NEW ok \in BOOLEAN, NEW x \in MaybeText, Answer(s, ok, x), Taken(s),
         NEW w \in Worker, ~w.flushing, writer' = [writer EXCEPT ![s] = w],
         Holds(w.pending) \cup Holds(w.batch)
           \subseteq Holds(writer[s].pending) \cup Holds(writer[s].batch),
         tab' = tab, session' = session, minted' = minted,
         reports' = reports, cleared' = cleared, troubled' = troubled,
         NEW j, Alters(s, j), NEW q, q = Tail(queue[s]),
         Survives(s, q, w, reports[s], disk'), Forgets(s, q, w, disk'),
         Head(queue[s]).awaited /\ ok /\ Clearing(ui[s].call) =>
           Forgotten(s, ui[s].call.id, ui[s].deferred, q, w, disk')
  PROVE  SessionsFit'
<1> DEFINE h == Head(queue[s])
           c == ui[s].call
           call == IF h.awaited THEN Answered(c, ok, x) ELSE c
           v == [ui[s] EXCEPT !.wake = TRUE, !.call = call]
<1>0. Shape /\ Live(s) /\ ui[s] \in Thread /\ c \in Call /\ queue[s] # <<>> /\ h.awaited \in BOOLEAN
  BY ReceivesFacts, Parts DEF Command
<1>1. PICK u, rest : Moves(s, tab[s], u, rest, w)
  BY AnswerMoves
<1>2. ui' = [ui EXCEPT ![s] = v] /\ queue' = [queue EXCEPT ![s] = q]
  BY DEF Answer, Taken
<1>3. ui'[s] = v /\ ui'[s] = u /\ queue'[s] = q /\ queue'[s] = rest
  BY <1>0, <1>1, <1>2 DEF Moves, Shape
<1>4. /\ call \in Call /\ SameCall(call, c)
      /\ call = c \/ (h.awaited /\ call.stage = "answered" /\ call.ok = ok)
  <2>1. CASE h.awaited
    <3>1. c.stage = "wait"
      BY <2>1, HeadFits
    <3> QED
      BY <1>0, <2>1, <3>1, AnsweredCall
  <2>2. CASE ~h.awaited
    BY <1>0, <2>2 DEF SameCall
  <2> QED
    BY <2>1, <2>2
<1> HIDE DEF call
<1>5. v.call = call /\ v.deferred = ui[s].deferred /\ SameSync(v, ui[s])
  BY <1>0, <1>4 DEF Thread, SameSync
<1> HIDE DEF v, h
<1>6. u = v /\ rest = q
  BY <1>3
<1>7. QueueFits(u, q, troubled[s])
  BY <1>0, <1>4, <1>5, <1>6, TailFits DEF h
<1>8. Answers(s, u, q, w, disk')
  <2>1. c.stage = "answered" /\ c.ok /\ Clearing(c) =>
          c.id \in Ids /\ Forgotten(s, c.id, ui[s].deferred, queue[s], writer[s], disk)
    BY FitParts, NoCallType DEF ClearsFit, CallFits
  <2>2. Clearing(call) <=> Clearing(c)
    BY <1>0, <1>4, SameRequest
  <2>3. call.id = c.id
    BY <1>4 DEF SameCall
  <2>4. call.stage = "wait" => c.stage = "wait"
    BY <1>4
  <2>5. call.stage = "answered" /\ call.ok /\ Clearing(call) =>
          Forgotten(s, call.id, ui[s].deferred, q, w, disk')
    <3>1. CASE call = c
      BY <2>1, <3>1 DEF Forgets
    <3>2. CASE h.awaited /\ call.ok = ok
      BY <2>2, <2>3, <3>2 DEF h
    <3> QED
      BY <1>4, <3>1, <3>2
  <2> QED
    BY <1>5, <1>6, <2>4, <2>5 DEF Answers
<1>9. reports' = [reports EXCEPT ![s] = reports[s]] /\ reports[s] \in SUBSET Ids
  BY FitParts DEF SessionsFit, Noted
<1> QED
  BY <1>0, <1>1, <1>6, <1>7, <1>8, <1>9, WriterKeepsFit

\* A copy the head has nothing to do with stays the newest ...
LEMMA RestIsNewest ==
  ASSUME NEW s, NEW q \in Seq(Command), q # <<>>, NEW i, NEW x, NEW copies, NEW before, NEW dir,
         NEW w, NEW after, NewestIs(s, i, x, copies, q, before, dir),
         Head(q).kind \notin {"upsert", "remove"} \/ Head(q).id # i,
         Arrived(s, i, x, before, dir) => Arrived(s, i, x, w, after)
  PROVE  NewestIs(s, i, x, copies, Tail(q), w, after)
<1> DEFINE rest == Tail(q)
           h == Head(q)
<1>1. \/ Ahead(i, x, copies, rest)
      \/ /\ copies[i] = NoText /\ Mine(rest, i) = {}
         /\ \/ h.kind \in {"upsert", "remove"} /\ h.id = i /\ h.text = x
            \/ Arrived(s, i, x, before, dir)
  BY TailKeepsNewest
<1>2. h.kind \notin {"upsert", "remove"} \/ h.id # i
  OBVIOUS
<1> HIDE DEF rest, h
<1>3. NewestIs(s, i, x, copies, rest, w, after)
  BY <1>1, <1>2 DEF NewestIs
<1> QED
  BY <1>3 DEF rest

\* ... and what was forgotten stays so.
LEMMA RestIsForgotten ==
  ASSUME NEW s, NEW q \in Seq(Command), q # <<>>, NEW i \in Ids, NEW copies, NEW before, NEW dir,
         NEW w, NEW after, Forgotten(s, i, copies, q, before, dir),
         i \notin Holds(w.pending) \cup Holds(w.batch), after[i].owner # s
  PROVE  Forgotten(s, i, copies, Tail(q), w, after)
<1> DEFINE rest == Tail(q)
<1>1. i \notin Queued(q) \cup Claims(q)
  BY DEF Forgotten
<1>2. i \notin Queued(rest) \cup Claims(rest)
  BY <1>1, TailForgets
<1> HIDE DEF rest
<1>3. Forgotten(s, i, copies, rest, w, after)
  BY <1>2 DEF Forgotten
<1> QED
  BY <1>3 DEF rest

\* Taking a Remove: the gathered copy goes, and with Ok the record is gone too.
LEMMA TakeRemoveKeepsFit ==
  ASSUME Inv, SessionsFit, NEW s \in Sessions, TakeRemove(s)
  PROVE  SessionsFit'
<1> DEFINE h == Head(queue[s])
           before == writer[s]
           w == [before EXCEPT !.pending = Kept(before.pending, {h.id})]
           q == Tail(queue[s])
<1>0. /\ Receives(s, "remove") /\ Shape /\ Live(s) /\ h \in Command /\ h.kind = "remove"
      /\ queue[s] \in Seq(Command) /\ queue[s] # <<>>
      /\ before \in Worker /\ ~before.flushing /\ Holds(before.batch) = {}
  BY ReceivesFacts, Parts DEF TakeRemove
<1>1. PICK ok \in BOOLEAN : Remove(s, h.id, ok) /\ Answer(s, ok, NoText)
  BY DEF TakeRemove
<1>2. /\ Kept(before.pending, {h.id}) \in Copies
      /\ \A i \in Ids : Kept(before.pending, {h.id})[i] = IF i = h.id THEN NoText ELSE before.pending[i]
  BY <1>0, KeptType DEF Kept, Worker
<1>3. /\ w \in Worker /\ w.flushing = before.flushing /\ w.batch = before.batch
      /\ \A i \in Ids : w.pending[i] = IF i = h.id THEN NoText ELSE before.pending[i]
  BY <1>0, <1>2 DEF Worker
<1>4. /\ Taken(s) /\ writer' = [writer EXCEPT ![s] = w] /\ tab' = tab
      /\ session' = session /\ minted' = minted
      /\ reports' = reports /\ cleared' = cleared /\ troubled' = troubled
  BY DEF TakeRemove
<1> HIDE DEF w
<1>5. Holds(w.pending) \cup Holds(w.batch) \subseteq Holds(before.pending) \cup Holds(before.batch)
  BY <1>3 DEF Holds
<1>6. Alters(s, h.id) /\ (h.id \in Ids => disk'[h.id] = disk[h.id] \/ disk'[h.id] = NoRecord)
  BY <1>0, <1>1, RemoveAlters
<1>7. /\ h.id \in troubled[s] \/ Clears(ui[s].call, h.id)
      /\ h.awaited => ui[s].call # NoCall /\ ui[s].call.stage = "wait" /\ ui[s].call.id = h.id
  BY <1>0, HeadFits
<1>8. Survives(s, q, w, reports[s], disk')
  <2>1. ASSUME NEW i \in Ids, NEW x, i \notin troubled[s], ~Clears(ui[s].call, i),
               NewestIs(s, i, x, ui[s].deferred, queue[s], before, disk)
        PROVE  NewestIs(s, i, x, ui[s].deferred, q, w, disk')
    <3>1. i # h.id
      BY <1>7, <2>1
    <3>2. Arrived(s, i, x, before, disk) => Arrived(s, i, x, w, disk')
      BY <1>0, <1>3, <1>6, <3>1, ArrivedStays
    <3> QED
      BY <1>0, <2>1, <3>1, <3>2, RestIsNewest
  <2> HIDE DEF q
  <2> QED
    BY <2>1 DEF Survives
<1>9. Forgets(s, q, w, disk')
  <2>1. ASSUME NEW i \in Ids, Forgotten(s, i, ui[s].deferred, queue[s], before, disk)
        PROVE  Forgotten(s, i, ui[s].deferred, q, w, disk')
    <3>1. i \notin Holds(before.pending) \cup Holds(before.batch) /\ disk[i].owner # s
      BY <2>1 DEF Forgotten
    <3>2. disk'[i].owner # s
      BY <1>0, <1>6, <3>1, RecoveryAssumption DEF Alters, NoRecord
    <3> QED
      BY <1>0, <1>5, <2>1, <3>1, <3>2, RestIsForgotten
  <2> HIDE DEF q
  <2> QED
    BY <2>1 DEF Forgets
<1>10. ASSUME h.awaited, ok, Clearing(ui[s].call)
       PROVE  Forgotten(s, ui[s].call.id, ui[s].deferred, q, w, disk')
  <2>1. h.id \in Ids /\ ui[s].call.id = h.id
    BY <1>7, <1>10, FitParts DEF CallFits
  <2>2. disk'[h.id] = NoRecord
    BY <1>1, <1>10, <2>1 DEF Remove, Forget
  <2>3. h.id \notin Holds(ui[s].deferred)
    BY <1>7, <1>10, <2>1, FitParts DEF ClearsFit
  <2>4. DOMAIN q = {}
    BY <1>0, <1>10, TailFits
  <2>5. h.id \notin Holds(w.pending) \cup Holds(w.batch)
    BY <1>0, <1>3, <2>1 DEF Holds
  <2>6. h.id \notin Queued(q) \cup Claims(q)
    BY <2>4 DEF Queued, Claims
  <2> HIDE DEF q
  <2> QED
    BY <2>1, <2>2, <2>3, <2>5, <2>6, RecoveryAssumption DEF Forgotten, NoRecord
<1>11. NoText \in MaybeText /\ q = Tail(queue[s]) /\ ~w.flushing
  BY <1>0, <1>3 DEF MaybeText
<1> HIDE DEF q
<1> QED
  BY <1>0, <1>1, <1>3, <1>4, <1>5, <1>6, <1>8, <1>9, <1>10, <1>11, AnswerKeepsFit

\* Claiming keeps the text of the record and makes nothing but it the session's.
LEMMA TakeClaimKeepsFit ==
  ASSUME Inv, SessionsFit, NEW s \in Sessions, TakeClaim(s)
  PROVE  SessionsFit'
<1> DEFINE h == Head(queue[s])
           w == writer[s]
           q == Tail(queue[s])
<1>0. /\ Receives(s, "claim") /\ Shape /\ Live(s) /\ h \in Command /\ h.kind = "claim"
      /\ queue[s] \in Seq(Command) /\ queue[s] # <<>>
      /\ w \in Worker /\ ~w.flushing
  BY ReceivesFacts, Parts DEF TakeClaim
<1>1. PICK ok \in BOOLEAN, x \in MaybeText : Claim(s, h.id, ok, x) /\ Answer(s, ok, x)
  BY DEF TakeClaim
<1>2. /\ Taken(s) /\ writer' = [writer EXCEPT ![s] = w] /\ tab' = tab
      /\ session' = session /\ minted' = minted
      /\ reports' = reports /\ cleared' = cleared /\ troubled' = troubled
  BY <1>0 DEF TakeClaim, Shape
<1>3. Alters(s, h.id)
  BY <1>0, <1>1, ClaimAlters
<1>4. ASSUME NEW i \in Ids, disk[i].owner = s
      PROVE  disk'[i].owner = s /\ disk'[i].text = disk[i].text
  <2>1. disk' = disk \/ Replace(h.id, [text |-> disk[h.id].text, owner |-> s], {})
    BY <1>1 DEF Claim, Unwritten
  <2> HIDE DEF h
  <2> QED
    BY <1>4, <2>1 DEF Replace
<1>5. Survives(s, q, w, reports[s], disk')
  <2>1. ASSUME NEW i \in Ids, NEW y,
               NewestIs(s, i, y, ui[s].deferred, queue[s], w, disk)
        PROVE  NewestIs(s, i, y, ui[s].deferred, q, w, disk')
    <3>1. Arrived(s, i, y, w, disk) => Arrived(s, i, y, w, disk')
      BY <1>4 DEF Arrived
    <3> QED
      BY <1>0, <2>1, <3>1, RestIsNewest
  <2> HIDE DEF q
  <2> QED
    BY <2>1 DEF Survives
<1>6. Forgets(s, q, w, disk')
  <2>1. ASSUME NEW i \in Ids, Forgotten(s, i, ui[s].deferred, queue[s], w, disk)
        PROVE  Forgotten(s, i, ui[s].deferred, q, w, disk')
    <3>1. /\ i \notin Holds(w.pending) \cup Holds(w.batch) /\ disk[i].owner # s
          /\ i \notin Queued(queue[s]) \cup Claims(queue[s])
      BY <2>1 DEF Forgotten
    <3>2. h.id # i
      BY <1>0, <3>1, TailForgets
    <3>3. disk'[i].owner # s
      BY <1>3, <3>1, <3>2, OwnerStays
    <3> QED
      BY <1>0, <2>1, <3>1, <3>3, RestIsForgotten
  <2> HIDE DEF q
  <2> QED
    BY <2>1 DEF Forgets
<1>7. ~(h.awaited /\ Clearing(ui[s].call))
  BY <1>0, HeadFits
<1>8. q = Tail(queue[s]) /\ w = writer[s]
  OBVIOUS
<1> HIDE DEF q
<1> QED
  BY <1>0, <1>1, <1>2, <1>3, <1>5, <1>6, <1>7, <1>8, AnswerKeepsFit

\* Retention leaves the records of sessions that live alone.
LEMMA TakeRetentionKeepsFit ==
  ASSUME Inv, SessionsFit, NEW s \in Sessions, TakeRetention(s)
  PROVE  SessionsFit'
<1> DEFINE h == Head(queue[s])
           w == writer[s]
           q == Tail(queue[s])
<1>0. /\ Receives(s, "retention") /\ Shape /\ Live(s) /\ h \in Command /\ h.kind = "retention"
      /\ queue[s] \in Seq(Command) /\ queue[s] # <<>>
      /\ w \in Worker /\ ~w.flushing
  BY ReceivesFacts, Parts DEF TakeRetention
<1>1. PICK ok \in BOOLEAN : Prune(ok) /\ Answer(s, ok, NoText)
  BY DEF TakeRetention
<1>2. /\ Taken(s) /\ writer' = [writer EXCEPT ![s] = w] /\ tab' = tab
      /\ session' = session /\ minted' = minted
      /\ reports' = reports /\ cleared' = cleared /\ troubled' = troubled
  BY <1>0 DEF TakeRetention, Shape
<1>3. Alters(s, NoId) /\ \A i \in Ids : i # NoId
  BY <1>0, <1>1, PruneAlters, RecoveryAssumption
<1>4. Survives(s, q, w, reports[s], disk')
  <2>1. ASSUME NEW i \in Ids, NEW y,
               NewestIs(s, i, y, ui[s].deferred, queue[s], w, disk)
        PROVE  NewestIs(s, i, y, ui[s].deferred, q, w, disk')
    <3>1. Arrived(s, i, y, w, disk) => Arrived(s, i, y, w, disk')
      BY <1>0, <1>3, ArrivedStays
    <3> QED
      BY <1>0, <2>1, <3>1, RestIsNewest
  <2> HIDE DEF q
  <2> QED
    BY <2>1 DEF Survives
<1>5. Forgets(s, q, w, disk')
  <2>1. ASSUME NEW i \in Ids, Forgotten(s, i, ui[s].deferred, queue[s], w, disk)
        PROVE  Forgotten(s, i, ui[s].deferred, q, w, disk')
    <3>1. /\ i \notin Holds(w.pending) \cup Holds(w.batch) /\ disk[i].owner # s
      BY <2>1 DEF Forgotten
    <3>2. disk'[i].owner # s
      BY <1>3, <3>1, OwnerStays
    <3> QED
      BY <1>0, <2>1, <3>1, <3>2, RestIsForgotten
  <2> HIDE DEF q
  <2> QED
    BY <2>1 DEF Forgets
<1>6. ~(h.awaited /\ Clearing(ui[s].call))
  BY <1>0, HeadFits
<1>7. q = Tail(queue[s]) /\ NoText \in MaybeText /\ w = writer[s]
  BY DEF MaybeText
<1> HIDE DEF q
<1> QED
  BY <1>0, <1>1, <1>2, <1>3, <1>4, <1>5, <1>6, <1>7, AnswerKeepsFit

\* A thread whose call does not change.
LEMMA SameAnswers ==
  ASSUME SessionsFit, NEW s \in Sessions, NEW u, NEW q, NEW w, NEW dir,
         u.call = ui[s].call, u.deferred = ui[s].deferred, u.listed = ui[s].listed,
         u.phase = ui[s].phase, u.tried = ui[s].tried,
         Forgets(s, q, w, dir), w.flushing => ~Clearing(ui[s].call)
  PROVE  Answers(s, u, q, w, dir)
<1>1. ui[s].call.stage = "answered" /\ ui[s].call.ok /\ Clearing(ui[s].call) =>
        /\ ui[s].call.id \in Ids
        /\ Forgotten(s, ui[s].call.id, ui[s].deferred, queue[s], writer[s], disk)
  BY FitParts, NoCallType DEF ClearsFit, CallFits
<1>2. SameSync(u, ui[s])
  BY DEF SameSync, SameCall
<1> QED
  BY <1>1, <1>2 DEF Answers, Forgets

\* A flush begins: what was gathered is being written.
LEMMA TakeFlushKeepsFit ==
  ASSUME Inv, SessionsFit, NEW s \in Sessions, TakeFlush(s)
  PROVE  SessionsFit'
<1> DEFINE h == Head(queue[s])
           before == writer[s]
           w == Flushing(before.pending, h.awaited)
           q == Tail(queue[s])
<1>0. /\ Receives(s, "flush") /\ Shape /\ Live(s) /\ h \in Command /\ h.kind = "flush"
      /\ queue[s] \in Seq(Command) /\ queue[s] # <<>> /\ ui[s] \in Thread
      /\ before \in Worker /\ Holds(before.batch) = {}
      /\ Corresponds(ui[s], queue[s], before)
  BY ReceivesFacts, Parts DEF TakeFlush
<1>1. /\ q \in Seq(Command)
      /\ \A n \in DOMAIN q : q[n].awaited =>
           /\ ui[s].call.stage = "wait" /\ ui[s].call.id = q[n].id /\ ~h.awaited
           /\ \A m \in DOMAIN q : q[m].awaited => m = n
  BY <1>0, TailFacts, TailQueued
<1>2. before.pending \in Copies /\ h.awaited \in BOOLEAN
  BY <1>0 DEF Worker, Command
<1>3. /\ w \in Worker /\ w.flushing = h.awaited /\ w.batch = before.pending
      /\ \A i \in Ids : w.pending[i] = NoText
  BY <1>2, FlushingFacts
<1>4. h.awaited => ui[s].call.stage = "wait" /\ ~Clearing(ui[s].call)
  BY <1>0, HeadFits
<1>5. /\ ui' = ui /\ queue' = [queue EXCEPT ![s] = q] /\ tab' = tab
      /\ writer' = [writer EXCEPT ![s] = w]
      /\ session' = session /\ minted' = minted /\ disk' = disk
      /\ reports' = reports /\ cleared' = cleared /\ troubled' = troubled
  BY DEF TakeFlush, Taken
<1>6. QueueFits(ui[s], q, troubled[s])
  BY <1>0, TailFits
<1>7. ASSUME NEW i \in Ids, NEW x
      PROVE  /\ Arrived(s, i, x, before, disk) => Arrived(s, i, x, w, disk')
             /\ i \notin Holds(before.pending) => i \notin Holds(w.pending) \cup Holds(w.batch)
  BY <1>0, <1>3, <1>5, FlushKeepsArrived
<1> HIDE DEF w
<1>8. Survives(s, q, w, reports[s], disk')
  <2>1. ASSUME NEW i \in Ids, NEW y,
               NewestIs(s, i, y, ui[s].deferred, queue[s], before, disk)
        PROVE  NewestIs(s, i, y, ui[s].deferred, q, w, disk')
    BY <1>0, <1>7, <2>1, RestIsNewest
  <2> HIDE DEF q
  <2> QED
    BY <2>1 DEF Survives
<1>9. Forgets(s, q, w, disk')
  <2>1. ASSUME NEW i \in Ids, Forgotten(s, i, ui[s].deferred, queue[s], before, disk)
        PROVE  Forgotten(s, i, ui[s].deferred, q, w, disk')
    <3>1. i \notin Holds(before.pending) /\ disk'[i].owner # s
      BY <1>5, <2>1 DEF Forgotten
    <3> QED
      BY <1>0, <1>7, <2>1, <3>1, RestIsForgotten
  <2> HIDE DEF q
  <2> QED
    BY <2>1 DEF Forgets
<1> HIDE DEF q, h
<1>10. Corresponds(ui[s], q, w)
  BY <1>0, <1>1, <1>3, <1>4 DEF Corresponds
<1>11. Moves(s, tab[s], ui[s], q, w) /\ Alters(s, NoId)
  BY <1>0, <1>1, <1>3, <1>5, <1>10, Parts DEF Moves, Alters, Shape
<1>12. Answers(s, ui[s], q, w, disk')
  BY <1>3, <1>4, <1>9, SameAnswers
<1>13. reports' = [reports EXCEPT ![s] = reports[s]] /\ reports[s] \in SUBSET Ids
  BY <1>5, FitParts DEF SessionsFit, Noted
<1> QED
  BY <1>0, <1>5, <1>6, <1>8, <1>9, <1>11, <1>12, <1>13, WriterKeepsFit

\* The same, when nobody asked for it.
LEMMA IdleFlushKeepsFit ==
  ASSUME Inv, SessionsFit, NEW s \in Sessions, IdleFlush(s)
  PROVE  SessionsFit'
<1> DEFINE before == writer[s]
           w == Flushing(before.pending, FALSE)
           q == queue[s]
<1>0. /\ Shape /\ Live(s) /\ Corresponds(ui[s], q, before) /\ Holds(before.batch) = {}
      /\ before \in Worker /\ before.pending \in Copies /\ q \in Seq(Command) /\ ui[s] \in Thread
  BY Parts DEF Inv, IdleFlush, Waiting, CallsCorrespond, Worker
<1>1. /\ w \in Worker /\ ~w.flushing /\ w.batch = before.pending
      /\ \A i \in Ids : w.pending[i] = NoText
  BY <1>0, FlushingFacts
<1>2. /\ ui' = ui /\ queue' = queue /\ tab' = tab /\ writer' = [writer EXCEPT ![s] = w]
      /\ session' = session /\ minted' = minted /\ disk' = disk
      /\ reports' = reports /\ cleared' = cleared /\ troubled' = troubled
  BY DEF IdleFlush
<1>3. ASSUME NEW i \in Ids, NEW x
      PROVE  /\ Arrived(s, i, x, before, disk) => Arrived(s, i, x, w, disk')
             /\ i \notin Holds(before.pending) => i \notin Holds(w.pending) \cup Holds(w.batch)
  BY <1>0, <1>1, <1>2, FlushKeepsArrived
<1> HIDE DEF w
<1>4. Survives(s, q, w, reports[s], disk')
  BY <1>3 DEF Survives, NewestIs
<1>5. Forgets(s, q, w, disk')
  BY <1>2, <1>3 DEF Forgets, Forgotten
<1>6. Moves(s, tab[s], ui[s], q, w) /\ Alters(s, NoId)
  BY <1>0, <1>1, <1>2, Parts DEF Moves, Alters, Shape, Corresponds
<1>7. Answers(s, ui[s], q, w, disk')
  BY <1>1, <1>5, SameAnswers
<1>8. reports' = [reports EXCEPT ![s] = reports[s]] /\ reports[s] \in SUBSET Ids
  BY <1>2, FitParts DEF SessionsFit, Noted
<1>9. QueueFits(ui[s], q, troubled[s])
  BY FitParts
<1> QED
  BY <1>0, <1>2, <1>4, <1>5, <1>6, <1>7, <1>8, <1>9, WriterKeepsFit

\* The flush the UI thread waits for is over; it was not a clear.
LEMMA AnswerFlushKeepsFit ==
  ASSUME Inv, SessionsFit, NEW s \in Sessions, AnswerFlush(s)
  PROVE  SessionsFit'
<1> DEFINE before == writer[s]
           call == Answered(ui[s].call, ~before.failed, NoText)
           u    == [ui[s] EXCEPT !.call = call]
           w    == [before EXCEPT !.flushing = FALSE]
           q    == queue[s]
<1>0. /\ Shape /\ Live(s) /\ Corresponds(ui[s], q, before) /\ before.flushing
      /\ before \in Worker /\ q \in Seq(Command) /\ ui[s] \in Thread /\ ui[s].call \in Call
  BY Parts DEF Inv, AnswerFlush, CallsCorrespond
<1>1. /\ ui[s].call.stage = "wait" /\ ~Clearing(ui[s].call)
      /\ \A n \in DOMAIN q : ~q[n].awaited
  BY <1>0, FitParts DEF Corresponds, ClearsFit
<1>2. call \in Call /\ SameCall(call, ui[s].call) /\ call.stage = "answered"
  <2>1. (~before.failed) \in BOOLEAN /\ NoText \in MaybeText
    BY <1>0 DEF MaybeText
  <2> QED
    BY <1>0, <1>1, <2>1, AnsweredCall
<1> HIDE DEF call
<1>3. /\ u \in Thread /\ u.call = call /\ u.deferred = ui[s].deferred /\ SameSync(u, ui[s])
  BY <1>0, <1>2 DEF Thread, SameSync
<1>4. w \in Worker /\ ~w.flushing /\ w.pending = before.pending /\ w.batch = before.batch
  BY <1>0 DEF Worker
<1>5. /\ ui' = [ui EXCEPT ![s] = u] /\ queue' = queue /\ tab' = tab
      /\ writer' = [writer EXCEPT ![s] = w]
      /\ session' = session /\ minted' = minted /\ disk' = disk
      /\ reports' = reports /\ cleared' = cleared /\ troubled' = troubled
  BY DEF AnswerFlush, call
<1> HIDE DEF u, w
<1>6. QueueFits(u, q, troubled[s])
  <2>1. QueueFits(ui[s], q, troubled[s])
    BY FitParts
  <2> QED
    BY <1>1, <2>1 DEF QueueFits, CommandFits
<1>7. Survives(s, q, w, reports[s], disk') /\ Forgets(s, q, w, disk')
  BY <1>4, <1>5 DEF Survives, Forgets, Forgotten, NewestIs, Arrived
<1>8. Corresponds(u, q, w)
  BY <1>1, <1>2, <1>3, <1>4 DEF Corresponds
<1>9. Moves(s, tab[s], u, q, w) /\ Alters(s, NoId)
  BY <1>0, <1>3, <1>4, <1>5, <1>8, Parts DEF Moves, Alters, Shape
<1>10. Answers(s, u, q, w, disk')
  <2>1. ~Clearing(call)
    BY <1>0, <1>1, <1>2, SameRequest
  <2> QED
    BY <1>2, <1>3, <1>4, <2>1 DEF Answers
<1>11. reports' = [reports EXCEPT ![s] = reports[s]] /\ reports[s] \in SUBSET Ids
  BY <1>5, FitParts DEF SessionsFit, Noted
<1> QED
  BY <1>0, <1>5, <1>6, <1>7, <1>9, <1>10, <1>11, WriterKeepsFit

\* Writing one copy: it is on disk, or its id is reported.
LEMMA WriteCopyKeepsFit ==
  ASSUME Inv, SessionsFit, NEW s \in Sessions, NEW i \in Ids, WriteCopy(s, i)
  PROVE  SessionsFit'
<1> DEFINE before == writer[s]
           q == queue[s]
           x == before.batch[i]
<1>0. /\ Shape /\ Live(s) /\ Corresponds(ui[s], q, before) /\ x \in Texts /\ x # NoText
      /\ before \in Worker /\ before.batch \in Copies /\ q \in Seq(Command) /\ ui[s] \in Thread
  <2>1. before.batch \in Copies /\ before.batch[i] # NoText
    BY Parts DEF Inv, WriteCopy
  <2> QED
    BY <2>1, Parts DEF Inv, WriteCopy, CallsCorrespond, Copies, MaybeText
<1>1. PICK ok \in BOOLEAN :
        /\ Upsert(s, i, x, ok)
        /\ writer' = [writer EXCEPT ![s] = [before EXCEPT
                        !.batch = Kept(before.batch, {i}), !.failed = before.failed \/ ~ok]]
        /\ reports' = IF ok THEN reports ELSE [reports EXCEPT ![s] = reports[s] \cup {i}]
        /\ ui' = IF ok THEN ui ELSE [ui EXCEPT ![s] = [ui[s] EXCEPT !.wake = TRUE]]
  BY DEF WriteCopy
<1> DEFINE failed == before.failed \/ ~ok
           w == [before EXCEPT !.batch = Kept(before.batch, {i}), !.failed = failed]
           u == IF ok THEN ui[s] ELSE [ui[s] EXCEPT !.wake = TRUE]
           rep == IF ok THEN reports[s] ELSE reports[s] \cup {i}
<1>2. /\ Kept(before.batch, {i}) \in Copies
      /\ \A j \in Ids : Kept(before.batch, {i})[j] = IF j = i THEN NoText ELSE before.batch[j]
  BY <1>0, KeptType DEF Kept
<1>3. /\ w \in Worker /\ w.flushing = before.flushing /\ w.pending = before.pending
      /\ \A j \in Ids : w.batch[j] = IF j = i THEN NoText ELSE before.batch[j]
  <2>1. failed \in BOOLEAN
    BY <1>0 DEF Worker
  <2> HIDE DEF failed
  <2> QED
    BY <1>0, <1>2, <2>1 DEF Worker
<1>4. /\ u \in Thread /\ u.call = ui[s].call /\ u.deferred = ui[s].deferred
      /\ u.listed = ui[s].listed /\ u.phase = ui[s].phase /\ u.tried = ui[s].tried
  BY <1>0 DEF Thread
<1>5. ui' = [ui EXCEPT ![s] = u] /\ reports' = [reports EXCEPT ![s] = rep]
  BY <1>0, <1>1 DEF Shape, SessionsFit, Noted
<1>6. /\ writer' = [writer EXCEPT ![s] = w] /\ queue' = queue /\ tab' = tab
      /\ session' = session /\ minted' = minted /\ cleared' = cleared /\ troubled' = troubled
  BY <1>1 DEF WriteCopy
<1>7. rep \in SUBSET Ids /\ reports[s] \subseteq rep /\ (ok \/ i \in rep)
  BY FitParts
<1> HIDE DEF u, w, rep, x
<1>8. Alters(s, i)
  BY <1>0, <1>1, UpsertAlters
<1>9. ok => disk'[i].owner = s /\ disk'[i].text = x
  BY <1>1 DEF Upsert, Replace
<1>10. Survives(s, q, w, rep, disk')
  <2>1. ASSUME NEW j \in Ids, NEW y, j \notin rep, Arrived(s, j, y, before, disk)
        PROVE  Arrived(s, j, y, w, disk')
    <3>1. CASE j # i
      BY <1>0, <1>3, <1>8, <2>1, <3>1, ArrivedStays
    <3>2. CASE j = i
      BY <1>0, <1>3, <1>7, <1>9, <2>1, <3>2 DEF Arrived, x
    <3> QED
      BY <3>1, <3>2
  <2> QED
    BY <2>1 DEF Survives, NewestIs
<1>11. Forgets(s, q, w, disk')
  <2>1. ASSUME NEW j \in Ids, Forgotten(s, j, ui[s].deferred, q, before, disk)
        PROVE  Forgotten(s, j, ui[s].deferred, q, w, disk')
    <3>1. j # i /\ disk[j].owner # s
      BY <1>0, <2>1 DEF Forgotten, Holds, x
    <3>2. disk'[j].owner # s
      BY <1>8, <3>1, OwnerStays
    <3> QED
      BY <1>3, <2>1, <3>1, <3>2 DEF Forgotten, Holds
  <2> QED
    BY <2>1 DEF Forgets
<1>12. w.flushing => ~Clearing(ui[s].call)
  BY <1>3, FitParts DEF ClearsFit
<1>13. Answers(s, u, q, w, disk')
  BY <1>4, <1>11, <1>12, SameAnswers
<1>14. Corresponds(u, q, w)
  BY <1>0, <1>3, <1>4 DEF Corresponds
<1>15. Moves(s, tab[s], u, q, w)
  BY <1>0, <1>3, <1>4, <1>5, <1>6, <1>14, Parts DEF Moves, Shape
<1>16. QueueFits(u, q, troubled[s])
  <2>1. QueueFits(ui[s], q, troubled[s])
    BY FitParts
  <2> QED
    BY <1>4, <2>1 DEF QueueFits, CommandFits
<1> QED
  BY <1>0, <1>5, <1>6, <1>7, <1>8, <1>10, <1>11, <1>13, <1>15, <1>16, WriterKeepsFit

\* Everything the writer does.
LEMMA WriterStepKeepsFit ==
  ASSUME Inv, SessionsFit, NEW s \in Sessions, WriterStep(s)
  PROVE  SessionsFit'
  BY TakeUpsertKeepsFit, TakeRemoveKeepsFit, TakeClaimKeepsFit, TakeRetentionKeepsFit,
     TakeFlushKeepsFit, IdleFlushKeepsFit, AnswerFlushKeepsFit, WriteCopyKeepsFit
  DEF WriterStep

-----------------------------------------------------------------------------
(* The life of a session *)

\* A session that starts has no document yet.
LEMMA StartKeepsFit ==
  ASSUME Inv, SessionsFit, NEW s \in Sessions, Start(s)
  PROVE  SessionsFit'
<1> DEFINE listed == {i \in Ids : disk'[i] # NoRecord /\ session'[disk'[i].owner] # "live"}
           u == [IdleThread EXCEPT !.listed = listed]
           docs == tab[s]
           q == queue[s]
           w == writer[s]
<1>0. /\ Shape /\ ~Live(s) /\ ui[s].call = NoCall /\ Corresponds(ui[s], q, w)
      /\ docs \in [Tabs -> Document] /\ q \in Seq(Command) /\ w \in Worker
  BY Parts DEF Inv, Start, Live, CallsCorrespond
<1>1. PICK ok \in BOOLEAN : Prune(ok)
  BY DEF Start
<1>2. /\ ui' = [ui EXCEPT ![s] = u] /\ session' = [session EXCEPT ![s] = "live"]
      /\ writer' = writer /\ queue' = queue /\ tab' = tab /\ minted' = minted
      /\ reports' = reports /\ cleared' = cleared /\ troubled' = troubled
  BY DEF Start
<1>3. listed \subseteq Ids
  OBVIOUS
<1> HIDE DEF listed
<1>4. u \in Thread /\ u.call = NoCall
  <2>1. IdleThread \in Thread /\ IdleThread.call = NoCall
    BY IdleTypes DEF IdleThread
  <2> HIDE DEF u
  <2>2. u = [IdleThread EXCEPT !.listed = listed]
    BY DEF u
  <2> QED
    BY <1>3, <2>1, <2>2 DEF Thread
<1> HIDE DEF u
<1>5. ~w.flushing /\ NoCall.stage = "send"
  BY <1>0, NoCallType DEF Corresponds
<1>6. Corresponds(u, q, w)
  BY <1>0, <1>4 DEF Corresponds
<1>7. Moves(s, docs, u, q, w)
  BY <1>0, <1>2, <1>4, <1>6, Parts DEF Moves, Shape
<1>8. session'[s] = "live"
  BY <1>0, <1>2 DEF Shape
<1>9. Alters(s, NoId)
  BY <1>0, <1>1, PruneAlters
<1>10. cleared[s] = {}
  BY <1>0 DEF SessionsFit
<1>11. \A t \in Tabs : docs[t].id \notin Ids
  BY <1>0 DEF Inv, Custody, Keeps, KeptBy, Opened
<1>12. CopiesKept(s, docs, u, q, w, reports[s], troubled[s], disk')
  BY <1>11 DEF CopiesKept, Promised
<1>13. ClearsFit(s, u, q, w, {}, disk')
  BY <1>4, <1>5 DEF ClearsFit
<1>14. QueueFits(u, q, troubled[s])
  BY <1>0, <1>5, QuietQueueFits
<1>15. SessionFits(s, docs, u, q, w, reports[s], troubled[s], {}, disk')
  BY <1>4, <1>12, <1>13, <1>14, NoCallFits, FitParts DEF SessionFits
<1>16. Notes(s, reports[s], troubled[s], {})
  BY <1>2, <1>10 DEF Notes, SessionsFit, Noted
<1> QED
  BY <1>7, <1>8, <1>9, <1>15, <1>16, MovesKeepFit

\* A session without documents, copies and commands fits.
LEMMA IdleFits ==
  ASSUME NEW s, NEW dir
  PROVE  SessionFits(s, [t \in Tabs |-> Closed], IdleThread, <<>>, IdleWorker, {}, {}, {}, dir)
<1> DEFINE docs == [t \in Tabs |-> Closed]
<1>1. \A t \in Tabs : docs[t].id = NoId /\ docs[t].mark = NoText /\ ~docs[t].open
  BY DEF Closed
<1>2. DOMAIN <<>> = {} /\ Len(<<>>) = 0
  OBVIOUS
<1>3. IdleThread.call = NoCall /\ ~IdleWorker.flushing /\ NoCall.stage = "send"
  BY NoCallType DEF IdleThread, IdleWorker
<1> HIDE DEF docs
<1>4. DocsFit(docs)
  BY <1>1 DEF DocsFit
<1>5. QueueFits(IdleThread, <<>>, {})
  BY <1>2, RecoveryAssumption DEF QueueFits
<1>6. CopiesKept(s, docs, IdleThread, <<>>, IdleWorker, {}, {}, dir)
  BY <1>1 DEF CopiesKept, Promised
<1>7. ClearsFit(s, IdleThread, <<>>, IdleWorker, {}, dir)
  BY <1>3 DEF ClearsFit
<1>8. CallFits(docs, IdleThread)
  BY <1>3, NoCallFits
<1>9. SessionFits(s, docs, IdleThread, <<>>, IdleWorker, {}, {}, {}, dir)
  BY <1>4, <1>5, <1>6, <1>7, <1>8 DEF SessionFits
<1> QED
  BY <1>9 DEF docs

\* A session that is over keeps nothing.
LEMMA DieKeepsFit ==
  ASSUME Inv, SessionsFit, NEW s \in Sessions, Die(s)
  PROVE  SessionsFit'
<1> DEFINE docs == [t \in Tabs |-> Closed]
<1>0. Shape
  BY DEF Inv
<1>1. /\ tab' = [tab EXCEPT ![s] = docs] /\ ui' = [ui EXCEPT ![s] = IdleThread]
      /\ queue' = [queue EXCEPT ![s] = <<>>] /\ writer' = [writer EXCEPT ![s] = IdleWorker]
      /\ session' = [session EXCEPT ![s] = "gone"] /\ minted' = minted /\ disk' = disk
  BY DEF Die
<1>2. docs \in [Tabs -> Document] /\ <<>> \in Seq(Command) /\ DOMAIN <<>> = {}
  BY IdleTypes
<1>3. IdleThread.call = NoCall /\ ~IdleWorker.flushing
  BY DEF IdleThread, IdleWorker
<1>4. SessionFits(s, docs, IdleThread, <<>>, IdleWorker, {}, {}, {}, disk')
  BY IdleFits
<1>5. Notes(s, {}, {}, {})
  BY DEF Die, Notes
<1> HIDE DEF docs
<1>6. Corresponds(IdleThread, <<>>, IdleWorker)
  BY <1>2, <1>3, NoCallType DEF Corresponds
<1>7. Moves(s, docs, IdleThread, <<>>, IdleWorker)
  BY <1>0, <1>1, <1>2, <1>6, IdleTypes DEF Moves, Shape
<1>8. Alters(s, NoId)
  BY <1>0, <1>1 DEF Alters, Shape
<1> QED
  BY <1>4, <1>5, <1>7, <1>8, MovesKeepFit

\* At first every session is without documents.
LEMMA InitFit == Init => SessionsFit
<1> SUFFICES ASSUME Init PROVE SessionsFit
  OBVIOUS
<1>1. /\ tab = [s \in Sessions |-> [t \in Tabs |-> Closed]]
      /\ ui = [s \in Sessions |-> IdleThread] /\ queue = [s \in Sessions |-> <<>>]
      /\ writer = [s \in Sessions |-> IdleWorker] /\ reports = [s \in Sessions |-> {}]
      /\ cleared = [s \in Sessions |-> {}] /\ troubled = [s \in Sessions |-> {}]
  BY DEF Init
<1>2. ASSUME NEW s \in Sessions
      PROVE  SessionFits(s, tab[s], ui[s], queue[s], writer[s], reports[s], troubled[s],
                         cleared[s], disk)
  BY <1>1, IdleFits
<1> QED
  BY <1>1, <1>2 DEF SessionsFit, Noted

\* Every step keeps it.
LEMMA NextKeepsFit == Inv /\ SessionsFit /\ [Next]_vars => SessionsFit'
<1>1. ASSUME Inv, SessionsFit, NEW s \in Sessions,
             \/ Start(s) \/ UserStep(s) \/ UiStep(s) \/ GiveUp(s) \/ WriterStep(s) \/ Die(s)
      PROVE  SessionsFit'
  <2>1. CASE UserStep(s)
    BY <1>1, <2>1, UserStepKeepsFit, QuitKeepsFit
  <2> QED
    BY <1>1, <2>1, StartKeepsFit, UiStepKeepsFit, GiveUpKeepsFit, WriterStepKeepsFit, DieKeepsFit
<1>2. ASSUME SessionsFit, UNCHANGED vars PROVE SessionsFit'
  <2>1. /\ tab' = tab /\ ui' = ui /\ queue' = queue /\ writer' = writer /\ reports' = reports
        /\ troubled' = troubled /\ cleared' = cleared /\ disk' = disk /\ session' = session
    BY <1>2 DEF vars
  <2> QED
    BY <1>2, <2>1 DEF SessionsFit, Live
<1> QED
  BY <1>1, <1>2 DEF Next

THEOREM SessionsFitHold == Spec => []SessionsFit
  BY InvHolds, InitFit, NextKeepsFit, PTL DEF Spec

-----------------------------------------------------------------------------
(* The order of the records *)

\* Records that go leave an order of those that stay.
LEMMA ForgetOrder ==
  ASSUME NEW ids \in SUBSET Ids, NEW f, IsOrder(f, ids), NEW gone
  PROVE  IsOrder([j \in Ids |-> IF j \in gone THEN {} ELSE f[j] \ gone], ids \ gone)
<1> DEFINE rest == ids \ gone
           g == [j \in Ids |-> IF j \in gone THEN {} ELSE f[j] \ gone]
<1>1. /\ f \in [Ids -> SUBSET ids] /\ \A i \in Ids \ ids : f[i] = {}
      /\ \A i \in ids : i \notin f[i]
      /\ \A i, j \in ids : i # j => i \in f[j] \/ j \in f[i]
      /\ \A i, j \in ids : i \in f[j] => f[i] \subseteq f[j]
  BY DEF IsOrder
<1>2. \A j \in Ids : g[j] = IF j \in gone THEN {} ELSE f[j] \ gone
  OBVIOUS
<1>3. g \in [Ids -> SUBSET rest] /\ \A i \in Ids \ rest : g[i] = {}
  BY <1>1
<1> HIDE DEF g
<1>4. /\ \A i \in rest : i \notin g[i]
      /\ \A i, j \in rest : i # j => i \in g[j] \/ j \in g[i]
      /\ \A i, j \in rest : i \in g[j] => g[i] \subseteq g[j]
  <2>1. \A j \in rest : j \in ids /\ \A k : k \in g[j] <=> k \in f[j] /\ k \notin gone
    BY <1>2
  <2>2. \A j \in rest : j \in ids /\ j \notin gone
    OBVIOUS
  <2> HIDE DEF rest
  <2> QED
    BY <1>1, <2>1, <2>2
<1> HIDE DEF rest
<1>5. IsOrder(g, rest)
  BY <1>3, <1>4 DEF IsOrder
<1> QED
  BY <1>5 DEF g, rest

\* The record that is written comes last.
LEMMA ReplaceOrder ==
  ASSUME NEW ids \in SUBSET Ids, NEW f, IsOrder(f, ids), NEW gone, NEW i \in Ids
  PROVE  IsOrder([j \in Ids |-> IF j = i THEN ids \ (gone \cup {i})
                                ELSE IF j \in gone THEN {} ELSE f[j] \ (gone \cup {i})],
                 (ids \ gone) \cup {i})
<1> DEFINE after == (ids \ gone) \cup {i}
           g == [j \in Ids |-> IF j = i THEN ids \ (gone \cup {i})
                               ELSE IF j \in gone THEN {} ELSE f[j] \ (gone \cup {i})]
<1>1. /\ f \in [Ids -> SUBSET ids] /\ \A j \in Ids \ ids : f[j] = {}
      /\ \A j \in ids : j \notin f[j]
      /\ \A j, k \in ids : j # k => j \in f[k] \/ k \in f[j]
      /\ \A j, k \in ids : j \in f[k] => f[j] \subseteq f[k]
  BY DEF IsOrder
<1>2. \A j \in Ids : g[j] = IF j = i THEN ids \ (gone \cup {i})
                            ELSE IF j \in gone THEN {} ELSE f[j] \ (gone \cup {i})
  OBVIOUS
<1>3. g \in [Ids -> SUBSET after] /\ \A j \in Ids \ after : g[j] = {}
  BY <1>1
<1> HIDE DEF g
<1>4. ASSUME NEW j \in after
      PROVE  /\ j \in Ids /\ (j = i \/ (j \in ids /\ j \notin gone))
             /\ \A k : k \in g[j] <=> (k \in ids /\ k \notin gone /\ k # i /\ (j = i \/ k \in f[j]))
  <2>1. j \in Ids /\ (j = i \/ (j \in ids /\ j \notin gone))
    OBVIOUS
  <2>2. CASE j = i
    <3>1. g[j] = ids \ (gone \cup {i})
      BY <1>2, <2>1, <2>2
    <3> QED
      BY <2>1, <2>2, <3>1
  <2>3. CASE j # i
    <3>1. g[j] = f[j] \ (gone \cup {i}) /\ f[j] \in SUBSET ids
      BY <1>1, <1>2, <2>1, <2>3
    <3> QED
      BY <2>1, <2>3, <3>1
  <2> QED
    BY <2>2, <2>3
<1> HIDE DEF after
<1>5. \A j \in after : j \notin g[j]
  BY <1>1, <1>4
<1>6. /\ \A j, k \in after : j # k => j \in g[k] \/ k \in g[j]
      /\ \A j, k \in after : j \in g[k] => g[j] \subseteq g[k]
  <2>1. ASSUME NEW j \in after, NEW k \in after, j # k PROVE j \in g[k] \/ k \in g[j]
    BY <1>1, <1>4, <2>1
  <2>2. ASSUME NEW j \in after, NEW k \in after, j \in g[k] PROVE g[j] \subseteq g[k]
    BY <1>1, <1>4, <2>2
  <2> QED
    BY <2>1, <2>2
<1>7. IsOrder(g, after)
  BY <1>3, <1>5, <1>6 DEF IsOrder
<1> QED
  BY <1>7 DEF g, after

Ordered == IsOrder(older, OnDisk)

\* What the store does to the directory.
Writes(s) ==
  \/ Unwritten
  \/ \E gone : Forget(gone)
  \/ \E i \in Ids, x \in Texts : \E gone : Replace(i, [text |-> x, owner |-> s], gone)

LEMMA WritesKeepOrder ==
  ASSUME Shape, Ordered, NEW s \in Sessions, Writes(s)
  PROVE  Ordered'
<1>0. OnDisk \in SUBSET Ids
  BY DEF OnDisk
<1>1. CASE Unwritten
  BY <1>1 DEF Unwritten, Ordered, IsOrder, OnDisk
<1>2. ASSUME NEW gone, Forget(gone) PROVE Ordered'
  <2>1. OnDisk' = OnDisk \ gone
    BY <1>2 DEF Forget, OnDisk
  <2>2. older' = [j \in Ids |-> IF j \in gone THEN {} ELSE older[j] \ gone]
    BY <1>2 DEF Forget
  <2>3. IsOrder([j \in Ids |-> IF j \in gone THEN {} ELSE older[j] \ gone], OnDisk \ gone)
    BY <1>0, ForgetOrder DEF Ordered
  <2>4. IsOrder(older', OnDisk')
    BY <2>1, <2>2, <2>3
  <2> QED
    BY <2>4 DEF Ordered
<1>3. ASSUME NEW i \in Ids, NEW x \in Texts, NEW gone,
             Replace(i, [text |-> x, owner |-> s], gone)
      PROVE  Ordered'
  <2>1. OnDisk' = (OnDisk \ gone) \cup {i}
    <3>1. [text |-> x, owner |-> s] # NoRecord
      BY RecoveryAssumption DEF NoRecord
    <3> QED
      BY <1>3, <3>1 DEF Replace, OnDisk
  <2>2. older' = [j \in Ids |-> IF j = i THEN OnDisk \ (gone \cup {i})
                              ELSE IF j \in gone THEN {} ELSE older[j] \ (gone \cup {i})]
    BY <1>3 DEF Replace
  <2>3. IsOrder([j \in Ids |-> IF j = i THEN OnDisk \ (gone \cup {i})
                              ELSE IF j \in gone THEN {} ELSE older[j] \ (gone \cup {i})],
                (OnDisk \ gone) \cup {i})
    BY <1>0, ReplaceOrder DEF Ordered
  <2>4. IsOrder(older', OnDisk')
    BY <2>1, <2>2, <2>3
  <2> QED
    BY <2>4 DEF Ordered
<1> QED
  BY <1>1, <1>2, <1>3 DEF Writes

\* Every step is one of those.
LEMMA StepWrites ==
  ASSUME Inv, NEW s \in Sessions,
         \/ Start(s) \/ UserStep(s) \/ UiStep(s) \/ GiveUp(s) \/ WriterStep(s) \/ Die(s)
  PROVE  Writes(s)
<1>0. Shape
  BY DEF Inv
<1>1. ASSUME NEW ok \in BOOLEAN, Prune(ok) PROVE Writes(s)
  BY <1>1 DEF Prune, Writes
<1>2. CASE Start(s) \/ TakeRetention(s)
  BY <1>1, <1>2 DEF Start, TakeRetention
<1>3. CASE UserStep(s) \/ UiStep(s) \/ GiveUp(s) \/ Die(s)
  BY <1>3, OnlyWritersWrite DEF Writes, Unwritten
<1>4. CASE TakeUpsert(s) \/ TakeFlush(s) \/ IdleFlush(s) \/ AnswerFlush(s)
  BY <1>4 DEF TakeUpsert, TakeFlush, IdleFlush, AnswerFlush, Writes, Unwritten
<1>5. CASE TakeRemove(s)
  <2>1. PICK ok \in BOOLEAN : Remove(s, Head(queue[s]).id, ok)
    BY <1>5 DEF TakeRemove
  <2> QED
    BY <2>1 DEF Remove, Writes
<1>6. CASE TakeClaim(s)
  <2> DEFINE i == Head(queue[s]).id
  <2>1. PICK ok \in BOOLEAN, x \in MaybeText : Claim(s, i, ok, x)
    BY <1>6 DEF TakeClaim
  <2> HIDE DEF i
  <2>2. \/ Unwritten
        \/ i \in OnDisk /\ Replace(i, [text |-> disk[i].text, owner |-> s], {})
    BY <2>1 DEF Claim
  <2>3. i \in OnDisk => i \in Ids /\ disk[i].text \in Texts
    BY <1>0 DEF OnDisk, Shape, Directory, Record
  <2> QED
    BY <2>2, <2>3 DEF Writes
<1>7. ASSUME NEW i \in Ids, WriteCopy(s, i) PROVE Writes(s)
  <2>1. writer[s].batch[i] \in Texts
    <3>1. writer[s].batch \in Copies /\ writer[s].batch[i] # NoText
      BY <1>0, <1>7, Parts DEF WriteCopy
    <3> QED
      BY <3>1 DEF Copies, MaybeText
  <2>2. PICK ok \in BOOLEAN : Upsert(s, i, writer[s].batch[i], ok)
    BY <1>7 DEF WriteCopy
  <2>3. Unwritten \/ \E gone : Replace(i, [text |-> writer[s].batch[i], owner |-> s], gone)
    BY <2>2 DEF Upsert
  <2> QED
    BY <2>1, <2>3 DEF Writes
<1> QED
  BY <1>2, <1>3, <1>4, <1>5, <1>6, <1>7 DEF WriterStep

LEMMA InitOrder == Init => Ordered
<1> SUFFICES ASSUME Init PROVE Ordered
  OBVIOUS
<1>1. PICK left \in SUBSET Ids :
        /\ IsOrder(older, left)
        /\ \E found \in [left -> [text : Texts, owner : Earlier]] :
             disk = [i \in Ids |-> IF i \in left THEN found[i] ELSE NoRecord]
  BY DEF Init
<1>2. OnDisk = left
  <2>1. PICK found \in [left -> [text : Texts, owner : Earlier]] :
          disk = [i \in Ids |-> IF i \in left THEN found[i] ELSE NoRecord]
    BY <1>1
  <2>2. \A i \in left : found[i] # NoRecord
    BY RecoveryAssumption DEF NoRecord
  <2> QED
    BY <2>1, <2>2 DEF OnDisk
<1> QED
  BY <1>1, <1>2 DEF Ordered

LEMMA NextKeepsOrder == Inv /\ Ordered /\ [Next]_vars => Ordered'
<1>1. ASSUME Inv, Ordered, NEW s \in Sessions,
             \/ Start(s) \/ UserStep(s) \/ UiStep(s) \/ GiveUp(s) \/ WriterStep(s) \/ Die(s)
      PROVE  Ordered'
  BY <1>1, StepWrites, WritesKeepOrder DEF Inv
<1>2. ASSUME Ordered, UNCHANGED vars PROVE Ordered'
  BY <1>2 DEF vars, Ordered, IsOrder, OnDisk
<1> QED
  BY <1>1, <1>2 DEF Next

THEOREM OrderHolds == Spec => []Ordered
  BY InvHolds, InitOrder, NextKeepsOrder, PTL DEF Spec

-----------------------------------------------------------------------------
(* What follows *)

\* Every variable keeps to its type, the queue of RecoveryRuntime to its bound
\* (sync_channel(8)), and the order that retention evicts by lists exactly the
\* records of the directory.
THEOREM Typed == Spec => []TypeOK
<1>1. Inv /\ SessionsFit /\ Ordered => TypeOK
  <2> SUFFICES ASSUME Inv, SessionsFit, Ordered PROVE TypeOK
    OBVIOUS
  <2>1. ASSUME NEW s \in Sessions
        PROVE  Len(queue[s]) <= QueueSize /\ \A n \in DOMAIN queue[s] : queue[s][n] \in Command
    <3>1. Len(queue[s]) <= QueueSize
      BY FitParts DEF QueueFits
    <3>2. queue[s] \in Seq(Command)
      BY Parts DEF Inv
    <3> QED
      BY <3>1, <3>2
  <2> QED
    BY <2>1 DEF Inv, Shape, Directory, SessionsFit, Noted, Ordered, TypeOK
<1> QED
  BY <1>1, InvHolds, SessionsFitHold, OrderHolds, PTL

\* Once a clear returned Ok no older copy reappears in its session
\* (RecoveryRuntime::clear, flush and retry, RecoveryStore::remove): none is on
\* disk, deferred, queued, gathered or being flushed until the document is
\* offered anew.
THEOREM Cleared == Spec => []ClearedStaysCleared
<1>1. SessionsFit => ClearedStaysCleared
  <2> SUFFICES ASSUME SessionsFit, NEW s \in Sessions, NEW i \in cleared[s]
               PROVE  /\ i \in OnDisk => disk[i].owner # s
                      /\ UpsertsOf(queue[s], i) = {}
                      /\ i \notin Holds(ui[s].deferred) \cup Holds(writer[s].pending)
                                   \cup Holds(writer[s].batch)
    BY DEF ClearedStaysCleared
  <2>1. i \in Ids /\ Forgotten(s, i, ui[s].deferred, queue[s], writer[s], disk)
    BY FitParts DEF ClearsFit
  <2>2. UpsertsOf(queue[s], i) = {}
    BY <2>1 DEF Forgotten, Queued, UpsertsOf
  <2> QED
    BY <2>1, <2>2 DEF Forgotten
<1> QED
  BY <1>1, SessionsFitHold, PTL

\* Where the invariant says the newest copy is, it is found.
LEMMA NewestIsFound ==
  ASSUME Shape, NEW s \in Sessions, NEW i \in Ids, NEW x, x # NoText,
         NewestIs(s, i, x, ui[s].deferred, queue[s], writer[s], disk)
  PROVE  NewestCopy(s, i) = x
<1> DEFINE q == queue[s]
           mine == Mine(q, i)
           last == CHOOSE n \in mine : \A m \in mine : m <= n
<1>1. NewestCopy(s, i) =
        IF ui[s].deferred[i] # NoText THEN ui[s].deferred[i]
        ELSE IF mine # {} THEN q[last].text
        ELSE IF writer[s].pending[i] # NoText THEN writer[s].pending[i]
        ELSE IF writer[s].batch[i] # NoText THEN writer[s].batch[i]
        ELSE IF disk[i] # NoRecord /\ disk[i].owner = s THEN disk[i].text
        ELSE NoText
  BY DEF NewestCopy, Mine
<1>2. mine \subseteq Int
  BY Parts, LenProperties DEF Mine
<1>3. ASSUME NEW n \in mine, \A m \in mine : m <= n PROVE last = n
  <2>1. last \in mine /\ \A m \in mine : m <= last
    BY <1>3
  <2> HIDE DEF last
  <2> QED
    BY <1>2, <1>3, <2>1
<1> HIDE DEF last
<1>4. CASE ui[s].deferred[i] # NoText
  BY <1>1, <1>4 DEF NewestIs, Ahead
<1>5. CASE /\ ui[s].deferred[i] = NoText
           /\ \E n \in mine : q[n].text = x /\ \A m \in mine : m <= n
  <2>1. PICK n \in mine : q[n].text = x /\ \A m \in mine : m <= n
    BY <1>5
  <2>2. last = n /\ mine # {}
    BY <1>3, <2>1
  <2> HIDE DEF mine
  <2> QED
    BY <1>1, <1>5, <2>1, <2>2
<1>6. CASE ui[s].deferred[i] = NoText /\ mine = {} /\ Arrived(s, i, x, writer[s], disk)
  <2>1. disk[i].text = x => disk[i] # NoRecord
    BY DEF NoRecord
  <2> HIDE DEF mine
  <2> QED
    BY <1>1, <1>6, <2>1 DEF Arrived
<1> QED
  BY <1>4, <1>5, <1>6 DEF NewestIs, Ahead

\* A text the recovery runtime accepted (offer, retry, drain_error) is the newest
\* copy of its document until it is replaced, cleared or reported.
THEOREM AcceptedCopies == Spec => []AcceptedCopySurvives
<1>1. Inv /\ SessionsFit => AcceptedCopySurvives
  <2> SUFFICES ASSUME Inv, SessionsFit, NEW s \in Sessions, NEW t \in Tabs,
                      Accepted(s, t), tab[s][t].id \notin troubled[s]
               PROVE  NewestCopy(s, tab[s][t].id) = tab[s][t].text
    BY DEF AcceptedCopySurvives
  <2> DEFINE d == tab[s][t]
             i == d.id
  <2>1. /\ DocsFit(tab[s]) /\ d \in Document
        /\ d.open /\ Unsaved(d) /\ d.mark = d.text /\ i \notin reports[s] /\ i # ui[s].call.id
    BY FitParts, Parts DEF Inv, Accepted, Unsaved
  <2>2. d.text # NoText /\ i # NoId /\ i \in Ids
    BY <2>1 DEF DocsFit, Document
  <2>3. Promised(d, i, ui[s], reports[s], troubled[s])
    BY <2>1, <2>2 DEF Promised, Clears
  <2>4. ~Reloaded(tab[s], ui[s], t)
    BY <2>1 DEF Reloaded
  <2>5. NewestIs(s, i, d.mark, ui[s].deferred, queue[s], writer[s], disk)
    BY <2>2, <2>3, <2>4, FitParts DEF CopiesKept
  <2>6. NewestIs(s, i, d.text, ui[s].deferred, queue[s], writer[s], disk)
    BY <2>1, <2>5
  <2> QED
    BY <2>2, <2>6, NewestIsFound DEF Inv
<1> QED
  BY <1>1, InvHolds, SessionsFitHold, PTL

=============================================================================
