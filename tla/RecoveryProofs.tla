--------------------------- MODULE RecoveryProofs ---------------------------
(***************************************************************************)
(* What is proved of Recovery for every number of sessions, documents, ids *)
(* and every limit: a live session's copies are its own, and no two live   *)
(* sessions hold the same recovery id.                                     *)
(***************************************************************************)
EXTENDS Recovery, TLAPS, SequenceTheorems, FiniteSetTheorems

Directory == [Ids -> Record \cup {NoRecord}]

(* TypeOK without the order of the records, the reports, the bound of the queue
   and the history variables, on which no ownership depends. *)
Shape ==
  /\ session \in [Sessions -> {"new", "live", "gone"}]
  /\ disk \in Directory
  /\ tab \in [Sessions -> [Tabs -> Document]]
  /\ ui \in [Sessions -> Thread]
  /\ queue \in [Sessions -> Seq(Command)]
  /\ writer \in [Sessions -> Worker]
  /\ minted \subseteq Ids

Inv == Shape /\ CallsCorrespond /\ Custody

-----------------------------------------------------------------------------
(* The values *)

\* The call that is none is a call.
LEMMA NoCallType ==
  /\ NoCall \in Call
  /\ NoCall.why = "none" /\ NoCall.stage = "send" /\ ~NoCall.ok /\ NoCall.tab \in Tabs
<1>1. (CHOOSE t \in Tabs : TRUE) \in Tabs
  BY RecoveryAssumption
<1> QED
  BY <1>1 DEF NoCall, Call, MaybeText

\* Every reason to call makes a call, which has still to be sent.
LEMMA CallingType ==
  ASSUME NEW why \in {"resolved", "saved", "closed", "reloaded", "discarded",
                      "quitting", "restore", "exit", "retention"},
         NEW i \in Ids \cup {NoId}, NEW t \in Tabs
  PROVE  /\ Calling(why, i, t) \in Call
         /\ Calling(why, i, t).stage = "send" /\ ~Calling(why, i, t).ok
<1>1. ASSUME NEW c \in Call
      PROVE  LET d == [c EXCEPT !.why = why, !.id = i, !.tab = t]
             IN  d \in Call /\ d.stage = c.stage /\ d.ok = c.ok
  BY DEF Call
<1> QED
  BY <1>1, NoCallType DEF Calling

\* The idle threads and the closed document are what they are meant to be.
LEMMA IdleTypes ==
  /\ NoCopies \in Copies /\ Holds(NoCopies) = {}
  /\ IdleThread \in Thread /\ IdleWorker \in Worker /\ Closed \in Document
<1>1. NoCopies \in Copies /\ Holds(NoCopies) = {}
  BY DEF NoCopies, Copies, MaybeText, Holds
<1>2. IdleThread \in Thread
  BY <1>1, NoCallType DEF IdleThread, Thread
<1>3. IdleWorker \in Worker /\ Closed \in Document
  BY <1>1 DEF IdleWorker, Worker, Closed, Document, MaybeText
<1> QED
  BY <1>1, <1>2, <1>3

\* Dropping copies leaves copies.
LEMMA KeptType ==
  ASSUME NEW c \in Copies, NEW moved
  PROVE  Kept(c, moved) \in Copies /\ Holds(Kept(c, moved)) = Holds(c) \ moved
  BY DEF Kept, Copies, MaybeText, Holds

\* What the parts of a session are.
LEMMA Parts ==
  ASSUME Shape, NEW s \in Sessions
  PROVE  /\ tab[s] \in [Tabs -> Document] /\ ui[s] \in Thread
         /\ queue[s] \in Seq(Command) /\ writer[s] \in Worker
         /\ ui[s].call \in Call /\ ui[s].deferred \in Copies
         /\ writer[s].pending \in Copies /\ writer[s].batch \in Copies
  BY DEF Shape, Thread, Worker

-----------------------------------------------------------------------------
(* The store *)

\* What a store operation of s on i may do to the directory: abandoned records
\* go, and i changes if no other session that runs owns it.
Alters(s, i) ==
  /\ disk' \in Directory
  /\ \A j \in Ids :
       \/ disk'[j] = disk[j]
       \/ j \in Abandoned /\ disk'[j] = NoRecord
       \/ j = i /\ ~OwnedByOther(s, i) /\ (disk'[i] = NoRecord \/ disk'[i].owner = s)

\* Retention takes abandoned records only.
LEMMA VictimsAreAbandoned ==
  ASSUME NEW i, NEW aged, NEW room
  PROVE  Victims(i, aged, room) \subseteq Abandoned
  BY DEF Victims

\* Nothing is altered.
LEMMA UnwrittenAlters ==
  ASSUME Shape, NEW s, NEW i, Unwritten
  PROVE  Alters(s, i)
  BY DEF Unwritten, Alters, Shape

\* prune_to_policy removes abandoned records.
LEMMA PruneAlters ==
  ASSUME Shape, NEW s, NEW i, NEW ok \in BOOLEAN, Prune(ok)
  PROVE  Alters(s, i) /\ \A j \in Ids : disk'[j] # NoRecord => disk'[j] = disk[j]
<1>1. PICK aged \in 0..Cardinality(OnDisk) :
        LET victims == Victims(NoId, aged, MaxRecords)
        IN  Unwritten \/ \E gone \in SUBSET victims : Forget(gone)
  BY DEF Prune, Partly
<1>2. CASE Unwritten
  BY <1>2, UnwrittenAlters DEF Unwritten
<1>3. CASE \E gone \in SUBSET Abandoned : Forget(gone)
  BY <1>3 DEF Forget, Alters, Shape, Directory
<1> QED
  BY <1>1, <1>2, <1>3, VictimsAreAbandoned

\* upsert replaces a record no other live session owns.
LEMMA UpsertAlters ==
  ASSUME Shape, NEW s \in Sessions, NEW i \in Ids, NEW x \in Texts, NEW ok \in BOOLEAN,
         Upsert(s, i, x, ok)
  PROVE  Alters(s, i)
<1>1. PICK aged \in 0..Cardinality(OnDisk) :
        LET victims == Victims(i, aged, MaxRecords - 1)
        IN  \/ Unwritten
            \/ /\ ~OwnedByOther(s, i)
               /\ \E gone \in SUBSET victims : Replace(i, [text |-> x, owner |-> s], gone)
  BY DEF Upsert, Partly
<1>2. CASE Unwritten
  BY <1>2, UnwrittenAlters
<1>3. CASE /\ ~OwnedByOther(s, i)
           /\ \E gone \in SUBSET Abandoned : Replace(i, [text |-> x, owner |-> s], gone)
  BY <1>3 DEF Replace, Alters, Shape, Directory, Record
<1> QED
  BY <1>1, <1>2, <1>3, VictimsAreAbandoned

\* remove takes a record no other live session owns.
LEMMA RemoveAlters ==
  ASSUME Shape, NEW s \in Sessions, NEW i, NEW ok \in BOOLEAN, Remove(s, i, ok)
  PROVE  Alters(s, i) /\ (i \in Ids => disk'[i] = disk[i] \/ disk'[i] = NoRecord)
<1>1. Unwritten \/ (~OwnedByOther(s, i) /\ Forget({i}))
  BY DEF Remove
<1>2. CASE Unwritten
  BY <1>2, UnwrittenAlters DEF Unwritten
<1>3. CASE ~OwnedByOther(s, i) /\ Forget({i})
  BY <1>3 DEF Forget, Alters, Shape, Directory
<1> QED
  BY <1>1, <1>2, <1>3

\* claim takes over a record no other live session owns.
LEMMA ClaimAlters ==
  ASSUME Shape, NEW s \in Sessions, NEW i, NEW ok \in BOOLEAN, NEW x, Claim(s, i, ok, x)
  PROVE  /\ Alters(s, i)
         /\ i \in Ids /\ disk'[i] # NoRecord => i \in OnDisk
         /\ ok /\ x # NoText => i \in OnDisk /\ ~OwnedByOther(s, i) /\ disk'[i].owner = s
<1>1. \/ Unwritten /\ (ok => x = NoText)
      \/ /\ i \in OnDisk /\ ~OwnedByOther(s, i)
         /\ Replace(i, [text |-> disk[i].text, owner |-> s], {})
  BY DEF Claim
<1>2. CASE Unwritten /\ (ok => x = NoText)
  BY <1>2, UnwrittenAlters DEF Unwritten, OnDisk
<1>3. CASE /\ i \in OnDisk /\ ~OwnedByOther(s, i)
           /\ Replace(i, [text |-> disk[i].text, owner |-> s], {})
  <2>1. i \in Ids /\ disk[i] \in Record
    BY <1>3 DEF OnDisk, Shape, Directory
  <2>2. [text |-> disk[i].text, owner |-> s] \in Record
    BY <2>1 DEF Record
  <2> QED
    BY <1>3, <2>1, <2>2 DEF Replace, Alters, Shape, Directory
<1> QED
  BY <1>1, <1>2, <1>3

-----------------------------------------------------------------------------
(* One session moves *)

\* A step that leaves session s with these documents, threads and commands,
\* and no other session with anything else.
Moves(s, docs, u, q, w) ==
  /\ docs \in [Tabs -> Document] /\ u \in Thread /\ q \in Seq(Command) /\ w \in Worker
  /\ Corresponds(u, q, w)
  /\ tab' = [tab EXCEPT ![s] = docs] /\ ui' = [ui EXCEPT ![s] = u]
  /\ queue' = [queue EXCEPT ![s] = q] /\ writer' = [writer EXCEPT ![s] = w]
  /\ session' \in [Sessions -> {"new", "live", "gone"}]
  /\ \A v \in Sessions : v # s => session'[v] = session[v]
  /\ minted \subseteq minted' /\ minted' \subseteq Ids

\* After it s keeps what it kept and these ids, which are nobody else's.
Gains(s, docs, u, q, w, fresh) ==
  /\ KeptBy(docs, u, q, w) \subseteq Keeps(s) \cup fresh
  /\ session'[s] = "live" \/ (KeptBy(docs, u, q, w) = {} /\ u.call = NoCall)
  /\ fresh \subseteq minted'
  /\ \A j \in fresh : /\ \A v \in Sessions : v # s => j \notin Keeps(v)
                      /\ disk'[j] # NoRecord => disk'[j].owner = s

\* The invariant is kept by a step that alters at most i in the directory, and
\* gains s only what is nobody else's.
LEMMA MovesKeepInv ==
  ASSUME Inv, NEW s \in Sessions, NEW docs, NEW u, NEW q, NEW w, NEW i, NEW fresh,
         Moves(s, docs, u, q, w), Alters(s, i),
         i \in Ids /\ disk'[i] # NoRecord => i \in Keeps(s) \cup OnDisk,
         Gains(s, docs, u, q, w, fresh)
  PROVE  Inv'
<1> USE DEF Inv, Gains
<1>1. Shape'
  BY DEF Moves, Shape, Alters
<1>2. CallsCorrespond'
  BY DEF Moves, Shape, CallsCorrespond, Live
<1>3. Keeps(s)' = KeptBy(docs, u, q, w)
  <2>1. tab'[s] = docs /\ ui'[s] = u /\ queue'[s] = q /\ writer'[s] = w
    BY DEF Moves, Shape
  <2> QED
    BY <2>1 DEF Keeps, KeptBy, Opened, Queued, Claimed, Holds
<1>4. ASSUME NEW v \in Sessions, v # s
      PROVE  Keeps(v)' = Keeps(v) /\ session'[v] = session[v]
  <2>1. tab'[v] = tab[v] /\ ui'[v] = ui[v] /\ queue'[v] = queue[v] /\ writer'[v] = writer[v]
    BY <1>4 DEF Moves, Shape
  <2> QED
    BY <1>4, <2>1 DEF Moves, Keeps, KeptBy, Opened, Queued, Claimed, Holds
<1>5. \A v \in Sessions : Keeps(v) \subseteq Ids
  BY DEF Keeps, KeptBy, Opened, Queued, Claimed, Holds
<1>6. OnDisk' \subseteq minted' /\ \A v \in Sessions : Keeps(v)' \subseteq minted'
  <2>1. ASSUME NEW j \in OnDisk' PROVE j \in minted'
    <3>1. j \in Ids /\ disk'[j] # NoRecord
      BY DEF OnDisk
    <3>2. j \in Keeps(s) \cup OnDisk
      BY <3>1 DEF Alters, OnDisk
    <3> QED
      BY <3>2 DEF Custody, Moves
  <2>2. ASSUME NEW v \in Sessions PROVE Keeps(v)' \subseteq minted'
    BY <1>3, <1>4 DEF Custody, Moves
  <2> QED
    BY <2>1, <2>2
<1>7. \A v \in Sessions : Keeps(v)' # {} => Live(v)'
  BY <1>3, <1>4 DEF Custody, Live
<1>8. ASSUME NEW v \in Sessions, NEW j \in Keeps(v)', j \in OnDisk'
      PROVE  disk'[j].owner = v
  <2>1. j \in Ids /\ disk'[j] # NoRecord
    BY <1>8 DEF OnDisk
  <2>2. CASE v = s
    <3>1. j \in Keeps(s) \/ j \in fresh
      BY <1>3, <1>8, <2>2
    <3>2. CASE j \in Keeps(s)
      BY <2>1, <2>2, <3>2 DEF Custody, OnDisk, Alters
    <3> QED
      BY <2>1, <2>2, <3>1, <3>2
  <2>3. CASE v # s
    <3>1. j \in Keeps(v) /\ Live(v)
      BY <1>4, <1>8, <2>3 DEF Custody
    <3>2. CASE disk'[j] = disk[j]
      BY <2>1, <3>1, <3>2 DEF Custody, OnDisk
    <3>3. CASE j = i /\ ~OwnedByOther(s, i)
      <4>1. j \notin Keeps(s)
        BY <2>3, <3>1 DEF Custody
      <4>2. j \in OnDisk
        BY <2>1, <3>3, <4>1
      <4>3. disk[j].owner = v
        BY <3>1, <4>2 DEF Custody
      <4>4. OwnedByOther(s, j)
        BY <2>3, <3>1, <4>2, <4>3 DEF OwnedByOther, Abandoned
      <4> QED
        BY <3>3, <4>4
    <3> QED
      BY <2>1, <3>2, <3>3 DEF Alters
  <2> QED
    BY <2>2, <2>3
<1>9. \A v, x \in Sessions : v # x => Keeps(v)' \cap Keeps(x)' = {}
  <2> SUFFICES ASSUME NEW v \in Sessions, NEW x \in Sessions, v # x,
                      NEW j \in Keeps(v)' \cap Keeps(x)'
               PROVE  FALSE
    OBVIOUS
  <2>1. CASE v # s /\ x # s
    BY <1>4, <2>1 DEF Custody
  <2>2. CASE v = s
    <3>1. j \in Keeps(x) /\ (j \in Keeps(s) \/ j \in fresh)
      BY <1>3, <1>4, <2>2
    <3> QED
      BY <2>2, <3>1 DEF Custody
  <2>3. CASE x = s
    <3>1. j \in Keeps(v) /\ (j \in Keeps(s) \/ j \in fresh)
      BY <1>3, <1>4, <2>3
    <3> QED
      BY <2>3, <3>1 DEF Custody
  <2> QED
    BY <2>1, <2>2, <2>3
<1> QED
  BY <1>1, <1>2, <1>6, <1>7, <1>8, <1>9 DEF Custody

\* The common case: the directory stays, and s keeps nothing new.
LEMMA QuietMovesKeepInv ==
  ASSUME Inv, NEW s \in Sessions, NEW docs, NEW u, NEW q, NEW w,
         Moves(s, docs, u, q, w), disk' = disk, Live(s), session' = session,
         KeptBy(docs, u, q, w) \subseteq Keeps(s)
  PROVE  Inv'
<1>1. Alters(s, NoId)
  BY DEF Inv, Shape, Alters
<1>2. NoId \notin Ids
  BY RecoveryAssumption
<1>3. session'[s] = "live"
  BY DEF Live
<1>4. Gains(s, docs, u, q, w, {})
  BY <1>3 DEF Gains
<1> QED
  BY <1>1, <1>2, <1>4, MovesKeepInv

-----------------------------------------------------------------------------
(* The queue *)

\* The commands that come after the head.
LEMMA TailFacts ==
  ASSUME NEW q \in Seq(Command), q # <<>>
  PROVE  /\ Head(q) \in Command /\ Head(q) = q[1] /\ 1 \in DOMAIN q
         /\ Tail(q) \in Seq(Command) /\ Tail(q) # q
         /\ \A n \in DOMAIN Tail(q) : n + 1 \in DOMAIN q /\ n + 1 # 1 /\ Tail(q)[n] = q[n + 1]
<1>1. /\ Head(q) \in Command /\ Tail(q) \in Seq(Command)
      /\ Len(Tail(q)) = Len(q) - 1
      /\ \A n \in 1..Len(Tail(q)) : Tail(q)[n] = q[n + 1]
  BY HeadTailProperties
<1>2. Len(q) \in Nat /\ Len(q) >= 1 /\ DOMAIN q = 1..Len(q)
  BY EmptySeq, LenProperties
<1>3. DOMAIN Tail(q) = 1..Len(Tail(q))
  BY <1>1, LenProperties
<1>4. Head(q) = q[1]
  BY <1>2
<1> DEFINE rest == Tail(q)
<1>5. rest # q
  <2>1. Len(rest) = Len(q) - 1
    BY <1>1
  <2> HIDE DEF rest
  <2> QED
    BY <1>2, <2>1
<1>6. /\ DOMAIN rest = 1..Len(rest) /\ Len(rest) = Len(q) - 1
      /\ \A n \in 1..Len(rest) : rest[n] = q[n + 1]
  BY <1>1, <1>3
<1>7. \A n \in DOMAIN rest : n + 1 \in DOMAIN q /\ n + 1 # 1 /\ rest[n] = q[n + 1]
  <2> HIDE DEF rest
  <2> QED
    BY <1>2, <1>6
<1>8. 1 \in DOMAIN q
  BY <1>2
<1> QED
  BY <1>1, <1>4, <1>5, <1>7, <1>8, Zenon

\* Taking the head sends nothing new, and nobody waits for what is left once
\* somebody waited for the head.
LEMMA TailQueued ==
  ASSUME NEW q \in Seq(Command), q # <<>>, NEW u, NEW w, Corresponds(u, q, w)
  PROVE  /\ Queued(Tail(q)) \subseteq Queued(q)
         /\ \A n \in DOMAIN Tail(q) : Tail(q)[n].awaited =>
              /\ u.call.stage = "wait" /\ u.call.id = Tail(q)[n].id
              /\ ~w.flushing /\ ~Head(q).awaited
              /\ \A m \in DOMAIN Tail(q) : Tail(q)[m].awaited => m = n
<1>1. Queued(Tail(q)) \subseteq Queued(q)
  BY TailFacts DEF Queued
<1>2. DOMAIN Tail(q) \subseteq Int
  BY TailFacts, LenProperties
<1>3. ASSUME NEW n \in DOMAIN Tail(q), Tail(q)[n].awaited
      PROVE  /\ u.call.stage = "wait" /\ u.call.id = Tail(q)[n].id
             /\ ~w.flushing /\ ~Head(q).awaited
             /\ \A m \in DOMAIN Tail(q) : Tail(q)[m].awaited => m = n
  <2>1. n + 1 \in DOMAIN q /\ n + 1 # 1 /\ q[n + 1].awaited /\ Tail(q)[n] = q[n + 1]
    BY <1>3, TailFacts
  <2>2. \A m \in DOMAIN q : q[m].awaited => m = n + 1
    BY <2>1 DEF Corresponds
  <2>3. ~Head(q).awaited
    BY <2>1, <2>2, TailFacts
  <2>4. ASSUME NEW m \in DOMAIN Tail(q), Tail(q)[m].awaited PROVE m = n
    BY <1>2, <2>2, <2>4, TailFacts
  <2> QED
    BY <2>1, <2>3, <2>4 DEF Corresponds
<1> QED
  BY <1>1, <1>3

\* Appending a command.
LEMMA AppendQueued ==
  ASSUME NEW q \in Seq(Command), NEW c \in Command
  PROVE  /\ Append(q, c) \in Seq(Command)
         /\ Queued(Append(q, c)) \subseteq Queued(q) \cup {i \in Ids : c.kind = "upsert" /\ c.id = i}
         /\ \A n \in DOMAIN Append(q, c) :
              \/ n \in DOMAIN q /\ Append(q, c)[n] = q[n]
              \/ n = Len(q) + 1 /\ Append(q, c)[n] = c
<1>1. /\ Append(q, c) \in Seq(Command) /\ Len(Append(q, c)) = Len(q) + 1
      /\ \A n \in 1..Len(q) : Append(q, c)[n] = q[n]
      /\ Append(q, c)[Len(q) + 1] = c
  BY AppendProperties
<1>2. Len(q) \in Nat /\ DOMAIN q = 1..Len(q) /\ DOMAIN Append(q, c) = 1..(Len(q) + 1)
  BY <1>1, LenProperties
<1> DEFINE longer == Append(q, c)
<1>3. \A n \in DOMAIN longer :
        (n \in DOMAIN q /\ longer[n] = q[n]) \/ (n = Len(q) + 1 /\ longer[n] = c)
  <2>1. /\ \A n \in 1..Len(q) : longer[n] = q[n]
        /\ longer[Len(q) + 1] = c /\ DOMAIN longer = 1..(Len(q) + 1)
    BY <1>1, <1>2
  <2> HIDE DEF longer
  <2> QED
    BY <1>2, <2>1
<1>4. Queued(longer) \subseteq Queued(q) \cup {i \in Ids : c.kind = "upsert" /\ c.id = i}
  <2> HIDE DEF longer
  <2> SUFFICES ASSUME NEW i \in Ids, i \in Queued(longer)
               PROVE  i \in Queued(q) \/ (c.kind = "upsert" /\ c.id = i)
    BY DEF Queued
  <2>1. PICK n \in DOMAIN longer : longer[n].kind = "upsert" /\ longer[n].id = i
    BY DEF Queued
  <2> QED
    BY <1>3, <2>1 DEF Queued
<1> QED
  BY <1>1, <1>3, <1>4

\* retry sends deferred copies, and nobody waits for them.
LEMMA RetryQueued ==
  ASSUME Shape, NEW s \in Sessions, NEW moved \in SUBSET Holds(ui[s].deferred),
         Retry(s, moved)
  PROVE  \E q \in Seq(Command) :
           /\ queue' = [queue EXCEPT ![s] = q]
           /\ Queued(q) \subseteq Queued(queue[s]) \cup moved
           /\ \A n \in DOMAIN q : q[n].awaited => n \in DOMAIN queue[s] /\ q[n] = queue[s][n]
<1> DEFINE d == ui[s].deferred
<1>1. moved \subseteq Ids /\ IsFiniteSet(moved)
  BY RecoveryAssumption, FS_Subset DEF Holds
<1>2. Cardinality(moved) \in Nat
  BY <1>1, FS_CardinalityType
<1>3. PICK sent \in Arrangements(moved) :
        queue' = [queue EXCEPT ![s] =
                    queue[s] \o [n \in DOMAIN sent |-> Copy(sent[n], d[sent[n]])]]
  BY DEF Retry
<1> DEFINE more == [n \in DOMAIN sent |-> Copy(sent[n], d[sent[n]])]
           q == queue[s] \o more
<1>4. sent \in [1..Cardinality(moved) -> moved]
  BY <1>3 DEF Arrangements
<1>5. ASSUME NEW n \in 1..Cardinality(moved)
      PROVE  /\ Copy(sent[n], d[sent[n]]) \in Command
             /\ Copy(sent[n], d[sent[n]]).kind = "upsert"
             /\ Copy(sent[n], d[sent[n]]).id \in moved
             /\ ~Copy(sent[n], d[sent[n]]).awaited
  <2>1. sent[n] \in moved /\ d[sent[n]] \in MaybeText
    BY <1>1, <1>4, Parts DEF Copies
  <2> QED
    BY <1>1, <2>1 DEF Copy, Command
<1>6. more \in Seq(Command) /\ DOMAIN more = 1..Cardinality(moved)
  BY <1>2, <1>4, <1>5, IsASeq
<1> DEFINE k == Cardinality(moved)
<1>7. Len(more) = k
  BY <1>2, <1>6, LenProperties
<1>8. queue[s] \in Seq(Command) /\ Len(queue[s]) \in Nat /\ DOMAIN queue[s] = 1..Len(queue[s])
  BY Parts, LenProperties
<1>9. /\ q \in Seq(Command) /\ Len(q) = Len(queue[s]) + k
      /\ \A n \in 1..(Len(queue[s]) + k) :
           q[n] = IF n <= Len(queue[s]) THEN queue[s][n] ELSE more[n - Len(queue[s])]
  BY <1>6, <1>7, <1>8, ConcatProperties
<1>10. DOMAIN q = 1..(Len(queue[s]) + k)
  BY <1>9, LenProperties
<1>11. ASSUME NEW n \in DOMAIN q
       PROVE  \/ n \in DOMAIN queue[s] /\ q[n] = queue[s][n]
              \/ q[n].kind = "upsert" /\ q[n].id \in moved /\ ~q[n].awaited
  <2>1. CASE n <= Len(queue[s])
    BY <1>2, <1>8, <1>9, <1>10, <2>1
  <2>2. CASE ~(n <= Len(queue[s]))
    <3>1. n - Len(queue[s]) \in 1..k /\ q[n] = more[n - Len(queue[s])]
      BY <1>2, <1>8, <1>9, <1>10, <2>2
    <3> HIDE DEF q
    <3> QED
      BY <1>4, <1>5, <3>1
  <2> QED
    BY <2>1, <2>2
<1> HIDE DEF q
<1>12. Queued(q) \subseteq Queued(queue[s]) \cup moved
  BY <1>11 DEF Queued
<1>13. queue' = [queue EXCEPT ![s] = q]
  BY <1>3 DEF q
<1> QED
  BY <1>9, <1>11, <1>12, <1>13

-----------------------------------------------------------------------------
(* What the user does *)

\* Changing one document, its id kept or forgotten, opens nothing new.
LEMMA SetTabOpens ==
  ASSUME Shape, NEW s \in Sessions, NEW t \in Tabs, NEW d \in Document,
         d.id \in {NoId, tab[s][t].id}, SetTab(s, t, d)
  PROVE  \E docs \in [Tabs -> Document] :
           tab' = [tab EXCEPT ![s] = docs] /\ Opened(docs) \subseteq Opened(tab[s])
<1> DEFINE docs == [tab[s] EXCEPT ![t] = d]
<1>1. tab[s] \in [Tabs -> Document]
  BY Parts
<1>2. docs \in [Tabs -> Document]
  BY <1>1
<1>3. tab' = [tab EXCEPT ![s] = docs]
  BY DEF SetTab, Shape
<1>4. ASSUME NEW i \in Ids, NEW v \in Tabs, docs[v].id = i
      PROVE  \E x \in Tabs : tab[s][x].id = i
  <2>1. i # NoId
    BY RecoveryAssumption
  <2> QED
    BY <1>1, <1>4, <2>1
<1> QED
  BY <1>2, <1>3, <1>4 DEF Opened

\* Between calls nobody waits for the writer.
LEMMA NobodyWaits ==
  ASSUME Inv, NEW s \in Sessions, ui[s].call.stage # "wait"
  PROVE  /\ ~writer[s].flushing
         /\ \A n \in DOMAIN queue[s] : ~queue[s][n].awaited
  BY DEF Inv, CallsCorrespond, Corresponds

\* A dispatch that opens nothing new and may call the writer keeps the
\* invariant.
LEMMA DispatchKeepsInv ==
  ASSUME Inv, NEW s \in Sessions, NEW phase \in {"sync", "quit"}, NEW call \in Call,
         call.stage = "send", ~call.ok, Dispatch(s, phase, call),
         NEW docs \in [Tabs -> Document], tab' = [tab EXCEPT ![s] = docs],
         Opened(docs) \subseteq Opened(tab[s])
  PROVE  Inv'
<1> DEFINE u == [ui[s] EXCEPT !.phase = phase, !.tried = {}, !.call = call]
<1>0. Shape /\ Live(s) /\ ui[s].call = NoCall
  BY DEF Inv, Dispatch, Ready
<1>1. u \in Thread /\ u.call = call /\ u.deferred = ui[s].deferred
  BY <1>0, Parts DEF Thread
<1>2. Corresponds(u, queue[s], writer[s])
  <2> HIDE DEF u
  <2> QED
    BY <1>0, <1>1, NobodyWaits, NoCallType DEF Corresponds
<1>3. Moves(s, docs, u, queue[s], writer[s]) /\ disk' = disk /\ session' = session
  <2>1. queue' = queue /\ writer' = writer /\ reports' = reports /\ session' = session
        /\ minted' = minted /\ disk' = disk /\ ui' = [ui EXCEPT ![s] = u]
    BY DEF Dispatch
  <2> HIDE DEF u
  <2> QED
    BY <1>0, <1>1, <1>2, <2>1, Parts DEF Moves, Shape
<1>4. KeptBy(docs, u, queue[s], writer[s]) \subseteq Keeps(s)
  <2> HIDE DEF u
  <2> QED
    BY <1>1 DEF KeptBy, Keeps, Claimed
<1> HIDE DEF u
<1> QED
  BY <1>0, <1>3, <1>4, QuietMovesKeepInv

\* A dispatch that changes one document.
LEMMA DispatchTabKeepsInv ==
  ASSUME Inv, NEW s \in Sessions, NEW phase \in {"sync", "quit"}, NEW call \in Call,
         call.stage = "send", ~call.ok, Dispatch(s, phase, call),
         NEW t \in Tabs, NEW d \in Document, d.id \in {NoId, tab[s][t].id}, SetTab(s, t, d)
  PROVE  Inv'
<1>1. PICK docs \in [Tabs -> Document] :
        tab' = [tab EXCEPT ![s] = docs] /\ Opened(docs) \subseteq Opened(tab[s])
  BY SetTabOpens DEF Inv
<1> QED
  BY <1>1, DispatchKeepsInv

\* A dispatch that leaves the documents alone.
LEMMA DispatchAloneKeepsInv ==
  ASSUME Inv, NEW s \in Sessions, NEW phase \in {"sync", "quit"}, NEW call \in Call,
         call.stage = "send", ~call.ok, Dispatch(s, phase, call), UNCHANGED tab
  PROVE  Inv'
<1>1. tab[s] \in [Tabs -> Document] /\ tab' = [tab EXCEPT ![s] = tab[s]]
  BY Parts DEF Inv, Shape
<1>2. Opened(tab[s]) \subseteq Opened(tab[s])
  OBVIOUS
<1> QED
  BY <1>1, <1>2, DispatchKeepsInv

\* The call that clears a document's copy.
LEMMA ClearForType ==
  ASSUME NEW why \in {"saved", "closed", "reloaded"}, NEW t \in Tabs, NEW d \in Document
  PROVE  /\ ClearFor(why, t, d) \in Call
         /\ ClearFor(why, t, d).stage = "send" /\ ~ClearFor(why, t, d).ok
<1>1. d.id \in Ids \cup {NoId}
  BY DEF Document
<1> QED
  BY <1>1, NoCallType, CallingType DEF ClearFor

\* Quitting with nothing unsaved: retry, then flush.
LEMMA QuitKeepsInv ==
  ASSUME Inv, NEW s \in Sessions, Quit(s)
  PROVE  Inv'
<1>0. Shape /\ Live(s) /\ ui[s].call = NoCall
  BY DEF Inv, Quit, Ready
<1>1. PICK moved \in SUBSET Holds(ui[s].deferred), call \in {NoCall, Calling("exit", NoId, NoCall.tab)} :
        /\ Retry(s, moved)
        /\ ui' = [ui EXCEPT ![s] = [ui[s] EXCEPT !.phase = "sync", !.tried = {},
                   !.deferred = Kept(ui[s].deferred, moved), !.call = call]]
  BY <1>0 DEF Quit
<1> DEFINE u == [ui[s] EXCEPT !.phase = "sync", !.tried = {},
                   !.deferred = Kept(ui[s].deferred, moved), !.call = call]
<1>2. call \in Call /\ call.stage = "send" /\ ~call.ok
  BY <1>1, NoCallType, CallingType
<1>3. Kept(ui[s].deferred, moved) \in Copies
      /\ Holds(Kept(ui[s].deferred, moved)) = Holds(ui[s].deferred) \ moved
  BY <1>0, Parts, KeptType
<1>4. u \in Thread /\ u.call = call /\ u.deferred = Kept(ui[s].deferred, moved)
  BY <1>0, <1>2, <1>3, Parts DEF Thread
<1>5. PICK q \in Seq(Command) :
        /\ queue' = [queue EXCEPT ![s] = q]
        /\ Queued(q) \subseteq Queued(queue[s]) \cup moved
        /\ \A n \in DOMAIN q : q[n].awaited => n \in DOMAIN queue[s] /\ q[n] = queue[s][n]
  BY <1>0, <1>1, RetryQueued
<1> HIDE DEF u
<1>6. Corresponds(u, q, writer[s])
  BY <1>0, <1>2, <1>4, <1>5, NobodyWaits, NoCallType DEF Corresponds
<1>7. Moves(s, tab[s], u, q, writer[s]) /\ disk' = disk /\ session' = session
  <2>1. tab' = tab /\ writer' = writer /\ reports' = reports /\ session' = session
        /\ minted' = minted /\ disk' = disk /\ ui' = [ui EXCEPT ![s] = u]
    BY <1>1 DEF Quit, u
  <2> QED
    BY <1>0, <1>4, <1>5, <1>6, <2>1, Parts DEF Moves, Shape
<1>8. KeptBy(tab[s], u, q, writer[s]) \subseteq Keeps(s)
  BY <1>2, <1>3, <1>4, <1>5 DEF KeptBy, Keeps, Claimed
<1> QED
  BY <1>0, <1>7, <1>8, QuietMovesKeepInv

\* Everything the user does keeps the invariant.
LEMMA UserStepKeepsInv ==
  ASSUME Inv, NEW s \in Sessions, UserStep(s)
  PROVE  Inv'
<1>0. Shape /\ tab[s] \in [Tabs -> Document]
  BY Parts DEF Inv
<1>1. ASSUME NEW t \in Tabs, NEW x \in Texts, OpenDocument(s, t, x) \/ Edit(s, t, x)
      PROVE  Inv'
  <2>1. PICK d \in Document : d.id \in {NoId, tab[s][t].id} /\ SetTab(s, t, d)
    <3>1. CASE OpenDocument(s, t, x)
      <4>1. LET d == [Closed EXCEPT !.open = TRUE, !.text = x, !.saved = x]
            IN  d \in Document /\ d.id = NoId
        BY IdleTypes DEF Closed, Document, MaybeText
      <4> QED
        BY <3>1, <4>1 DEF OpenDocument
    <3>2. CASE Edit(s, t, x)
      <4>1. LET d == [tab[s][t] EXCEPT !.text = x]
            IN  d \in Document /\ d.id = tab[s][t].id
        BY <1>0 DEF Document, MaybeText
      <4> QED
        BY <3>2, <4>1 DEF Edit
    <3> QED
      BY <1>1, <3>1, <3>2
  <2>2. Dispatch(s, "sync", NoCall)
    BY <1>1 DEF OpenDocument, Edit
  <2> QED
    BY <2>1, <2>2, NoCallType, DispatchTabKeepsInv
<1>2. ASSUME NEW t \in Tabs, Save(s, t) PROVE Inv'
  <2> DEFINE d == [tab[s][t] EXCEPT !.saved = tab[s][t].text]
  <2>1. d \in Document /\ d.id = tab[s][t].id
    BY <1>0 DEF Document
  <2>2. SetTab(s, t, d) /\ Dispatch(s, "sync", ClearFor("saved", t, tab[s][t]))
    BY <1>2 DEF Save
  <2> HIDE DEF d
  <2> QED
    BY <1>0, <2>1, <2>2, ClearForType, DispatchTabKeepsInv
<1>3. ASSUME NEW t \in Tabs, CloseSaved(s, t) PROVE Inv'
  <2>1. Closed \in Document /\ Closed.id = NoId
    BY IdleTypes DEF Closed
  <2>2. SetTab(s, t, Closed) /\ Dispatch(s, "sync", NoCall)
    BY <1>3 DEF CloseSaved
  <2> QED
    BY <2>1, <2>2, NoCallType, DispatchTabKeepsInv
<1>4. ASSUME NEW t \in Tabs, DiscardAndClose(s, t) PROVE Inv'
  <2>1. Closed \in Document /\ Closed.id = NoId
    BY IdleTypes DEF Closed
  <2>2. SetTab(s, t, Closed) /\ Dispatch(s, "sync", ClearFor("closed", t, tab[s][t]))
    BY <1>4 DEF DiscardAndClose
  <2> QED
    BY <1>0, <2>1, <2>2, ClearForType, DispatchTabKeepsInv
<1>5. ASSUME NEW t \in Tabs, DiscardAndReload(s, t) PROVE Inv'
  <2> DEFINE d == [tab[s][t] EXCEPT !.text = tab[s][t].saved]
  <2>1. d \in Document /\ d.id = tab[s][t].id
    BY <1>0 DEF Document
  <2>2. SetTab(s, t, d) /\ Dispatch(s, "sync", ClearFor("reloaded", t, tab[s][t]))
    BY <1>5 DEF DiscardAndReload
  <2> HIDE DEF d
  <2> QED
    BY <1>0, <2>1, <2>2, ClearForType, DispatchTabKeepsInv
<1>6. ASSUME NEW i \in Ids, DiscardCopy(s, i) PROVE Inv'
  <2>1. Dispatch(s, "sync", Calling("discarded", i, NoCall.tab)) /\ UNCHANGED tab
    BY <1>6 DEF DiscardCopy
  <2> QED
    BY <2>1, NoCallType, CallingType, DispatchAloneKeepsInv
<1>7. ASSUME NEW i \in Ids, NEW t \in Tabs, Restore(s, i, t) PROVE Inv'
  <2>1. Dispatch(s, "sync", Calling("restore", i, t)) /\ UNCHANGED tab
    BY <1>7 DEF Restore
  <2> QED
    BY <2>1, CallingType, DispatchAloneKeepsInv
<1>8. CASE SetRetention(s)
  <2>1. Dispatch(s, "sync", Calling("retention", NoId, NoCall.tab)) /\ UNCHANGED tab
    BY <1>8 DEF SetRetention
  <2> QED
    BY <2>1, NoCallType, CallingType, DispatchAloneKeepsInv
<1>9. CASE QuitDiscarding(s)
  <2>1. Dispatch(s, "quit", NoCall) /\ UNCHANGED tab
    BY <1>9 DEF QuitDiscarding
  <2> QED
    BY <2>1, NoCallType, DispatchAloneKeepsInv
<1> QED
  BY <1>1, <1>2, <1>3, <1>4, <1>5, <1>6, <1>7, <1>8, <1>9, QuitKeepsInv DEF UserStep

-----------------------------------------------------------------------------
(* The UI thread *)

\* What a call asks of the writer is never a copy, and is awaited.
LEMMA RequestType ==
  ASSUME NEW call \in Call
  PROVE  /\ Request(call) \in Command /\ Request(call).id = call.id
         /\ Request(call).kind # "upsert"
  BY DEF Request, Call, Command, MaybeText

\* Sending the command of a call.
LEMMA SendKeepsInv ==
  ASSUME Inv, NEW s \in Sessions, Send(s)
  PROVE  Inv'
<1> DEFINE c    == ui[s].call
           gone == IF Clearing(c) THEN {c.id} ELSE {}
           u    == [ui[s] EXCEPT !.call = [c EXCEPT !.stage = "wait"],
                                 !.deferred = Kept(ui[s].deferred, gone)]
           q    == Append(queue[s], Request(c))
<1>0. Shape /\ Live(s) /\ c.stage = "send" /\ ~c.ok /\ c \in Call
  BY Parts DEF Inv, Send, CallsCorrespond, Corresponds
<1>1. [c EXCEPT !.stage = "wait"] \in Call /\ [c EXCEPT !.stage = "wait"].stage = "wait"
      /\ [c EXCEPT !.stage = "wait"].id = c.id /\ [c EXCEPT !.stage = "wait"].ok = c.ok
  BY <1>0 DEF Call
<1>2. Kept(ui[s].deferred, gone) \in Copies
      /\ Holds(Kept(ui[s].deferred, gone)) \subseteq Holds(ui[s].deferred)
  BY <1>0, Parts, KeptType
<1>3. u \in Thread /\ u.call = [c EXCEPT !.stage = "wait"]
      /\ u.deferred = Kept(ui[s].deferred, gone)
  BY <1>0, <1>1, <1>2, Parts DEF Thread
<1>4. /\ q \in Seq(Command) /\ Queued(q) \subseteq Queued(queue[s])
      /\ \A n \in DOMAIN q : \/ n \in DOMAIN queue[s] /\ q[n] = queue[s][n]
                             \/ n = Len(queue[s]) + 1 /\ q[n] = Request(c)
  BY <1>0, Parts, RequestType, AppendQueued
<1>5. /\ tab' = tab /\ writer' = writer /\ reports' = reports /\ session' = session
      /\ minted' = minted /\ disk' = disk /\ ui' = [ui EXCEPT ![s] = u]
      /\ queue' = [queue EXCEPT ![s] = q]
  BY DEF Send
<1> HIDE DEF u, q, gone
<1>6. Corresponds(u, q, writer[s])
  <2>1. ~writer[s].flushing /\ \A n \in DOMAIN queue[s] : ~queue[s][n].awaited
    BY <1>0, NobodyWaits
  <2>2. \A n \in DOMAIN q : q[n].awaited => n = Len(queue[s]) + 1 /\ q[n].id = c.id
    BY <1>0, <1>4, <2>1, RequestType
  <2> QED
    BY <1>0, <1>1, <1>3, <2>1, <2>2 DEF Corresponds
<1>7. Moves(s, tab[s], u, q, writer[s])
  BY <1>0, <1>3, <1>4, <1>5, <1>6, Parts DEF Moves, Shape
<1>8. KeptBy(tab[s], u, q, writer[s]) \subseteq Keeps(s)
  BY <1>1, <1>2, <1>3, <1>4 DEF KeptBy, Keeps, Claimed
<1> QED
  BY <1>0, <1>5, <1>7, <1>8, QuietMovesKeepInv

\* Giving up a call.
LEMMA GiveUpKeepsInv ==
  ASSUME Inv, NEW s \in Sessions, GiveUp(s)
  PROVE  Inv'
<1> DEFINE c    == ui[s].call
           gone == IF Clearing(c) THEN {c.id} ELSE {}
           over == [c EXCEPT !.stage = "answered"]
           u    == [ui[s] EXCEPT !.call = over,
                                 !.deferred = Kept(ui[s].deferred, gone)]
           q    == [n \in DOMAIN queue[s] |-> [queue[s][n] EXCEPT !.awaited = FALSE]]
           w    == [writer[s] EXCEPT !.flushing = FALSE]
<1>0. Shape /\ Live(s) /\ c.stage # "answered" /\ ~c.ok /\ c \in Call
  BY Parts DEF Inv, GiveUp, CallsCorrespond, Corresponds
<1>1. over \in Call /\ ~over.ok /\ over.stage = "answered"
  BY <1>0 DEF Call
<1>2. Kept(ui[s].deferred, gone) \in Copies
      /\ Holds(Kept(ui[s].deferred, gone)) \subseteq Holds(ui[s].deferred)
  BY <1>0, Parts, KeptType
<1>3. u \in Thread /\ u.call = over /\ u.deferred = Kept(ui[s].deferred, gone)
  <2> HIDE DEF over
  <2> QED
    BY <1>0, <1>1, <1>2, Parts DEF Thread
<1>4. w \in Worker /\ ~w.flushing /\ w.pending = writer[s].pending /\ w.batch = writer[s].batch
  BY <1>0, Parts DEF Worker
<1>5. /\ DOMAIN q = DOMAIN queue[s]
      /\ \A n \in DOMAIN q : /\ q[n] \in Command /\ ~q[n].awaited
                             /\ q[n].kind = queue[s][n].kind /\ q[n].id = queue[s][n].id
  <2>1. \A n \in DOMAIN queue[s] : queue[s][n] \in Command
    BY <1>0, Parts, LenProperties
  <2> QED
    BY <2>1 DEF Command
<1>6. q \in Seq(Command)
  <2>1. Len(queue[s]) \in Nat /\ DOMAIN queue[s] = 1..Len(queue[s])
    BY <1>0, Parts, LenProperties
  <2>2. \A n \in 1..Len(queue[s]) : [queue[s][n] EXCEPT !.awaited = FALSE] \in Command
    BY <1>5, <2>1
  <2>3. q = [n \in 1..Len(queue[s]) |-> [queue[s][n] EXCEPT !.awaited = FALSE]]
    BY <2>1
  <2> HIDE DEF q
  <2> QED
    BY <2>1, <2>2, <2>3, IsASeq
<1>7. /\ tab' = tab /\ reports' = reports /\ session' = session
      /\ minted' = minted /\ disk' = disk /\ ui' = [ui EXCEPT ![s] = u]
      /\ queue' = [queue EXCEPT ![s] = q] /\ writer' = [writer EXCEPT ![s] = w]
  BY DEF GiveUp
<1> HIDE DEF u, q, w, gone, over
<1>8. Corresponds(u, q, w)
  BY <1>1, <1>3, <1>4, <1>5 DEF Corresponds
<1>9. Moves(s, tab[s], u, q, w)
  BY <1>0, <1>3, <1>4, <1>6, <1>7, <1>8, Parts DEF Moves, Shape
<1>10. KeptBy(tab[s], u, q, w) \subseteq Keeps(s)
  BY <1>1, <1>2, <1>3, <1>4, <1>5 DEF KeptBy, Keeps, Claimed, Queued
<1> QED
  BY <1>0, <1>7, <1>9, <1>10, QuietMovesKeepInv

\* What a call leaves of a document: its id, none, or the id that was claimed.
LEMMA SettledType ==
  ASSUME NEW d \in Document, NEW t \in Tabs, NEW u \in Thread, u.call.stage = "answered"
  PROVE  /\ Settled(d, t, u.call) \in Document
         /\ Settled(d, t, u.call).id \in {NoId, d.id} \cup Claimed(u)
<1> DEFINE call == u.call
<1>1. call \in Call
  BY DEF Thread
<1>2. [d EXCEPT !.id = NoId, !.candidate = FALSE, !.mark = NoText] \in Document
      /\ [d EXCEPT !.id = NoId, !.candidate = FALSE, !.mark = NoText].id = NoId
  BY DEF Document, MaybeText
<1>3. [Closed EXCEPT !.open = TRUE, !.text = call.text, !.id = call.id,
                     !.candidate = TRUE] \in Document
      /\ [Closed EXCEPT !.open = TRUE, !.text = call.text, !.id = call.id,
                        !.candidate = TRUE].id = call.id
  BY <1>1 DEF Closed, Document, Call, MaybeText
<1>4. Closed \in Document /\ Closed.id = NoId
  BY IdleTypes DEF Closed
<1>5. call.ok /\ call.why = "restore" /\ call.text # NoText => call.id \in {NoId} \cup Claimed(u)
  BY <1>1 DEF Claimed, Call
<1> HIDE DEF call
<1> QED
  BY <1>2, <1>3, <1>4, <1>5 DEF Settled, call

\* A call returns.
LEMMA ReturnKeepsInv ==
  ASSUME Inv, NEW s \in Sessions, Return(s)
  PROVE  Inv'
<1>0. Shape /\ Live(s) /\ ui[s].call.stage = "answered"
  BY DEF Inv, Return
<1>1. PICK listed \in SUBSET Ids, closing \in BOOLEAN :
        ui' = [ui EXCEPT ![s] = [ui[s] EXCEPT !.call = NoCall, !.listed = listed,
                                              !.closing = closing]]
  <2> DEFINE gone == IF Clearing(ui[s].call) THEN {ui[s].call.id} ELSE {}
             listed == IF ui[s].call.ok THEN ui[s].listed \ gone ELSE ui[s].listed
             closing == ui[s].closing \/ (ui[s].call.ok /\ ui[s].call.why = "exit")
  <2>1. listed \in SUBSET Ids /\ closing \in BOOLEAN
    BY <1>0, Parts DEF Thread
  <2>2. ui' = [ui EXCEPT ![s] = [ui[s] EXCEPT !.call = NoCall, !.listed = listed,
                                              !.closing = closing]]
    BY DEF Return
  <2> HIDE DEF listed, closing
  <2> QED
    BY <2>1, <2>2
<1> DEFINE u    == [ui[s] EXCEPT !.call = NoCall, !.listed = listed, !.closing = closing]
           docs == [t \in Tabs |-> Settled(tab[s][t], t, ui[s].call)]
<1>2. u \in Thread /\ u.call = NoCall /\ u.deferred = ui[s].deferred
  BY <1>0, <1>1, Parts, NoCallType DEF Thread
<1>3. docs \in [Tabs -> Document]
      /\ \A t \in Tabs : docs[t].id \in {NoId, tab[s][t].id} \cup Claimed(ui[s])
  BY <1>0, Parts, SettledType
<1>4. /\ writer' = writer /\ reports' = reports /\ session' = session /\ queue' = queue
      /\ minted' = minted /\ disk' = disk /\ ui' = [ui EXCEPT ![s] = u]
      /\ tab' = [tab EXCEPT ![s] = docs]
  BY <1>1 DEF Return
<1> HIDE DEF u, docs
<1>5. Corresponds(u, queue[s], writer[s])
  BY <1>0, <1>2, NobodyWaits, NoCallType DEF Corresponds
<1>6. Moves(s, docs, u, queue[s], writer[s])
  BY <1>0, <1>2, <1>3, <1>4, <1>5, Parts DEF Moves, Shape
<1>7. Opened(docs) \subseteq Opened(tab[s]) \cup Claimed(ui[s])
  BY <1>3, RecoveryAssumption DEF Opened
<1>8. KeptBy(docs, u, queue[s], writer[s]) \subseteq Keeps(s)
  BY <1>2, <1>7, NoCallType DEF KeptBy, Keeps, Claimed
<1> QED
  BY <1>0, <1>4, <1>6, <1>8, QuietMovesKeepInv

\* sync_recovery and confirm_discard call the writer for one document.
LEMMA CallForKeepsInv ==
  ASSUME Inv, NEW s \in Sessions, NEW t \in Tabs, NEW why \in {"resolved", "quitting"},
         Live(s), ui[s].call = NoCall, CallFor(s, why, t)
  PROVE  Inv'
<1> DEFINE call == Calling(why, tab[s][t].id, t)
           u == [ui[s] EXCEPT !.tried = ui[s].tried \cup {t}, !.call = call]
<1>0. Shape
  BY DEF Inv
<1>1. tab[s][t].id \in Ids \cup {NoId}
  BY <1>0, Parts DEF Document
<1>2. call \in Call /\ call.stage = "send" /\ ~call.ok
  BY <1>1, CallingType
<1> HIDE DEF call
<1>3. u \in Thread /\ u.call = call /\ u.deferred = ui[s].deferred
  BY <1>0, <1>2, Parts DEF Thread
<1>4. /\ writer' = writer /\ reports' = reports /\ session' = session /\ queue' = queue
      /\ minted' = minted /\ disk' = disk /\ ui' = [ui EXCEPT ![s] = u] /\ tab' = tab
  BY DEF CallFor, call
<1> HIDE DEF u
<1>5. Corresponds(u, queue[s], writer[s])
  BY <1>2, <1>3, NobodyWaits, NoCallType DEF Corresponds
<1>6. Moves(s, tab[s], u, queue[s], writer[s])
  BY <1>0, <1>3, <1>4, <1>5, Parts DEF Moves, Shape
<1>7. KeptBy(tab[s], u, queue[s], writer[s]) \subseteq Keeps(s)
  BY <1>2, <1>3 DEF KeptBy, Keeps, Claimed
<1> QED
  BY <1>4, <1>6, <1>7, QuietMovesKeepInv

\* sync_recovery offers a copy under the document's id or one nobody uses.
LEMMA SyncOfferKeepsInv ==
  ASSUME Inv, NEW s \in Sessions, NEW t \in Tabs, SyncOffer(s, t)
  PROVE  Inv'
<1> DEFINE d == tab[s][t]
           queued == Len(queue[s]) < QueueSize
<1>0. Shape /\ Live(s) /\ ui[s].call = NoCall /\ d \in Document
  BY Parts DEF Inv, SyncOffer, Busy
<1> DEFINE Offered(i, mark, deferred) ==
             /\ deferred \in {Kept(ui[s].deferred, {i}), [ui[s].deferred EXCEPT ![i] = d.text],
                              ui[s].deferred}
             /\ queue' = IF queued THEN [queue EXCEPT ![s] = Append(queue[s], Copy(i, d.text))]
                         ELSE queue
             /\ ui' = [ui EXCEPT ![s] = [ui[s] EXCEPT !.tried = ui[s].tried \cup {t},
                                                      !.deferred = deferred]]
             /\ SetTab(s, t, [d EXCEPT !.id = i, !.mark = mark])
             /\ minted' = minted \cup {i}
<1>1. PICK i \in (IF d.id # NoId THEN {d.id} ELSE Ids \ minted), mark \in MaybeText :
        \E deferred : Offered(i, mark, deferred)
  <2>1. d.text \in MaybeText /\ d.mark \in MaybeText
    BY <1>0 DEF Document
  <2> QED
    BY <2>1 DEF SyncOffer
<1>1a. PICK deferred : Offered(i, mark, deferred)
  BY <1>1
<1> DEFINE u    == [ui[s] EXCEPT !.tried = ui[s].tried \cup {t}, !.deferred = deferred]
           docs == [tab[s] EXCEPT ![t] = [d EXCEPT !.id = i, !.mark = mark]]
           q    == IF queued THEN Append(queue[s], Copy(i, d.text)) ELSE queue[s]
<1>2. i \in Ids /\ (i \in Keeps(s) \/ i \notin minted)
  <2>1. d.id \in Ids \cup {NoId}
    BY <1>0 DEF Document
  <2>2. CASE d.id # NoId
    BY <1>1, <2>1, <2>2 DEF Keeps, KeptBy, Opened
  <2> QED
    BY <1>1, <2>1, <2>2
<1>3. deferred \in Copies /\ Holds(deferred) \subseteq Holds(ui[s].deferred) \cup {i}
  <2>1. ui[s].deferred \in Copies /\ d.text \in MaybeText
    BY <1>0, Parts DEF Document
  <2>2. [ui[s].deferred EXCEPT ![i] = d.text] \in Copies
        /\ Holds([ui[s].deferred EXCEPT ![i] = d.text]) \subseteq Holds(ui[s].deferred) \cup {i}
    BY <2>1 DEF Copies, Holds
  <2> QED
    BY <1>1, <1>1a, <2>1, <2>2, KeptType
<1>4. u \in Thread /\ u.call = NoCall /\ u.deferred = deferred
  BY <1>0, <1>3, Parts DEF Thread
<1>5. docs \in [Tabs -> Document] /\ Opened(docs) \subseteq Opened(tab[s]) \cup {i}
  <2>1. [d EXCEPT !.id = i, !.mark = mark] \in Document
        /\ [d EXCEPT !.id = i, !.mark = mark].id = i
    BY <1>0, <1>1, <1>2 DEF Document
  <2>2. tab[s] \in [Tabs -> Document]
    BY <1>0, Parts
  <2> QED
    BY <2>1, <2>2 DEF Opened
<1>6. /\ q \in Seq(Command) /\ Queued(q) \subseteq Queued(queue[s]) \cup {i}
      /\ \A n \in DOMAIN q : q[n].awaited => n \in DOMAIN queue[s] /\ q[n] = queue[s][n]
  <2>1. Copy(i, d.text) \in Command /\ ~Copy(i, d.text).awaited /\ Copy(i, d.text).id = i
    BY <1>0, <1>2 DEF Copy, Command, Document
  <2>2. queue[s] \in Seq(Command)
    BY <1>0, Parts
  <2>3. CASE queued
    BY <2>1, <2>2, <2>3, AppendQueued
  <2> QED
    BY <2>2, <2>3
<1>7. /\ writer' = writer /\ reports' = reports /\ session' = session
      /\ disk' = disk /\ ui' = [ui EXCEPT ![s] = u] /\ tab' = [tab EXCEPT ![s] = docs]
      /\ queue' = [queue EXCEPT ![s] = q] /\ minted' = minted \cup {i}
  <2>1. tab' = [tab EXCEPT ![s] = docs]
    BY <1>0, <1>1 DEF SetTab, Shape
  <2>2. queue' = [queue EXCEPT ![s] = q]
    BY <1>0, <1>1 DEF Shape
  <2> QED
    BY <1>1a, <2>1, <2>2 DEF SyncOffer
<1> HIDE DEF u, docs, q, d
<1>8. Corresponds(u, q, writer[s])
  BY <1>0, <1>4, <1>6, NobodyWaits, NoCallType DEF Corresponds
<1>9. Moves(s, docs, u, q, writer[s])
  BY <1>0, <1>2, <1>4, <1>5, <1>6, <1>7, <1>8, Parts DEF Moves, Shape
<1>10. KeptBy(docs, u, q, writer[s]) \subseteq Keeps(s) \cup {i}
  BY <1>3, <1>4, <1>5, <1>6, NoCallType DEF KeptBy, Keeps, Claimed
<1>11. Gains(s, docs, u, q, writer[s], {i})
  <2>1. \A v \in Sessions : v # s => i \notin Keeps(v)
    BY <1>2 DEF Inv, Custody
  <2>2. disk'[i] # NoRecord => disk'[i].owner = s
    BY <1>2, <1>7 DEF Inv, Custody, OnDisk
  <2> QED
    BY <1>0, <1>7, <1>10, <2>1, <2>2 DEF Gains, Live
<1>12. Alters(s, NoId) /\ NoId \notin Ids
  BY <1>0, <1>7, RecoveryAssumption DEF Alters, Shape
<1> QED
  BY <1>9, <1>11, <1>12, MovesKeepInv

\* Draining the reports, with a retry.
LEMMA DrainKeepsInv ==
  ASSUME Inv, NEW s \in Sessions, NEW wake \in BOOLEAN, Live(s), ui[s].call = NoCall,
         Drain(s, "idle", wake)
  PROVE  Inv'
<1>0. Shape
  BY DEF Inv
<1>1. PICK moved \in SUBSET Holds(ui[s].deferred) :
        /\ Retry(s, moved)
        /\ ui' = [ui EXCEPT ![s] = [ui[s] EXCEPT !.phase = "idle", !.wake = wake,
                                       !.deferred = Kept(ui[s].deferred, moved)]]
  BY DEF Drain
<1> DEFINE u    == [ui[s] EXCEPT !.phase = "idle", !.wake = wake,
                                 !.deferred = Kept(ui[s].deferred, moved)]
           docs == [t \in Tabs |-> IF tab[s][t].id \in reports[s]
                                   THEN [tab[s][t] EXCEPT !.mark = NoText] ELSE tab[s][t]]
<1>2. Kept(ui[s].deferred, moved) \in Copies
      /\ Holds(Kept(ui[s].deferred, moved)) = Holds(ui[s].deferred) \ moved
  BY <1>0, Parts, KeptType
<1>3. u \in Thread /\ u.call = NoCall /\ u.deferred = Kept(ui[s].deferred, moved)
  BY <1>0, <1>2, Parts DEF Thread
<1>4. docs \in [Tabs -> Document] /\ Opened(docs) \subseteq Opened(tab[s])
  <2>1. ASSUME NEW t \in Tabs
        PROVE  docs[t] \in Document /\ docs[t].id = tab[s][t].id
    BY <1>0, Parts DEF Document, MaybeText
  <2>2. docs \in [Tabs -> Document]
    BY <2>1
  <2> HIDE DEF docs
  <2> QED
    BY <2>1, <2>2 DEF Opened
<1>5. PICK q \in Seq(Command) :
        /\ queue' = [queue EXCEPT ![s] = q]
        /\ Queued(q) \subseteq Queued(queue[s]) \cup moved
        /\ \A n \in DOMAIN q : q[n].awaited => n \in DOMAIN queue[s] /\ q[n] = queue[s][n]
  BY <1>0, <1>1, RetryQueued
<1>6. /\ writer' = writer /\ session' = session /\ minted' = minted
      /\ disk' = disk /\ ui' = [ui EXCEPT ![s] = u] /\ tab' = [tab EXCEPT ![s] = docs]
      /\ reports' = [reports EXCEPT ![s] = {}]
  BY <1>1 DEF Drain
<1> HIDE DEF u, docs
<1>7. Corresponds(u, q, writer[s])
  BY <1>3, <1>5, NobodyWaits, NoCallType DEF Corresponds
<1>8. Moves(s, docs, u, q, writer[s])
  BY <1>0, <1>3, <1>4, <1>5, <1>6, <1>7, Parts DEF Moves, Shape
<1>9. KeptBy(docs, u, q, writer[s]) \subseteq Keeps(s)
  BY <1>2, <1>3, <1>4, <1>5, NoCallType DEF KeptBy, Keeps, Claimed
<1> QED
  BY <1>6, <1>8, <1>9, QuietMovesKeepInv

\* Deciding whether the window closes.
LEMMA QuitDecideKeepsInv ==
  ASSUME Inv, NEW s \in Sessions, QuitDecide(s)
  PROVE  Inv'
<1>0. Shape /\ Live(s) /\ ui[s].call = NoCall
  BY DEF Inv, QuitDecide, Busy
<1> DEFINE closing == \A t \in Tabs : tab[s][t].id = NoId
           u == [ui[s] EXCEPT !.phase = "sync", !.tried = {}, !.closing = closing]
<1>1. closing \in BOOLEAN
  OBVIOUS
<1> HIDE DEF closing
<1>2. u \in Thread /\ u.call = NoCall /\ u.deferred = ui[s].deferred
  BY <1>0, <1>1, Parts DEF Thread
<1>3. /\ writer' = writer /\ session' = session /\ minted' = minted /\ tab' = tab
      /\ disk' = disk /\ ui' = [ui EXCEPT ![s] = u] /\ reports' = reports /\ queue' = queue
  BY DEF QuitDecide, closing
<1> HIDE DEF u
<1>4. Corresponds(u, queue[s], writer[s])
  BY <1>0, <1>2, NobodyWaits, NoCallType DEF Corresponds
<1>5. Moves(s, tab[s], u, queue[s], writer[s])
  BY <1>0, <1>2, <1>3, <1>4, Parts DEF Moves, Shape
<1>6. KeptBy(tab[s], u, queue[s], writer[s]) \subseteq Keeps(s)
  BY <1>2, NoCallType DEF KeptBy, Keeps, Claimed
<1> QED
  BY <1>0, <1>3, <1>5, <1>6, QuietMovesKeepInv

\* Everything the UI thread does keeps the invariant.
LEMMA UiStepKeepsInv ==
  ASSUME Inv, NEW s \in Sessions, UiStep(s)
  PROVE  Inv'
<1>1. ASSUME NEW t \in Tabs, SyncResolve(s, t) \/ QuitClear(s, t) PROVE Inv'
  BY <1>1, CallForKeepsInv DEF SyncResolve, QuitClear, Busy
<1>2. CASE SyncFinish(s) \/ AfterWake(s)
  <2>1. ui[s].wake \in BOOLEAN
    BY Parts DEF Inv, Thread
  <2> QED
    BY <1>2, <2>1, DrainKeepsInv DEF SyncFinish, AfterWake, Busy
<1> QED
  BY <1>1, <1>2, SendKeepsInv, ReturnKeepsInv, SyncOfferKeepsInv, QuitDecideKeepsInv DEF UiStep

-----------------------------------------------------------------------------
(* What the writer does *)

\* What a waiting writer knows of the command it takes.
LEMMA ReceivesFacts ==
  ASSUME Inv, NEW s \in Sessions, NEW kind, Receives(s, kind)
  PROVE  /\ Shape /\ Live(s) /\ Holds(writer[s].batch) = {} /\ ~writer[s].flushing
         /\ queue[s] \in Seq(Command) /\ queue[s] # <<>>
         /\ Head(queue[s]) \in Command /\ Head(queue[s]).kind = kind
         /\ Corresponds(ui[s], queue[s], writer[s])
  BY Parts, TailFacts DEF Inv, Receives, Waiting, CallsCorrespond

\* Answering the head of the queue: s keeps no more than before, besides the id
\* of a claim that found its record.
LEMMA AnswerMoves ==
  ASSUME Inv, NEW s \in Sessions, NEW kind, Receives(s, kind),
         NEW ok \in BOOLEAN, NEW x \in MaybeText, Answer(s, ok, x), Taken(s),
         NEW w \in Worker, ~w.flushing, writer' = [writer EXCEPT ![s] = w],
         Holds(w.pending) \cup Holds(w.batch)
           \subseteq Holds(writer[s].pending) \cup Holds(writer[s].batch),
         tab' = tab, session' = session, minted' = minted
  PROVE  \E u, q :
           /\ Moves(s, tab[s], u, q, w)
           /\ KeptBy(tab[s], u, q, w)
                \subseteq Keeps(s) \cup {i \in Ids : i = Head(queue[s]).id /\ ok /\ x # NoText}
<1> DEFINE h    == Head(queue[s])
           c    == ui[s].call
           call == IF h.awaited THEN Answered(c, ok, x) ELSE c
           u    == [ui[s] EXCEPT !.wake = TRUE, !.call = call]
           q    == Tail(queue[s])
<1>0. /\ Shape /\ queue[s] \in Seq(Command) /\ queue[s] # <<>> /\ h \in Command
      /\ Corresponds(ui[s], queue[s], writer[s])
  BY ReceivesFacts
<1>1. /\ Answered(c, ok, x) \in Call /\ Answered(c, ok, x).stage = "answered"
      /\ Answered(c, ok, x).ok = ok /\ Answered(c, ok, x).text = x
      /\ Answered(c, ok, x).id = c.id
  BY <1>0, Parts DEF Answered, Call
<1>2. call \in Call
  BY <1>0, <1>1, Parts
<1>3. u \in Thread /\ u.call = call /\ u.deferred = ui[s].deferred
  <2> HIDE DEF call
  <2> QED
    BY <1>0, <1>2, Parts DEF Thread
<1>4. h.awaited => c.id = h.id
  BY <1>0, TailFacts DEF Corresponds
<1>5. /\ q \in Seq(Command) /\ Queued(q) \subseteq Queued(queue[s])
      /\ \A n \in DOMAIN q : q[n].awaited =>
           /\ c.stage = "wait" /\ c.id = q[n].id /\ ~h.awaited
           /\ \A m \in DOMAIN q : q[m].awaited => m = n
  BY <1>0, TailFacts, TailQueued
<1>6. ui' = [ui EXCEPT ![s] = u] /\ queue' = [queue EXCEPT ![s] = q]
  BY DEF Answer, Taken
<1> HIDE DEF u, q
<1>7. Corresponds(u, q, w)
  <2>1. u.call.stage # "answered" => ~u.call.ok
    BY <1>0, <1>1, <1>3 DEF Corresponds
  <2> QED
    BY <1>3, <1>5, <2>1 DEF Corresponds
<1>8. Moves(s, tab[s], u, q, w)
  BY <1>0, <1>3, <1>5, <1>6, <1>7, Parts DEF Moves, Shape
<1>9. Claimed(u) \subseteq Claimed(ui[s]) \cup {i \in Ids : i = h.id /\ ok /\ x # NoText}
  BY <1>1, <1>3, <1>4 DEF Claimed
<1>10. KeptBy(tab[s], u, q, w)
         \subseteq Keeps(s) \cup {i \in Ids : i = h.id /\ ok /\ x # NoText}
  BY <1>3, <1>5, <1>9 DEF KeptBy, Keeps
<1> QED
  BY <1>8, <1>10

\* Taking a copy in: it was queued and is gathered, flushed or refused.
LEMMA TakeUpsertKeepsInv ==
  ASSUME Inv, NEW s \in Sessions, TakeUpsert(s)
  PROVE  Inv'
<1> DEFINE h       == Head(queue[s])
           pending == Gathered(writer[s].pending, h)
           u       == [ui[s] EXCEPT !.wake = TRUE]
           q       == Tail(queue[s])
<1>0. /\ Shape /\ Live(s) /\ queue[s] \in Seq(Command) /\ queue[s] # <<>> /\ h \in Command
      /\ h.kind = "upsert" /\ Corresponds(ui[s], queue[s], writer[s])
      /\ ~writer[s].flushing
  BY ReceivesFacts DEF TakeUpsert
<1>1. pending \in Copies /\ Holds(pending) \subseteq Holds(writer[s].pending) \cup Queued(queue[s])
  <2>1. writer[s].pending \in Copies /\ h.text \in MaybeText
    BY <1>0, Parts DEF Command
  <2>2. pending \in Copies /\ \A i \in Holds(pending) : i \in Holds(writer[s].pending) \/ i = h.id
    BY <2>1 DEF Gathered, Copies, Holds
  <2>3. h.id \in Ids => h.id \in Queued(queue[s])
    BY <1>0, TailFacts DEF Queued
  <2> QED
    BY <2>2, <2>3 DEF Holds
<1>2. u \in Thread /\ u.call = ui[s].call /\ u.deferred = ui[s].deferred
  BY <1>0, Parts DEF Thread
<1>3. /\ q \in Seq(Command) /\ Queued(q) \subseteq Queued(queue[s])
      /\ \A n \in DOMAIN q : q[n].awaited =>
           /\ ui[s].call.stage = "wait" /\ ui[s].call.id = q[n].id
           /\ \A m \in DOMAIN q : q[m].awaited => m = n
  BY <1>0, TailFacts, TailQueued
<1>4. PICK w \in {writer[s], [writer[s] EXCEPT !.pending = pending, !.first = TRUE],
                  Flushing(pending, FALSE)} :
        writer' = [writer EXCEPT ![s] = w]
  BY <1>0 DEF TakeUpsert, Shape
<1>5. /\ w \in Worker /\ ~w.flushing
      /\ Holds(w.pending) \cup Holds(w.batch)
           \subseteq Holds(writer[s].pending) \cup Holds(writer[s].batch) \cup Queued(queue[s])
  <2> HIDE DEF pending
  <2>1. CASE w = writer[s]
    BY <1>0, <2>1, Parts
  <2>2. CASE w = [writer[s] EXCEPT !.pending = pending, !.first = TRUE]
    <3>1. /\ w \in Worker /\ w.pending = pending /\ w.batch = writer[s].batch
          /\ w.flushing = writer[s].flushing
      BY <1>0, <1>1, <2>2, Parts DEF Worker
    <3> QED
      BY <1>0, <1>1, <3>1
  <2>3. CASE w = Flushing(pending, FALSE)
    BY <1>1, <2>3, IdleTypes DEF Flushing, Worker
  <2> QED
    BY <1>4, <2>1, <2>2, <2>3
<1>6. /\ ui' = [ui EXCEPT ![s] = u] /\ queue' = [queue EXCEPT ![s] = q] /\ tab' = tab
      /\ session' = session /\ minted' = minted /\ disk' = disk
  BY DEF TakeUpsert, Wake, Taken
<1> HIDE DEF u, q
<1>7. Corresponds(u, q, w)
  BY <1>0, <1>2, <1>3, <1>5 DEF Corresponds
<1>8. Moves(s, tab[s], u, q, w)
  BY <1>0, <1>2, <1>3, <1>4, <1>5, <1>6, <1>7, Parts DEF Moves, Shape
<1>9. KeptBy(tab[s], u, q, w) \subseteq Keeps(s)
  BY <1>2, <1>3, <1>5 DEF KeptBy, Keeps, Claimed
<1> QED
  BY <1>0, <1>6, <1>8, <1>9, QuietMovesKeepInv

\* Removing a record and the copy that was gathered for it.
LEMMA TakeRemoveKeepsInv ==
  ASSUME Inv, NEW s \in Sessions, TakeRemove(s)
  PROVE  Inv'
<1> DEFINE h == Head(queue[s])
           w == [writer[s] EXCEPT !.pending = Kept(writer[s].pending, {h.id})]
<1>0. Receives(s, "remove") /\ Shape /\ Live(s) /\ h \in Command /\ ~writer[s].flushing
  BY ReceivesFacts DEF TakeRemove
<1>1. PICK ok \in BOOLEAN : Remove(s, h.id, ok) /\ Answer(s, ok, NoText)
  BY DEF TakeRemove
<1>2. Kept(writer[s].pending, {h.id}) \in Copies
      /\ Holds(Kept(writer[s].pending, {h.id})) \subseteq Holds(writer[s].pending)
  BY <1>0, Parts, KeptType
<1>3. /\ w \in Worker /\ ~w.flushing
      /\ Holds(w.pending) \cup Holds(w.batch)
           \subseteq Holds(writer[s].pending) \cup Holds(writer[s].batch)
  <2>1. /\ w \in Worker /\ w.flushing = writer[s].flushing
        /\ w.pending = Kept(writer[s].pending, {h.id}) /\ w.batch = writer[s].batch
    BY <1>0, <1>2, Parts DEF Worker
  <2> QED
    BY <1>0, <1>2, <2>1
<1>4. /\ Taken(s) /\ writer' = [writer EXCEPT ![s] = w] /\ tab' = tab
      /\ session' = session /\ minted' = minted
  BY DEF TakeRemove
<1> HIDE DEF w
<1>5. PICK u, q :
        /\ Moves(s, tab[s], u, q, w)
        /\ KeptBy(tab[s], u, q, w)
             \subseteq Keeps(s) \cup {i \in Ids : i = h.id /\ ok /\ NoText # NoText}
  <2>1. NoText \in MaybeText
    BY DEF MaybeText
  <2> QED
    BY <1>0, <1>1, <1>3, <1>4, <2>1, AnswerMoves
<1>6. Gains(s, tab[s], u, q, w, {})
  BY <1>0, <1>4, <1>5 DEF Gains, Live
<1>7. Alters(s, h.id) /\ (h.id \in Ids /\ disk'[h.id] # NoRecord => h.id \in OnDisk)
  BY <1>0, <1>1, RemoveAlters DEF OnDisk
<1> QED
  BY <1>5, <1>6, <1>7, MovesKeepInv

\* A claim that finds its record makes the session its only keeper.
LEMMA TakeClaimKeepsInv ==
  ASSUME Inv, NEW s \in Sessions, TakeClaim(s)
  PROVE  Inv'
<1> DEFINE h == Head(queue[s])
<1>0. Receives(s, "claim") /\ Shape /\ Live(s) /\ h \in Command /\ ~writer[s].flushing
  BY ReceivesFacts DEF TakeClaim
<1>1. PICK ok \in BOOLEAN, x \in MaybeText : Claim(s, h.id, ok, x) /\ Answer(s, ok, x)
  BY DEF TakeClaim
<1> DEFINE fresh == {i \in Ids : i = h.id /\ ok /\ x # NoText}
<1>2. /\ Taken(s) /\ writer' = [writer EXCEPT ![s] = writer[s]] /\ tab' = tab
      /\ session' = session /\ minted' = minted /\ writer[s] \in Worker
  BY <1>0, Parts DEF TakeClaim, Shape
<1>3. PICK u, q : /\ Moves(s, tab[s], u, q, writer[s])
                  /\ KeptBy(tab[s], u, q, writer[s]) \subseteq Keeps(s) \cup fresh
  BY <1>0, <1>1, <1>2, AnswerMoves
<1>4. /\ Alters(s, h.id)
      /\ h.id \in Ids /\ disk'[h.id] # NoRecord => h.id \in OnDisk
      /\ ok /\ x # NoText => h.id \in OnDisk /\ ~OwnedByOther(s, h.id) /\ disk'[h.id].owner = s
  BY <1>0, <1>1, ClaimAlters
<1>5. ASSUME NEW j \in fresh
      PROVE  /\ j \in minted' /\ disk'[j].owner = s
             /\ \A v \in Sessions : v # s => j \notin Keeps(v)
  <2>1. j \in OnDisk /\ ~OwnedByOther(s, j) /\ disk'[j].owner = s
    BY <1>4, <1>5
  <2>2. j \in minted'
    BY <1>2, <2>1 DEF Inv, Custody
  <2>3. ASSUME NEW v \in Sessions, v # s, j \in Keeps(v) PROVE FALSE
    <3>1. Live(v) /\ disk[j].owner = v
      BY <2>1, <2>3 DEF Inv, Custody
    <3> QED
      BY <2>1, <2>3, <3>1 DEF OwnedByOther, Abandoned
  <2> QED
    BY <2>1, <2>2, <2>3
<1> HIDE DEF fresh
<1>6. Gains(s, tab[s], u, q, writer[s], fresh)
  BY <1>0, <1>2, <1>3, <1>5 DEF Gains, Live
<1> QED
  BY <1>3, <1>4, <1>6, MovesKeepInv

\* Retention takes abandoned records only.
LEMMA TakeRetentionKeepsInv ==
  ASSUME Inv, NEW s \in Sessions, TakeRetention(s)
  PROVE  Inv'
<1>0. Receives(s, "retention") /\ Shape /\ Live(s) /\ ~writer[s].flushing
  BY ReceivesFacts DEF TakeRetention
<1>1. PICK ok \in BOOLEAN : Prune(ok) /\ Answer(s, ok, NoText)
  BY DEF TakeRetention
<1>2. /\ Taken(s) /\ writer' = [writer EXCEPT ![s] = writer[s]] /\ tab' = tab
      /\ session' = session /\ minted' = minted /\ writer[s] \in Worker
  BY <1>0, Parts DEF TakeRetention, Shape
<1>3. PICK u, q :
        /\ Moves(s, tab[s], u, q, writer[s])
        /\ KeptBy(tab[s], u, q, writer[s])
             \subseteq Keeps(s) \cup {i \in Ids : i = Head(queue[s]).id /\ ok /\ NoText # NoText}
  <2>1. NoText \in MaybeText
    BY DEF MaybeText
  <2> QED
    BY <1>0, <1>1, <1>2, <2>1, AnswerMoves
<1>4. Gains(s, tab[s], u, q, writer[s], {})
  BY <1>0, <1>2, <1>3 DEF Gains, Live
<1>5. Alters(s, NoId) /\ NoId \notin Ids
  BY <1>0, <1>1, PruneAlters, RecoveryAssumption
<1> QED
  BY <1>3, <1>4, <1>5, MovesKeepInv

\* A flush begins with what was gathered; somebody waits for it if somebody
\* waited for its command.
LEMMA TakeFlushKeepsInv ==
  ASSUME Inv, NEW s \in Sessions, TakeFlush(s)
  PROVE  Inv'
<1> DEFINE h == Head(queue[s])
           q == Tail(queue[s])
           w == Flushing(writer[s].pending, h.awaited)
<1>0. /\ Shape /\ Live(s) /\ queue[s] \in Seq(Command) /\ queue[s] # <<>> /\ h \in Command
      /\ Corresponds(ui[s], queue[s], writer[s])
  BY ReceivesFacts DEF TakeFlush
<1>1. /\ q \in Seq(Command) /\ Queued(q) \subseteq Queued(queue[s])
      /\ \A n \in DOMAIN q : q[n].awaited =>
           /\ ui[s].call.stage = "wait" /\ ui[s].call.id = q[n].id /\ ~h.awaited
           /\ \A m \in DOMAIN q : q[m].awaited => m = n
  BY <1>0, TailFacts, TailQueued
<1>2. /\ w \in Worker /\ w.flushing = h.awaited
      /\ Holds(w.pending) \cup Holds(w.batch) \subseteq Holds(writer[s].pending)
  <2>1. h.awaited \in BOOLEAN
    BY <1>0 DEF Command
  <2> QED
    BY <1>0, <2>1, Parts, IdleTypes DEF Flushing, Worker
<1>3. h.awaited => ui[s].call.stage = "wait"
  BY <1>0, TailFacts DEF Corresponds
<1>4. /\ ui' = ui /\ queue' = [queue EXCEPT ![s] = q] /\ tab' = tab
      /\ writer' = [writer EXCEPT ![s] = w]
      /\ session' = session /\ minted' = minted /\ disk' = disk
  BY DEF TakeFlush, Taken
<1> HIDE DEF q, w
<1>5. Corresponds(ui[s], q, w)
  BY <1>0, <1>1, <1>2, <1>3 DEF Corresponds
<1>6. Moves(s, tab[s], ui[s], q, w)
  BY <1>0, <1>1, <1>2, <1>4, <1>5, Parts DEF Moves, Shape
<1>7. KeptBy(tab[s], ui[s], q, w) \subseteq Keeps(s)
  BY <1>1, <1>2 DEF KeptBy, Keeps
<1> QED
  BY <1>0, <1>4, <1>6, <1>7, QuietMovesKeepInv

\* A flush nobody asked for.
LEMMA IdleFlushKeepsInv ==
  ASSUME Inv, NEW s \in Sessions, IdleFlush(s)
  PROVE  Inv'
<1> DEFINE w == Flushing(writer[s].pending, FALSE)
<1>0. Shape /\ Live(s) /\ Corresponds(ui[s], queue[s], writer[s])
  BY DEF Inv, IdleFlush, Waiting, CallsCorrespond
<1>1. /\ w \in Worker /\ ~w.flushing
      /\ Holds(w.pending) \cup Holds(w.batch) \subseteq Holds(writer[s].pending)
  BY <1>0, Parts, IdleTypes DEF Flushing, Worker
<1>2. /\ ui' = ui /\ queue' = queue /\ tab' = tab /\ writer' = [writer EXCEPT ![s] = w]
      /\ session' = session /\ minted' = minted /\ disk' = disk
  BY DEF IdleFlush
<1> HIDE DEF w
<1>3. Moves(s, tab[s], ui[s], queue[s], w)
  BY <1>0, <1>1, <1>2, Parts DEF Moves, Shape, Corresponds
<1>4. KeptBy(tab[s], ui[s], queue[s], w) \subseteq Keeps(s)
  BY <1>1 DEF KeptBy, Keeps
<1> QED
  BY <1>0, <1>2, <1>3, <1>4, QuietMovesKeepInv

\* The flush the UI thread waits for is over.
LEMMA AnswerFlushKeepsInv ==
  ASSUME Inv, NEW s \in Sessions, AnswerFlush(s)
  PROVE  Inv'
<1> DEFINE call == Answered(ui[s].call, ~writer[s].failed, NoText)
           u    == [ui[s] EXCEPT !.call = call]
           w    == [writer[s] EXCEPT !.flushing = FALSE]
<1>0. Shape /\ Live(s) /\ Corresponds(ui[s], queue[s], writer[s]) /\ writer[s].flushing
  BY DEF Inv, AnswerFlush, CallsCorrespond
<1>1. call \in Call /\ call.stage = "answered" /\ call.text = NoText
  <2>1. (~writer[s].failed) \in BOOLEAN /\ NoText \in MaybeText /\ ui[s].call \in Call
    BY <1>0, Parts DEF MaybeText
  <2> QED
    BY <2>1 DEF Answered, Call
<1>2. u \in Thread /\ u.call = call /\ u.deferred = ui[s].deferred
  <2> HIDE DEF call
  <2> QED
    BY <1>0, <1>1, Parts DEF Thread
<1>3. w \in Worker /\ ~w.flushing /\ w.pending = writer[s].pending /\ w.batch = writer[s].batch
  BY <1>0, Parts DEF Worker
<1>4. /\ ui' = [ui EXCEPT ![s] = u] /\ queue' = queue /\ tab' = tab
      /\ writer' = [writer EXCEPT ![s] = w]
      /\ session' = session /\ minted' = minted /\ disk' = disk
  BY DEF AnswerFlush
<1> HIDE DEF call, u, w
<1>5. Corresponds(u, queue[s], w)
  BY <1>0, <1>1, <1>2, <1>3 DEF Corresponds
<1>6. Moves(s, tab[s], u, queue[s], w)
  BY <1>0, <1>2, <1>3, <1>4, <1>5, Parts DEF Moves, Shape
<1>7. KeptBy(tab[s], u, queue[s], w) \subseteq Keeps(s)
  BY <1>1, <1>2, <1>3 DEF KeptBy, Keeps, Claimed
<1> QED
  BY <1>0, <1>4, <1>6, <1>7, QuietMovesKeepInv

\* Writing one copy of a flush.
LEMMA WriteCopyKeepsInv ==
  ASSUME Inv, NEW s \in Sessions, NEW i \in Ids, WriteCopy(s, i)
  PROVE  Inv'
<1>0. Shape /\ Live(s) /\ Corresponds(ui[s], queue[s], writer[s]) /\ writer[s].batch[i] \in Texts
  <2>1. writer[s].batch \in Copies /\ writer[s].batch[i] # NoText
    BY Parts DEF Inv, WriteCopy
  <2> QED
    BY <2>1 DEF Inv, WriteCopy, CallsCorrespond, Copies, MaybeText
<1>1. PICK ok \in BOOLEAN :
        /\ Upsert(s, i, writer[s].batch[i], ok)
        /\ writer' = [writer EXCEPT ![s] = [writer[s] EXCEPT
                        !.batch = Kept(writer[s].batch, {i}), !.failed = writer[s].failed \/ ~ok]]
        /\ ui' = IF ok THEN ui ELSE [ui EXCEPT ![s] = [ui[s] EXCEPT !.wake = TRUE]]
  BY DEF WriteCopy
<1> DEFINE failed == writer[s].failed \/ ~ok
           w == [writer[s] EXCEPT !.batch = Kept(writer[s].batch, {i}), !.failed = failed]
           u == IF ok THEN ui[s] ELSE [ui[s] EXCEPT !.wake = TRUE]
<1>2. /\ w \in Worker /\ w.flushing = writer[s].flushing /\ w.pending = writer[s].pending
      /\ Holds(w.batch) \subseteq Holds(writer[s].batch)
  <2>1. failed \in BOOLEAN
    BY <1>0, Parts DEF Worker
  <2>2. Kept(writer[s].batch, {i}) \in Copies
        /\ Holds(Kept(writer[s].batch, {i})) \subseteq Holds(writer[s].batch)
    BY <1>0, Parts, KeptType
  <2> HIDE DEF failed
  <2>3. /\ w \in Worker /\ w.flushing = writer[s].flushing /\ w.pending = writer[s].pending
        /\ w.batch = Kept(writer[s].batch, {i})
    BY <1>0, <2>1, <2>2, Parts DEF Worker
  <2> QED
    BY <2>2, <2>3
<1>3. u \in Thread /\ u.call = ui[s].call /\ u.deferred = ui[s].deferred
  BY <1>0, Parts DEF Thread
<1>4. ui' = [ui EXCEPT ![s] = u]
  BY <1>0, <1>1 DEF Shape
<1>5. /\ writer' = [writer EXCEPT ![s] = w] /\ queue' = queue /\ tab' = tab
      /\ session' = session /\ minted' = minted
  BY <1>1 DEF WriteCopy
<1> HIDE DEF u, w
<1>6. Corresponds(u, queue[s], w)
  BY <1>0, <1>2, <1>3 DEF Corresponds
<1>7. Moves(s, tab[s], u, queue[s], w)
  BY <1>0, <1>2, <1>3, <1>4, <1>5, <1>6, Parts DEF Moves, Shape
<1>8. KeptBy(tab[s], u, queue[s], w) \subseteq Keeps(s)
  BY <1>2, <1>3 DEF KeptBy, Keeps, Claimed
<1>9. Gains(s, tab[s], u, queue[s], w, {})
  BY <1>0, <1>5, <1>8 DEF Gains, Live
<1>10. Alters(s, i)
  BY <1>0, <1>1, UpsertAlters
<1>11. i \in Keeps(s)
  BY <1>0, RecoveryAssumption DEF Keeps, KeptBy, Holds
<1> QED
  BY <1>7, <1>9, <1>10, <1>11, MovesKeepInv

\* Everything the writer does keeps the invariant.
LEMMA WriterStepKeepsInv ==
  ASSUME Inv, NEW s \in Sessions, WriterStep(s)
  PROVE  Inv'
  BY TakeUpsertKeepsInv, TakeRemoveKeepsInv, TakeClaimKeepsInv, TakeRetentionKeepsInv,
     TakeFlushKeepsInv, IdleFlushKeepsInv, AnswerFlushKeepsInv, WriteCopyKeepsInv
  DEF WriterStep

-----------------------------------------------------------------------------
(* The life of a session *)

\* A session that starts keeps nothing, and prunes abandoned records only.
LEMMA StartKeepsInv ==
  ASSUME Inv, NEW s \in Sessions, Start(s)
  PROVE  Inv'
<1> DEFINE listed == {i \in Ids : disk'[i] # NoRecord /\ session'[disk'[i].owner] # "live"}
           u == [IdleThread EXCEPT !.listed = listed]
<1>0. Shape /\ ~Live(s) /\ ui[s].call = NoCall /\ Corresponds(ui[s], queue[s], writer[s])
  BY DEF Inv, Start, Live, CallsCorrespond
<1>1. PICK ok \in BOOLEAN : Prune(ok)
  BY DEF Start
<1>2. listed \subseteq Ids
  OBVIOUS
<1>3. /\ ui' = [ui EXCEPT ![s] = u] /\ session' = [session EXCEPT ![s] = "live"]
      /\ writer' = writer /\ queue' = queue /\ tab' = tab /\ minted' = minted
  BY DEF Start
<1> HIDE DEF listed
<1>4. u \in Thread /\ u.call = NoCall /\ u.deferred = NoCopies
  <2>1. IdleThread \in Thread /\ IdleThread.call = NoCall /\ IdleThread.deferred = NoCopies
    BY IdleTypes DEF IdleThread
  <2> HIDE DEF u
  <2>2. u = [IdleThread EXCEPT !.listed = listed]
    BY DEF u
  <2> QED
    BY <1>2, <2>1, <2>2 DEF Thread
<1> HIDE DEF u
<1>5. Corresponds(u, queue[s], writer[s])
  BY <1>0, <1>4 DEF Corresponds
<1>6. Moves(s, tab[s], u, queue[s], writer[s])
  BY <1>0, <1>3, <1>4, <1>5, Parts DEF Moves, Shape
<1>7. KeptBy(tab[s], u, queue[s], writer[s]) \subseteq Keeps(s)
  BY <1>4, IdleTypes, NoCallType DEF KeptBy, Keeps, Claimed
<1>8. session'[s] = "live"
  BY <1>0, <1>3 DEF Shape
<1>9. Gains(s, tab[s], u, queue[s], writer[s], {})
  BY <1>7, <1>8 DEF Gains
<1>10. Alters(s, NoId) /\ NoId \notin Ids
  BY <1>0, <1>1, PruneAlters, RecoveryAssumption
<1> QED
  BY <1>6, <1>9, <1>10, MovesKeepInv

\* A session that is over keeps nothing.
LEMMA DieKeepsInv ==
  ASSUME Inv, NEW s \in Sessions, Die(s)
  PROVE  Inv'
<1> DEFINE docs == [t \in Tabs |-> Closed]
<1>0. Shape
  BY DEF Inv
<1>1. /\ tab' = [tab EXCEPT ![s] = docs] /\ ui' = [ui EXCEPT ![s] = IdleThread]
      /\ queue' = [queue EXCEPT ![s] = <<>>] /\ writer' = [writer EXCEPT ![s] = IdleWorker]
      /\ session' = [session EXCEPT ![s] = "gone"] /\ minted' = minted /\ disk' = disk
  BY DEF Die
<1>2. docs \in [Tabs -> Document] /\ Opened(docs) = {}
  BY IdleTypes, RecoveryAssumption DEF Opened, Closed
<1>3. <<>> \in Seq(Command) /\ DOMAIN <<>> = {}
  OBVIOUS
<1>4. /\ IdleThread.call = NoCall /\ IdleThread.deferred = NoCopies
      /\ IdleWorker.pending = NoCopies /\ IdleWorker.batch = NoCopies /\ ~IdleWorker.flushing
  BY DEF IdleThread, IdleWorker
<1> HIDE DEF docs
<1>5. Corresponds(IdleThread, <<>>, IdleWorker)
  BY <1>3, <1>4, NoCallType DEF Corresponds
<1>6. Moves(s, docs, IdleThread, <<>>, IdleWorker)
  BY <1>0, <1>1, <1>2, <1>3, <1>5, IdleTypes DEF Moves, Shape
<1>7. KeptBy(docs, IdleThread, <<>>, IdleWorker) = {}
  BY <1>2, <1>3, <1>4, IdleTypes, NoCallType DEF KeptBy, Claimed, Queued
<1>8. Gains(s, docs, IdleThread, <<>>, IdleWorker, {})
  BY <1>4, <1>7 DEF Gains
<1>9. Alters(s, NoId) /\ NoId \notin Ids
  BY <1>0, <1>1, RecoveryAssumption DEF Alters, Shape
<1> QED
  BY <1>6, <1>8, <1>9, MovesKeepInv

-----------------------------------------------------------------------------
(* The invariant *)

\* At first nobody keeps anything, whatever earlier sessions left.
LEMMA InitInv == Init => Inv
<1> SUFFICES ASSUME Init PROVE Inv
  OBVIOUS
<1>1. PICK left \in SUBSET Ids :
        /\ minted = left
        /\ \E found \in [left -> [text : Texts, owner : Earlier]] :
             disk = [i \in Ids |-> IF i \in left THEN found[i] ELSE NoRecord]
  BY DEF Init
<1>2. disk \in Directory /\ OnDisk \subseteq minted
  <2>1. PICK found \in [left -> [text : Texts, owner : Earlier]] :
          disk = [i \in Ids |-> IF i \in left THEN found[i] ELSE NoRecord]
    BY <1>1
  <2>2. [text : Texts, owner : Earlier] \subseteq Record
    BY RecoveryAssumption DEF Record
  <2>3. disk \in Directory
    BY <2>1, <2>2 DEF Directory
  <2> QED
    BY <1>1, <2>1, <2>3 DEF OnDisk
<1>3. ASSUME NEW s \in Sessions
      PROVE  /\ ui[s] = IdleThread /\ queue[s] = <<>> /\ writer[s] = IdleWorker
             /\ tab[s] = [t \in Tabs |-> Closed]
  BY DEF Init
<1>4. Shape
  <2>1. [t \in Tabs |-> Closed] \in [Tabs -> Document] /\ <<>> \in Seq(Command)
    BY IdleTypes
  <2> QED
    BY <1>1, <1>2, <2>1, IdleTypes DEF Init, Shape
<1>5. ASSUME NEW s \in Sessions PROVE Keeps(s) = {}
  <2>1. Opened([t \in Tabs |-> Closed]) = {}
    BY RecoveryAssumption DEF Opened, Closed
  <2>2. DOMAIN <<>> = {}
    OBVIOUS
  <2>3. Queued(<<>>) = {}
    BY <2>2 DEF Queued
  <2>4. Claimed(IdleThread) = {} /\ IdleThread.deferred = NoCopies
        /\ IdleWorker.pending = NoCopies /\ IdleWorker.batch = NoCopies
    BY NoCallType DEF Claimed, IdleThread, IdleWorker
  <2> QED
    BY <1>3, <2>1, <2>3, <2>4, IdleTypes DEF Keeps, KeptBy
<1>6. CallsCorrespond
  <2>1. DOMAIN <<>> = {} /\ IdleThread.call = NoCall /\ ~IdleWorker.flushing
    BY DEF IdleThread, IdleWorker
  <2> QED
    BY <1>3, <2>1, NoCallType DEF CallsCorrespond, Corresponds
<1>7. Custody
  BY <1>2, <1>5 DEF Custody
<1> QED
  BY <1>4, <1>6, <1>7 DEF Inv

\* Every step keeps the invariant.
LEMMA NextKeepsInv == Inv /\ [Next]_vars => Inv'
<1>1. ASSUME Inv, NEW s \in Sessions,
             \/ Start(s) \/ UserStep(s) \/ UiStep(s) \/ GiveUp(s) \/ WriterStep(s) \/ Die(s)
      PROVE  Inv'
  BY <1>1, StartKeepsInv, UserStepKeepsInv, UiStepKeepsInv, GiveUpKeepsInv,
     WriterStepKeepsInv, DieKeepsInv
<1>2. ASSUME Inv, UNCHANGED vars PROVE Inv'
  BY <1>2 DEF vars, Inv, Shape, CallsCorrespond, Corresponds, Custody, Keeps, KeptBy, Opened,
              Queued, Claimed, Holds, OnDisk, Live
<1> QED
  BY <1>1, <1>2 DEF Next

\* Custody and correspondence hold in every reachable state.
THEOREM InvHolds == Spec => []Inv
  BY InitInv, NextKeepsInv, PTL DEF Spec

\* Two live sessions never have the same recovery id open (RecoveryStore::claim):
\* an open document's id is kept, and no two sessions keep the same one.
THEOREM SingleHolder == Spec => []OneHolder
<1>1. Inv => OneHolder
  <2> SUFFICES ASSUME Inv, NEW s \in Sessions, NEW v \in Sessions, s # v,
                      NEW t \in Tabs, NEW u \in Tabs,
                      tab[s][t].id # NoId, tab[s][t].id = tab[v][u].id
               PROVE  FALSE
    BY DEF OneHolder
  <2>1. tab[s][t].id \in Ids
    BY DEF Inv, Shape, Document
  <2>2. tab[s][t].id \in Keeps(s) /\ tab[s][t].id \in Keeps(v)
    BY <2>1 DEF Keeps, KeptBy, Opened
  <2> QED
    BY <2>2 DEF Inv, Custody
<1> QED
  BY <1>1, InvHolds, PTL

-----------------------------------------------------------------------------
(* Whose step changes the directory *)

\* The user, the UI thread and the end of a session change no record.
LEMMA OnlyWritersWrite ==
  ASSUME NEW s \in Sessions, UserStep(s) \/ UiStep(s) \/ GiveUp(s) \/ Die(s)
  PROVE  disk' = disk /\ older' = older
<1>1. CASE UserStep(s)
  BY <1>1 DEF UserStep, OpenDocument, Edit, Save, CloseSaved, DiscardAndClose,
              DiscardAndReload, DiscardCopy, Restore, SetRetention, Quit, QuitDiscarding,
              Dispatch
<1>2. CASE UiStep(s)
  BY <1>2 DEF UiStep, Send, Return, SyncResolve, QuitClear, CallFor, SyncOffer, SyncFinish,
              AfterWake, Drain, QuitDecide
<1> QED
  BY <1>1, <1>2 DEF GiveUp, Die

\* Taking a command changes the queue.
LEMMA TakenChanges ==
  ASSUME Inv, NEW s \in Sessions, NEW kind, Receives(s, kind), Taken(s)
  PROVE  queue'[s] # queue[s]
  BY ReceivesFacts, TailFacts DEF Taken, Shape

\* A writer that changes a record alters one id, and moves on itself.
LEMMA WriterAlters ==
  ASSUME Inv, NEW s \in Sessions, WriterStep(s)
  PROVE  \/ disk' = disk
         \/ \E i : Alters(s, i) /\ (writer'[s] # writer[s] \/ queue'[s] # queue[s])
<1>0. Shape
  BY DEF Inv
<1>1. CASE TakeUpsert(s) \/ TakeFlush(s) \/ IdleFlush(s) \/ AnswerFlush(s)
  BY <1>1 DEF TakeUpsert, TakeFlush, IdleFlush, AnswerFlush
<1>2. CASE TakeRemove(s)
  BY <1>0, <1>2, RemoveAlters, TakenChanges DEF TakeRemove
<1>3. CASE TakeClaim(s)
  BY <1>0, <1>3, ClaimAlters, TakenChanges DEF TakeClaim
<1>4. CASE TakeRetention(s)
  BY <1>0, <1>4, PruneAlters, TakenChanges DEF TakeRetention
<1>5. ASSUME NEW i \in Ids, WriteCopy(s, i)
      PROVE  Alters(s, i) /\ writer'[s] # writer[s]
  <2>1. writer[s] \in Worker /\ writer[s].batch \in Copies /\ writer[s].batch[i] # NoText
    BY <1>0, <1>5, Parts DEF WriteCopy
  <2>2. writer[s].batch[i] \in Texts
    BY <2>1 DEF Copies, MaybeText
  <2>3. Alters(s, i)
    BY <1>0, <1>5, <2>2, UpsertAlters DEF WriteCopy
  <2>4. writer'[s].batch[i] = NoText
    <3>1. writer'[s].batch = Kept(writer[s].batch, {i})
      BY <1>0, <1>5, <2>1 DEF WriteCopy, Shape, Worker
    <3> QED
      BY <3>1 DEF Kept
  <2> QED
    BY <2>1, <2>3, <2>4
<1> QED
  BY <1>1, <1>2, <1>3, <1>4, <1>5 DEF WriterStep

\* As long as a session lives, only its own writer touches its records
\* (RecoveryStore::upsert, remove, claim and prune_to_policy).
THEOREM LiveCopies == Spec => LiveCopiesAreProtected
<1> DEFINE Protected ==
             \A i \in Ids, s \in Sessions :
               (/\ disk[i].owner = s /\ Live(s) /\ session'[s] = "live"
                /\ disk'[i] # disk[i])
                 => writer'[s] # writer[s] \/ queue'[s] # queue[s]
<1>1. ASSUME Inv, Next PROVE Protected
  <2> SUFFICES ASSUME NEW i \in Ids, NEW s \in Sessions, disk[i].owner = s, Live(s),
                      disk'[i] # disk[i]
               PROVE  writer'[s] # writer[s] \/ queue'[s] # queue[s]
    OBVIOUS
  <2>1. i \in OnDisk \ Abandoned
    BY RecoveryAssumption DEF OnDisk, Abandoned, NoRecord
  <2>2. PICK v \in Sessions : \/ Start(v) \/ UserStep(v) \/ UiStep(v) \/ GiveUp(v)
                              \/ WriterStep(v) \/ Die(v)
    BY <1>1 DEF Next
  <2>3. CASE Start(v)
    <3>1. Alters(v, NoId)
      BY <1>1, <2>3, PruneAlters DEF Start, Inv
    <3> QED
      BY <2>1, <3>1, RecoveryAssumption DEF Alters
  <2>4. CASE UserStep(v) \/ UiStep(v) \/ GiveUp(v) \/ Die(v)
    BY <2>4, OnlyWritersWrite
  <2>5. CASE WriterStep(v)
    <3>1. PICK j : Alters(v, j) /\ (writer'[v] # writer[v] \/ queue'[v] # queue[v])
      BY <1>1, <2>5, WriterAlters
    <3>2. ~OwnedByOther(v, i)
      BY <2>1, <3>1 DEF Alters
    <3>3. v = s
      BY <2>1, <3>2 DEF OwnedByOther
    <3> QED
      BY <3>1, <3>3
  <2> QED
    BY <2>2, <2>3, <2>4, <2>5
<1>2. Inv /\ [Next]_vars => [Protected]_vars
  BY <1>1
<1>3. Spec => [][Protected]_vars
  BY <1>2, InvHolds, PTL DEF Spec
<1> QED
  BY <1>3 DEF LiveCopiesAreProtected

=============================================================================
