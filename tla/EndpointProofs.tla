--------------------------- MODULE EndpointProofs ---------------------------
(***************************************************************************)
(* What is proved of Endpoint, for every set of sessions and texts and     *)
(* every bound.                                                            *)
(***************************************************************************)
EXTENDS Endpoint, FiniteSetTheorems, WellFoundedInduction, TLAPS

-----------------------------------------------------------------------------
(* Types *)

\* A call that saves has a text to save.
HasText ==
  \A s \in Sessions :
    (call[s].kind = "save" \/ call[s].step \in {"target", "author"}) => call[s].text \in Texts

Typing == TypeOK /\ HasText

\* The store is a sequence of versions.
LEMMA StoreShape ==
  ASSUME TypeOK
  PROVE  /\ Len(store) \in Nat /\ Known = 1..Len(store) /\ Known \subseteq Id
         /\ \A x \in Known : store[x] \in Version
         /\ \A x \in Known : store[x].past \in SUBSET Id /\ store[x].base \in SUBSET Id
                             /\ store[x].unseen \in SUBSET Id /\ store[x].text \in Texts
         /\ IsFiniteSet(Known)
  <1>1. Len(store) \in Nat /\ Known = 1..Len(store) /\ Len(store) <= MaxVersions
    BY DEF TypeOK, Known
  <1>2. \A x \in Known : store[x] \in Version
    BY <1>1 DEF TypeOK, Known
  <1>3. IsFiniteSet(Known)
    BY <1>1, FS_Interval
  <1>4. Known \subseteq Id
    BY <1>1, EndpointAssumption DEF Id
  <1> QED
    BY <1>1, <1>2, <1>3, <1>4 DEF Version, Token

\* Adding a version leaves the others alone.
LEMMA StoreGrows ==
  ASSUME TypeOK, NEW v \in Version, Len(store) < MaxVersions, store' = Append(store, v)
  PROVE  /\ store' \in Seq(Version) /\ Len(store') = Len(store) + 1 /\ Len(store') <= MaxVersions
         /\ Len(store) + 1 \notin Known
         /\ Known' = Known \cup {Len(store) + 1}
         /\ store'[Len(store) + 1] = v
         /\ \A x \in Known : store'[x] = store[x]
  <1>1. store \in Seq(Version) /\ Len(store) \in Nat /\ Known = 1..Len(store)
    BY StoreShape DEF TypeOK
  <1>2. store' \in Seq(Version) /\ Len(store') = Len(store) + 1
    BY <1>1
  <1>3. Known' = 1..(Len(store) + 1)
    BY <1>2 DEF Known
  <1>4. store'[Len(store) + 1] = v /\ \A x \in 1..Len(store) : store'[x] = store[x]
    BY <1>1
  <1> QED
    BY <1>1, <1>2, <1>3, <1>4, EndpointAssumption

\* What heads say together is a text or a conflict.
LEMMA SettledType ==
  ASSUME TypeOK, NEW heads \in SUBSET Known
  PROVE  Settled(heads) \in Texts \cup {NoText}
  <1> DEFINE f == [x \in heads |-> store[x].text]
             texts == {store[x].text : x \in heads}
             changed == texts \ {store[MergeBase(heads)].text}
  <1>1. texts \subseteq Texts /\ IsFiniteSet(heads)
    BY StoreShape, FS_Subset
  <1>2. f \in Surjection(heads, texts)
    BY DEF Surjection
  <1>3. IsFiniteSet(texts) /\ IsFiniteSet(changed)
    BY <1>1, <1>2, FS_Surjection, FS_Subset
  <1>4. ASSUME Cardinality(texts) = 1 PROVE (CHOOSE t \in texts : TRUE) \in Texts
    BY <1>1, <1>3, <1>4, FS_Singleton
  <1>5. ASSUME Cardinality(changed) = 1 PROVE (CHOOSE t \in changed : TRUE) \in Texts
    <2>1. PICK t : changed = {t}
      BY <1>3, <1>5, FS_Singleton
    <2> QED BY <1>1, <2>1
  <1> QED
    BY <1>4, <1>5 DEF Settled

\* Whatever an install leaves is well typed.
LEMMA InstallTypes ==
  ASSUME TypeOK
  PROVE  Installed \in Resident /\ FailedInstalls \subseteq Resident
  <1>1. Heads \in SUBSET Known /\ Closed \in SUBSET Known /\ Known \subseteq Id
    BY StoreShape DEF Heads, HeadsOf, Closed
  <1>2. /\ Projection.text \in Texts \cup {NoText} /\ Projection.head \in Token
        /\ Projection.pending \in BOOLEAN /\ Projection.seen \in SUBSET Id
    BY <1>1, SettledType DEF Projection, Token
  <1>3. resident \in Resident /\ resident.rev \in Nat
    BY DEF TypeOK, Resident
  <1>4. Installed \in Resident
    BY <1>2, <1>3 DEF Installed, Resident, Bumped
  <1>5. HalfInstalled \subseteq Resident
    BY <1>2, <1>3 DEF HalfInstalled, Resident
  <1> QED
    BY <1>3, <1>4, <1>5 DEF FailedInstalls

\* The types hold initially.
LEMMA InitTyping == Init => Typing
  <1> SUFFICES ASSUME Init PROVE Typing
    OBVIOUS
  <1>1. RemoteVersion(First, {}) \in Version
    BY EndpointAssumption DEF RemoteVersion, Version, Token
  <1>2. store \in Seq(Version) /\ Len(store) = 1
    BY <1>1 DEF Init
  <1>3. Known = {1} /\ 1 \in Id
    BY <1>2, EndpointAssumption DEF Known, Id
  <1>4. resident \in Resident
    BY <1>3, EndpointAssumption DEF Init, Resident, Token
  <1>5. NoView \in View /\ Idle \in Call
    BY DEF NoView, View, Token, Idle, Request, Call, Kinds, Steps
  <1>6. sess \in [Sessions -> Session] /\ client \in [Sessions -> Client]
    BY <1>5 DEF Init, Session, Client, NoView, View, Token
  <1>7. call \in [Sessions -> Call] /\ \A s \in Sessions : call[s] = Idle
    BY <1>5 DEF Init
  <1>8. HasText
    BY <1>7 DEF HasText, Idle, Request
  <1>9. TypeOK
    <2>1. late = {} /\ unsettled = {} /\ torn = FALSE /\ faults \in 0..MaxFaults
      BY EndpointAssumption DEF Init
    <2>2. Len(store) <= MaxVersions
      BY <1>2, EndpointAssumption
    <2> QED
      BY <1>2, <1>4, <1>6, <1>7, <2>1, <2>2 DEF TypeOK
  <1> QED
    BY <1>8, <1>9 DEF Typing

\* What does not touch the store, and forgets no save.
Frame == store' = store /\ late' \subseteq late /\ unsettled' = unsettled

\* With the store alone, so is what is typed by it.
LEMMA FrameTypes ==
  ASSUME TypeOK, Frame
  PROVE  /\ Known' = Known /\ Own' = Own
         /\ store' \in Seq(Version) /\ Len(store') <= MaxVersions
         /\ late' \subseteq Known' /\ unsettled' \subseteq Own'
  BY DEF Frame, TypeOK, Known, Own

\* The same when the store takes a version.
LEMMA GrowthTypes ==
  ASSUME TypeOK, NEW v \in Version, Len(store) < MaxVersions, store' = Append(store, v)
  PROVE  /\ Known \subseteq Known' /\ Own \subseteq Own'
         /\ Len(store) + 1 \in Known'
         /\ v.by # Remote => Len(store) + 1 \in Own'
         /\ Own' \subseteq Own \cup {Len(store) + 1}
         /\ store' \in Seq(Version) /\ Len(store') <= MaxVersions
  BY StoreGrows DEF Own

\* How a call may go on.
LEMMA CallTypes ==
  ASSUME Typing, NEW s \in Sessions
  PROVE  /\ Finish(s) => call' \in [Sessions -> Call] /\ HasText'
         /\ \A step \in Steps :
              (Continue(s, step) /\ (step \in {"target", "author"} => call[s].text \in Texts))
                => call' \in [Sessions -> Call] /\ HasText'
         /\ UNCHANGED call => call' \in [Sessions -> Call] /\ HasText'
  <1>1. call \in [Sessions -> Call] /\ HasText
    BY DEF Typing, TypeOK
  <1>2. Idle \in Call /\ Idle.kind = "poll" /\ Idle.step = "idle"
    BY DEF Idle, Request, Call, Kinds, Steps, Token
  <1>3. ASSUME Finish(s) PROVE call' \in [Sessions -> Call] /\ HasText'
    BY <1>1, <1>2, <1>3 DEF Finish, HasText
  <1>4. ASSUME NEW step \in Steps, Continue(s, step),
               step \in {"target", "author"} => call[s].text \in Texts
        PROVE  call' \in [Sessions -> Call] /\ HasText'
    <2>1. call' = [call EXCEPT ![s] = [call[s] EXCEPT !.step = step]]
      BY <1>4 DEF Continue
    <2>2. [call[s] EXCEPT !.step = step] \in Call
      BY <1>1 DEF Call
    <2>3. call' \in [Sessions -> Call]
      BY <1>1, <2>1, <2>2
    <2>4. \A z \in Sessions : z # s => call'[z] = call[z]
      BY <1>1, <2>1
    <2>5. call'[s].step = step /\ call'[s].kind = call[s].kind /\ call'[s].text = call[s].text
      BY <1>1, <2>1 DEF Call
    <2> QED
      BY <1>1, <1>4, <2>3, <2>4, <2>5 DEF HasText
  <1>5. ASSUME UNCHANGED call PROVE call' \in [Sessions -> Call] /\ HasText'
    BY <1>1, <1>5 DEF HasText
  <1> QED
    BY <1>3, <1>4, <1>5

\* What a session observes and what its snapshot says are well typed.
LEMMA AnswerTypes ==
  ASSUME TypeOK, NEW s \in Sessions
  PROVE  Observed(s) \in Session /\ Built(s) \in View
  <1>1. sess[s] \in Session /\ resident.rev \in Nat /\ resident.text \in Texts \cup {NoText}
        /\ resident.head \in Token
    BY DEF TypeOK, Resident
  <1>2. Observed(s) \in Session
    <2>1. sess[s].rev + 1 \in Nat
      BY <1>1 DEF Session
    <2>2. [sess[s] EXCEPT !.observed = resident.rev, !.rev = sess[s].rev + 1] \in Session
      BY <1>1, <2>1 DEF Session
    <2> QED BY <1>1, <2>2 DEF Observed
  <1>3. Built(s) \in View
    BY <1>1 DEF Built, View, Session, Token
  <1> QED
    BY <1>2, <1>3

\* A request is a call, and has a text when it saves.
LEMMA BeginTyping ==
  ASSUME Typing, NEW s \in Sessions, NEW request \in Call,
         request.step = "observe", request.kind = "save" => request.text \in Texts,
         Begin(s, request)
  PROVE  Typing'
  <1> USE DEF Begin
  <1>1. Frame /\ TypeOK
    BY DEF Frame, Typing
  <1>2. call' \in [Sessions -> Call] /\ HasText'
    <2>1. call \in [Sessions -> Call] /\ HasText /\ call' = [call EXCEPT ![s] = request]
      BY DEF Typing, TypeOK
    <2>2. "observe" \notin {"target", "author"}
      OBVIOUS
    <2>3. \A z \in Sessions : call'[z] = IF z = s THEN request ELSE call[z]
      BY <2>1
    <2>4. HasText'
      BY <2>1, <2>2, <2>3 DEF HasText
    <2> QED BY <2>1, <2>4
  <1>3. resident' \in Resident
    BY <1>1, InstallTypes
  <1> QED
    BY <1>1, <1>2, <1>3, FrameTypes DEF Typing, TypeOK

\* Every step of a client keeps the types.
LEMMA AskTyping ==
  ASSUME Typing, NEW s \in Sessions, Ask(s)
  PROVE  Typing'
  <1>0. /\ client[s].view.rev \in Nat /\ client[s].draft \in Token
        /\ client[s].view.token \in Token
    BY DEF Typing, TypeOK, Client, View
  <1>2. CASE Mount(s)
    <2>1. Request("snapshot") \in Call /\ Request("snapshot").step = "observe"
          /\ Request("snapshot").kind = "snapshot"
      BY DEF Request, Call, Steps, Kinds, Token
    <2> QED BY <1>2, <2>1, BeginTyping DEF Mount
  <1>3. CASE Poll(s)
    <2>1. Request("poll") \in Call /\ Request("poll").step = "observe"
          /\ Request("poll").kind = "poll"
      BY DEF Request, Call, Steps, Kinds, Token
    <2> QED BY <1>3, <2>1, BeginTyping DEF Poll
  <1>4. CASE Resume(s)
    <2> DEFINE r == [Request("resume") EXCEPT !.ack = client[s].view.rev]
    <2>1. r \in Call /\ r.step = "observe" /\ r.kind = "resume"
      BY <1>0 DEF Request, Call, Steps, Kinds, Token
    <2> QED BY <1>4, <2>1, BeginTyping DEF Resume
  <1>5. ASSUME NEW t \in Typed[s], Save(s, t) PROVE Typing'
    <2> DEFINE r == [Request("save") EXCEPT !.ack = client[s].view.rev,
                                            !.token = client[s].draft, !.text = t]
    <2>1. t \in Texts
      BY EndpointAssumption
    <2>2. r \in Call /\ r.step = "observe" /\ r.text \in Texts
      BY <1>0, <2>1 DEF Request, Call, Steps, Kinds, Token
    <2> QED BY <1>5, <2>2, BeginTyping DEF Save
  <1>6. CASE InsertClip(s)
    <2> DEFINE r == [Request("clip") EXCEPT !.ack = client[s].view.rev,
                                            !.token = client[s].view.token]
    <2>1. r \in Call /\ r.step = "observe" /\ r.kind = "clip"
      BY <1>0 DEF Request, Call, Steps, Kinds, Token
    <2> QED BY <1>6, <2>1, BeginTyping DEF InsertClip
  <1>7. CASE Edit(s)
    <2>1. Frame /\ TypeOK /\ UNCHANGED <<resident, sess, call, torn, faults>>
      BY <1>7 DEF Frame, Edit, Typing
    <2>2. client' \in [Sessions -> Client]
      BY <1>0, <1>7 DEF Edit, Typing, TypeOK, Client
    <2> QED
      BY <2>1, <2>2, FrameTypes, CallTypes DEF Typing, TypeOK
  <1> QED
    BY <1>2, <1>3, <1>4, <1>5, <1>6, <1>7 DEF Ask, Look

\* Every step of a call keeps the types.
LEMMA AnswerTyping ==
  ASSUME Typing, NEW s \in Sessions, Answer(s)
  PROVE  Typing'
  <1>0. /\ TypeOK /\ sess \in [Sessions -> Session] /\ client \in [Sessions -> Client]
        /\ sess[s] \in Session /\ client[s] \in Client /\ client[s].bell \in BOOLEAN
        /\ sess[s].announced \in Nat /\ sess[s].rev \in Nat /\ {} \in Token
        /\ Observed(s) \in Session /\ Observed(s).rev \in Nat /\ Built(s) \in View
    BY AnswerTypes DEF Typing, TypeOK, Client, Session, Token
  <1>1. CASE AnswerSnapshot(s)
    <2>1. Frame /\ UNCHANGED <<resident, client, torn, faults>> /\ Continue(s, "read")
      BY <1>1 DEF AnswerSnapshot, Frame
    <2>2. sess' \in [Sessions -> Session]
      BY <1>0, <1>1 DEF AnswerSnapshot
    <2> QED
      BY <1>0, <2>1, <2>2, FrameTypes, CallTypes DEF Typing, TypeOK, Steps
  <1>2. CASE AnswerPoll(s)
    <2> DEFINE rings == Observed(s).snap.rev # 0 /\ Observed(s).rev > Observed(s).announced
               next == [Observed(s) EXCEPT !.announced = IF rings THEN Observed(s).rev ELSE @]
               told == [client[s] EXCEPT !.bell = @ \/ rings]
    <2>1. Frame /\ UNCHANGED <<resident, torn, faults>> /\ Finish(s)
      BY <1>2 DEF AnswerPoll, Frame
    <2>2. next \in Session
      BY <1>0 DEF Session
    <2>3. told \in Client
      BY <1>0 DEF Client
    <2>4. sess' = [sess EXCEPT ![s] = next] /\ client' = [client EXCEPT ![s] = told]
      BY <1>0, <1>2 DEF AnswerPoll
    <2>5. sess' \in [Sessions -> Session] /\ client' \in [Sessions -> Client]
      BY <1>0, <2>2, <2>3, <2>4
    <2> QED
      BY <1>0, <2>1, <2>5, FrameTypes, CallTypes DEF Typing, TypeOK
  <1>3. CASE AnswerResume(s)
    <2> DEFINE current == call[s].ack = Observed(s).rev
               next == [Observed(s) EXCEPT !.announced = IF current THEN Observed(s).rev ELSE @]
               told == [client[s] EXCEPT !.bell = @ /\ ~current]
    <2>1. Frame /\ UNCHANGED <<resident, torn, faults>> /\ (Finish(s) \/ Continue(s, "read"))
      BY <1>3 DEF AnswerResume, Frame
    <2>2. next \in Session
      BY <1>0 DEF Session
    <2>3. told \in Client
      BY <1>0 DEF Client
    <2>4. sess' = [sess EXCEPT ![s] = next] /\ client' = [client EXCEPT ![s] = told]
      BY <1>0, <1>3 DEF AnswerResume
    <2>5. sess' \in [Sessions -> Session] /\ client' \in [Sessions -> Client]
      BY <1>0, <2>2, <2>3, <2>4
    <2> QED
      BY <1>0, <2>1, <2>5, FrameTypes, CallTypes DEF Typing, TypeOK, Steps
  <1>4. ASSUME NEW kind \in {"save", "clip"}, NEW step \in {"target", "compose"},
               kind = "clip" => step = "compose", AnswerIntent(s, kind, step)
        PROVE  Typing'
    <2>1. Frame /\ UNCHANGED <<resident, client, torn, faults>>
          /\ (Finish(s) \/ Continue(s, "read") \/ Continue(s, step))
      BY <1>4 DEF AnswerIntent, Frame
    <2>2. sess' \in [Sessions -> Session]
      BY <1>0, <1>4 DEF AnswerIntent
    <2>3. step \in {"target", "author"} => call[s].text \in Texts
      BY <1>4 DEF Typing, HasText, AnswerIntent, At
    <2>4. call' \in [Sessions -> Call] /\ HasText'
      BY <2>1, <2>3, CallTypes DEF Steps
    <2> QED
      BY <1>0, <2>1, <2>2, <2>4, FrameTypes DEF Typing, TypeOK
  <1>5. CASE Compose(s)
    <2>1. Frame /\ UNCHANGED <<resident, sess, client, torn, faults>>
      BY <1>5 DEF Compose, Frame
    <2>2. CASE Finish(s)
      BY <1>0, <2>1, <2>2, FrameTypes, CallTypes DEF Typing, TypeOK
    <2>3. CASE /\ Clip[resident.text] # NoText /\ Editable
               /\ call' = [call EXCEPT ![s].step = "target", ![s].text = Clip[resident.text]]
      <3> DEFINE c == [call[s] EXCEPT !.step = "target", !.text = Clip[resident.text]]
      <3>1. Clip[resident.text] \in Texts
        BY <2>3, EndpointAssumption DEF Editable, Typing, TypeOK, Resident
      <3>2. c \in Call /\ c.text \in Texts
        BY <3>1 DEF Typing, TypeOK, Call, Steps
      <3>3. call' = [call EXCEPT ![s] = c]
        BY <2>3 DEF Typing, TypeOK
      <3>4. call' \in [Sessions -> Call] /\ \A z \in Sessions : call'[z] = IF z = s THEN c ELSE call[z]
        BY <3>2, <3>3 DEF Typing, TypeOK
      <3>5. HasText'
        BY <3>2, <3>4 DEF Typing, HasText
      <3> QED
        BY <1>0, <2>1, <3>4, <3>5, FrameTypes DEF Typing, TypeOK
    <2> QED
      BY <1>5, <2>2, <2>3 DEF Compose
  <1>6. CASE Target(s)
    <2>1. Frame /\ UNCHANGED <<resident, sess, torn, faults>>
          /\ (Finish(s) \/ Continue(s, "author")) /\ (Accept(s) \/ client' = client)
      BY <1>6 DEF Target, Frame
    <2>2. call[s].text \in Texts
      BY <1>6 DEF Target, Typing, HasText
    <2>3. client' \in [Sessions -> Client]
      BY <1>0, <2>1 DEF Accept, Client
    <2>4. call' \in [Sessions -> Call] /\ HasText'
      BY <2>1, <2>2, CallTypes DEF Steps
    <2> QED
      BY <1>0, <2>1, <2>3, <2>4, FrameTypes DEF Typing, TypeOK
  <1>7. CASE AuthorSave(s)
    <2> DEFINE v == [by |-> s, text |-> call[s].text, past |-> Known, base |-> call[s].token,
                     unseen |-> Known \ resident.seen, clipped |-> call[s].kind = "clip"]
    <2>1. UNCHANGED <<late, resident, sess, client, torn, faults>>
      BY <1>7 DEF AuthorSave
    <2>2. CASE UNCHANGED <<store, unsettled>> /\ Finish(s)
      <3>1. Frame
        BY <2>1, <2>2 DEF Frame
      <3> QED
        BY <1>0, <2>1, <2>2, <3>1, FrameTypes, CallTypes DEF Typing, TypeOK
    <2>3. CASE /\ Len(store) < MaxVersions /\ store' = Append(store, v) /\ Continue(s, "install")
               /\ unsettled' = unsettled \cup (IF late = {} THEN {} ELSE {Len(store) + 1})
      <3>1. call[s].text \in Texts /\ call[s].token \in Token
        BY <1>7 DEF AuthorSave, Typing, TypeOK, HasText, Call
      <3>2. v \in Version
        BY <1>0, <3>1, StoreShape DEF Version, Token
      <3>3. s # Remote
        BY EndpointAssumption
      <3>4. call' \in [Sessions -> Call] /\ HasText'
        BY <2>3, CallTypes DEF Steps
      <3>5. late' \subseteq Known' /\ unsettled' \subseteq Own'
        BY <1>0, <2>1, <2>3, <3>2, <3>3, GrowthTypes DEF TypeOK
      <3> QED
        BY <1>0, <2>1, <2>3, <3>2, <3>4, <3>5, GrowthTypes DEF Typing, TypeOK
    <2> QED
      BY <1>7, <2>2, <2>3 DEF AuthorSave
  <1>8. CASE InstallSave(s)
    <2>1. Frame /\ UNCHANGED <<sess, client, torn, faults>> /\ Continue(s, "saved")
          /\ resident' = Installed
      BY <1>8 DEF InstallSave, Frame
    <2> QED
      BY <1>0, <2>1, FrameTypes, CallTypes, InstallTypes DEF Typing, TypeOK, Steps
  <1>9. CASE ObserveSave(s)
    <2>1. Frame /\ UNCHANGED <<resident, torn, faults>> /\ Continue(s, "read") /\ Accept(s)
          /\ sess' = [sess EXCEPT ![s] = Observed(s)]
      BY <1>9 DEF ObserveSave, Frame
    <2>2. client' \in [Sessions -> Client]
      BY <1>0, <2>1 DEF Accept, Client
    <2> QED
      BY <1>0, <2>1, <2>2, FrameTypes, CallTypes DEF Typing, TypeOK, Steps
  <1>10. CASE Read(s)
    <2> DEFINE asked == call[s].kind \in {"snapshot", "resume"}
               next == [sess[s] EXCEPT !.snap = Built(s),
                                       !.announced = IF asked THEN sess[s].rev ELSE @]
               told == [client[s] EXCEPT !.view = Built(s), !.bell = FALSE]
    <2>1. Frame /\ UNCHANGED <<resident, torn, faults>> /\ Finish(s)
      BY <1>10 DEF Read, Frame
    <2>2. next \in Session
      BY <1>0 DEF Session
    <2>3. told \in Client
      BY <1>0 DEF Client
    <2>4. sess' = [sess EXCEPT ![s] = next]
          /\ (client' = [client EXCEPT ![s] = told] \/ client' = client)
      BY <1>0, <1>10 DEF Read
    <2>5. sess' \in [Sessions -> Session] /\ client' \in [Sessions -> Client]
      BY <1>0, <2>2, <2>3, <2>4
    <2> QED
      BY <1>0, <2>1, <2>5, FrameTypes, CallTypes DEF Typing, TypeOK
  <1> QED
    BY <1>1, <1>2, <1>3, <1>4, <1>5, <1>6, <1>7, <1>8, <1>9, <1>10 DEF Answer

\* Every step keeps the types.
LEMMA NextTyping == Typing /\ [Next]_vars => Typing'
  <1> SUFFICES ASSUME Typing, [Next]_vars PROVE Typing'
    OBVIOUS
  <1>0. TypeOK /\ faults \in Nat /\ MaxFaults \in Nat /\ (faults < MaxFaults => faults + 1 \in 0..MaxFaults)
    BY EndpointAssumption DEF Typing, TypeOK
  <1>1. ASSUME NEW t \in Typed[Remote], NEW upTo \in Id \cup {0},
               RemotePut(t, upTo) \/ RemotePutEarly(t, upTo)
        PROVE  Typing'
    <2> DEFINE had == {x \in Known : x \notin Own \/ x <= upTo}
               v == RemoteVersion(t, had)
    <2>1. /\ store' = Append(store, v) /\ Len(store) < MaxVersions /\ faults' \in 0..MaxFaults
          /\ late' \in {late, late \cup {Len(store) + 1}}
          /\ UNCHANGED <<resident, sess, call, client, unsettled, torn>>
      BY <1>0, <1>1 DEF RemotePut, RemotePutEarly, TypeOK
    <2>2. v \in Version
      <3>1. t \in Texts /\ had \subseteq Id
        BY <1>0, StoreShape, EndpointAssumption
      <3> QED BY <3>1 DEF Version, RemoteVersion, Token
    <2>3. late' \subseteq Known' /\ unsettled' \subseteq Own'
      BY <1>0, <2>1, <2>2, GrowthTypes DEF TypeOK
    <2>4. HasText'
      BY <2>1 DEF Typing, HasText
    <2> QED
      BY <1>0, <2>1, <2>2, <2>3, <2>4, GrowthTypes DEF Typing, TypeOK
  <1>2. ASSUME NEW x \in Id, Arrive(x) PROVE Typing'
    <2>1. Frame /\ UNCHANGED <<resident, sess, call, client, torn, faults>>
      BY <1>2 DEF Arrive, Frame
    <2>2. HasText'
      BY <2>1 DEF Typing, HasText
    <2> QED
      BY <1>0, <2>1, <2>2, FrameTypes DEF Typing, TypeOK
  <1>3. ASSUME NEW s \in Sessions, BeginFails(s) PROVE Typing'
    <2>1. /\ Frame /\ UNCHANGED <<sess, call, client>> /\ resident' \in FailedInstalls
          /\ faults' \in 0..MaxFaults /\ torn' \in BOOLEAN
      BY <1>0, <1>3 DEF BeginFails, Frame, Typing, TypeOK
    <2>2. HasText'
      BY <2>1 DEF Typing, HasText
    <2> QED
      BY <1>0, <2>1, <2>2, FrameTypes, InstallTypes DEF Typing, TypeOK
  <1>4. ASSUME NEW s \in Sessions, InstallSaveFails(s) PROVE Typing'
    <2>1. /\ UNCHANGED <<store, late, sess, client>> /\ resident' \in FailedInstalls
          /\ faults' \in 0..MaxFaults /\ torn' \in BOOLEAN /\ Finish(s)
          /\ unsettled' = unsettled \cup {x \in Own : \A y \in Own : y <= x}
      BY <1>0, <1>4 DEF InstallSaveFails, Typing, TypeOK
    <2>2. Known' = Known /\ Own' = Own /\ unsettled' \subseteq Own
      BY <1>0, <2>1 DEF Known, Own, TypeOK
    <2>3. call' \in [Sessions -> Call] /\ HasText'
      BY <2>1, CallTypes
    <2> QED
      BY <1>0, <2>1, <2>2, <2>3, InstallTypes DEF Typing, TypeOK
  <1>5. CASE UNCHANGED vars
    BY <1>5 DEF vars, Typing, TypeOK, HasText, Known, Own
  <1> QED
    BY <1>1, <1>2, <1>3, <1>4, <1>5, AskTyping, AnswerTyping DEF Next, StoreStep

\* The state is well typed: what a client saves or a clip makes is a text.
THEOREM Types == Spec => []TypeOK
  <1>1. Typing => TypeOK
    BY DEF Typing
  <1> QED
    BY <1>1, InitTyping, NextTyping, PTL DEF Spec

-----------------------------------------------------------------------------
(* Revisions *)

\* What is so of one session's numbers: it never announced or gave out a
\* revision it has not reached, a client that resumes still shows what it
\* resumes from, and of the two properties its own part.
Told(s) ==
  /\ sess[s].announced <= sess[s].rev
  /\ sess[s].observed <= resident.rev
  /\ sess[s].observed # 0 => sess[s].rev # 0
  /\ call[s].step = "read" => sess[s].rev # 0
  /\ client[s].view.rev <= sess[s].rev /\ sess[s].snap.rev <= sess[s].rev
  /\ Mounted(s) => sess[s].snap.rev # 0
  /\ call[s].kind = "resume" => call[s].step \in {"observe", "read"} /\ call[s].ack = client[s].view.rev
  /\ (Mounted(s) /\ client[s].view.rev # sess[s].rev)
       => client[s].bell \/ sess[s].announced < sess[s].rev
  /\ \A v \in {client[s].view, sess[s].snap} :
       (v.rev = sess[s].rev /\ v.text # NoText /\ sess[s].observed = resident.rev)
         => v.text = resident.text

AllTold == Typing /\ resident.rev # 0 /\ \A s \in Sessions : Told(s)

\* The revision of the resident never goes back, and names its text.
Moves == resident'.rev >= resident.rev /\ (resident'.rev = resident.rev => resident'.text = resident.text)

\* The numbers of a session are numbers.
LEMMA Numbers ==
  ASSUME TypeOK, NEW s \in Sessions
  PROVE  /\ resident.rev \in Nat
         /\ sess[s].announced \in Nat /\ sess[s].observed \in Nat /\ sess[s].rev \in Nat
         /\ sess[s].snap.rev \in Nat /\ client[s].view.rev \in Nat /\ call[s].ack \in Nat
         /\ client[s].bell \in BOOLEAN
  BY DEF TypeOK, Resident, Session, Client, Call, View

\* Every install moves the revision forward when it changes the text.
LEMMA InstallMoves ==
  ASSUME TypeOK, resident' \in FailedInstalls \cup {Installed, resident}
  PROVE  Moves
  <1>1. resident.rev \in Nat
    BY DEF TypeOK, Resident
  <1>2. Installed.rev >= resident.rev /\ (Installed.rev = resident.rev => Installed.text = resident.text)
    BY <1>1 DEF Installed, Bumped
  <1>3. \A r \in HalfInstalled : r.rev = resident.rev /\ r.text = resident.text
    BY DEF HalfInstalled, TypeOK, Resident
  <1> QED
    BY <1>1, <1>2, <1>3 DEF FailedInstalls, Moves

\* A session that takes no part is as told as before.
LEMMA ToldElsewhere ==
  ASSUME AllTold, Typing', Moves, NEW z \in Sessions,
         sess'[z] = sess[z], call'[z] = call[z], client'[z] = client[z]
  PROVE  resident'.rev # 0 /\ Told(z)'
  <1>1. TypeOK /\ TypeOK'
    BY DEF AllTold, Typing
  <1>2. resident.rev \in Nat /\ resident'.rev \in Nat
    BY <1>1 DEF TypeOK, Resident
  <1> QED
    BY <1>1, <1>2, Numbers DEF AllTold, Told, Mounted, Moves

\* What a session has when it has observed the resident.
LEMMA ObservedFacts ==
  ASSUME AllTold, NEW s \in Sessions
  PROVE  LET now == Observed(s)
         IN /\ now.rev \in Nat /\ now.rev # 0 /\ now.observed = resident.rev
            /\ now.announced = sess[s].announced /\ now.snap = sess[s].snap
            /\ \/ now.rev = sess[s].rev /\ sess[s].observed = resident.rev
               \/ now.rev = sess[s].rev + 1
  <1>1. TypeOK /\ sess[s] \in Session
    BY DEF AllTold, Typing, TypeOK
  <1> QED
    BY <1>1, Numbers DEF Observed, Session, AllTold, Told

\* Observing the resident keeps a session told, if the client of an older view
\* is or will be told of the new revision.
LEMMA ToldObserving ==
  ASSUME AllTold, NEW s \in Sessions, NEW now, now = Observed(s),
         resident' = resident,
         sess'[s].observed = now.observed, sess'[s].rev = now.rev, sess'[s].snap = now.snap,
         sess'[s].announced \in {sess[s].announced, now.rev},
         client'[s].view = client[s].view,
         call'[s].kind = "resume"
           => call'[s].step \in {"observe", "read"} /\ call'[s].ack = client[s].view.rev,
         (Mounted(s) /\ client[s].view.rev # now.rev) => client'[s].bell \/ sess'[s].announced < now.rev
  PROVE  Told(s)'
  <1>1. TypeOK
    BY DEF AllTold, Typing
  <1>2. Told(s)
    BY DEF AllTold
  <1> QED
    BY <1>1, <1>2, Numbers, ObservedFacts DEF Told, Mounted

\* The numbers hold initially.
LEMMA InitTold == Init => AllTold
  <1> SUFFICES ASSUME Init PROVE AllTold
    OBVIOUS
  <1>1. \A s \in Sessions : Told(s)
    <2>1. Idle.kind = "poll" /\ Idle.step = "idle"
      BY DEF Idle, Request
    <2>2. ASSUME NEW s \in Sessions
          PROVE  /\ sess[s].announced = 0 /\ sess[s].observed = 0 /\ sess[s].rev = 0
                 /\ sess[s].snap = NoView /\ client[s].view = NoView /\ call[s] = Idle
      BY DEF Init
    <2> QED
      BY <2>1, <2>2 DEF Told, Mounted, NoView, Init
  <1> QED
    BY <1>1, InitTyping DEF AllTold, Init

\* Beginning a call keeps them.
LEMMA BeginTold ==
  ASSUME AllTold, Typing', NEW s \in Sessions, NEW request, request.step = "observe",
         request.kind = "resume" => request.ack = client[s].view.rev,
         Begin(s, request)
  PROVE  AllTold'
  <1> USE DEF Begin
  <1>1. TypeOK /\ Moves
    BY InstallMoves DEF AllTold, Typing
  <1>2. /\ UNCHANGED <<sess, client>>
        /\ \A z \in Sessions : call'[z] = IF z = s THEN request ELSE call[z]
    BY <1>1 DEF TypeOK
  <1>3. resident.rev \in Nat /\ resident'.rev \in Nat
    BY <1>1 DEF TypeOK, Resident, Typing
  <1>4. \A z \in Sessions : z # s => resident'.rev # 0 /\ Told(z)'
    BY <1>1, <1>2, ToldElsewhere
  <1>5. resident'.rev # 0 /\ Told(s)'
    BY <1>1, <1>2, <1>3, Numbers DEF AllTold, Told, Mounted, Moves
  <1> QED
    BY <1>4, <1>5 DEF AllTold

\* A step of one session that leaves the resident alone disturbs no other.
LEMMA ToldLocally ==
  ASSUME AllTold, Typing', Moves, NEW s \in Sessions,
         \A z \in Sessions : z # s => sess'[z] = sess[z] /\ call'[z] = call[z] /\ client'[z] = client[z],
         Told(s)', resident'.rev # 0
  PROVE  AllTold'
  <1>1. \A z \in Sessions : z # s => Told(z)'
    BY ToldElsewhere
  <1> QED
    BY <1>1 DEF AllTold

\* A step that neither answers nor shows anything new keeps what was told.
LEMMA ToldQuietly ==
  ASSUME AllTold, Typing', Moves, NEW s \in Sessions, sess' = sess,
         \A z \in Sessions : client'[z].view = client[z].view /\ client'[z].bell = client[z].bell,
         \A z \in Sessions : z # s => client'[z] = client[z] /\ call'[z] = call[z],
         call'[s] = call[s] \/ (call'[s].kind # "resume" /\ call'[s].step # "read")
  PROVE  AllTold'
  <1>1. TypeOK /\ TypeOK'
    BY DEF AllTold, Typing
  <1>2. resident.rev \in Nat /\ resident'.rev \in Nat
    BY <1>1 DEF TypeOK, Resident
  <1>3. resident'.rev # 0 /\ Told(s)'
    BY <1>1, <1>2, Numbers DEF AllTold, Told, Mounted, Moves
  <1> QED
    BY <1>3, ToldLocally

\* Every step of a client keeps the numbers.
LEMMA AskTold ==
  ASSUME AllTold, Typing', NEW s \in Sessions, Ask(s)
  PROVE  AllTold'
  <1>1. CASE Mount(s)
    BY <1>1, BeginTold DEF Mount, Request
  <1>2. CASE Poll(s)
    BY <1>2, BeginTold DEF Poll, Request
  <1>3. CASE Resume(s)
    BY <1>3, BeginTold DEF Resume, Request
  <1>4. ASSUME NEW t \in Typed[s], Save(s, t) PROVE AllTold'
    BY <1>4, BeginTold DEF Save, Request
  <1>5. CASE InsertClip(s)
    BY <1>5, BeginTold DEF InsertClip, Request
  <1>6. CASE Edit(s)
    <2>1. Moves /\ sess' = sess /\ call' = call
      BY <1>6, InstallMoves DEF Edit, AllTold, Typing
    <2>2. client' = [client EXCEPT ![s].draft = client[s].view.token]
      BY <1>6 DEF Edit
    <2>3. \A z \in Sessions : /\ client'[z].view = client[z].view /\ client'[z].bell = client[z].bell
                              /\ z # s => client'[z] = client[z]
      <3>1. client' = [client EXCEPT ![s] = [client[s] EXCEPT !.draft = client[s].view.token]]
        BY <2>2
      <3> QED BY <3>1 DEF AllTold, Typing, TypeOK, Client
    <2>4. call'[s] = call[s] /\ \A z \in Sessions : z # s => client'[z] = client[z] /\ call'[z] = call[z]
      BY <2>1, <2>3
    <2> QED
      BY <2>1, <2>3, <2>4, ToldQuietly
  <1> QED
    BY <1>1, <1>2, <1>3, <1>4, <1>5, <1>6 DEF Ask, Look

\* Only the answering session's entries change.
Locally(s) ==
  \A z \in Sessions : z # s => sess'[z] = sess[z] /\ call'[z] = call[z] /\ client'[z] = client[z]

\* How a call may go on, by its kind and step.
LEMMA CallGoesOn ==
  ASSUME TypeOK, NEW s \in Sessions
  PROVE  /\ Finish(s) => /\ \A z \in Sessions : z # s => call'[z] = call[z]
                         /\ call'[s].kind = "poll" /\ call'[s].step = "idle"
         /\ \A step \in Steps : Continue(s, step) =>
              /\ \A z \in Sessions : z # s => call'[z] = call[z]
              /\ call'[s].kind = call[s].kind /\ call'[s].step = step /\ call'[s].ack = call[s].ack
  <1>1. Idle.kind = "poll" /\ Idle.step = "idle"
    BY DEF Idle, Request
  <1>2. ASSUME NEW step \in Steps, Continue(s, step)
        PROVE  /\ \A z \in Sessions : z # s => call'[z] = call[z]
               /\ call'[s].kind = call[s].kind /\ call'[s].step = step /\ call'[s].ack = call[s].ack
    <2>1. call' = [call EXCEPT ![s] = [call[s] EXCEPT !.step = step]]
      BY <1>2 DEF Continue
    <2> QED
      BY <2>1 DEF TypeOK, Call
  <1>3. Finish(s) => /\ \A z \in Sessions : z # s => call'[z] = call[z]
                     /\ call'[s].kind = "poll" /\ call'[s].step = "idle"
    BY <1>1 DEF Finish, TypeOK
  <1> QED
    BY <1>2, <1>3

\* The steps of a call that observe the resident.
LEMMA ObservingTold ==
  ASSUME AllTold, Typing', NEW s \in Sessions,
         \/ AnswerSnapshot(s) \/ AnswerPoll(s) \/ AnswerResume(s) \/ ObserveSave(s)
         \/ \E kind \in {"save", "clip"}, step \in {"target", "compose"} : AnswerIntent(s, kind, step)
  PROVE  AllTold'
  <1>0. TypeOK /\ Told(s) /\ resident.rev # 0
    BY DEF AllTold, Typing
  <1> DEFINE now == Observed(s)
  <1>1. /\ now.rev \in Nat /\ now.rev # 0 /\ now.observed = resident.rev
        /\ now.announced = sess[s].announced /\ now.snap = sess[s].snap
        /\ \/ now.rev = sess[s].rev /\ sess[s].observed = resident.rev
           \/ now.rev = sess[s].rev + 1
    BY ObservedFacts
  <1>2. now \in Session /\ sess \in [Sessions -> Session] /\ client \in [Sessions -> Client]
    BY <1>0, AnswerTypes DEF TypeOK
  <1>3. /\ sess[s].announced <= sess[s].rev /\ sess[s].announced \in Nat /\ sess[s].rev \in Nat
        /\ client[s].bell \in BOOLEAN /\ (Mounted(s) => sess[s].snap.rev # 0)
        /\ (Mounted(s) /\ client[s].view.rev # sess[s].rev) => client[s].bell \/ sess[s].announced < sess[s].rev
    BY <1>0, Numbers DEF Told
  <1>4. (Mounted(s) /\ client[s].view.rev # now.rev) => client[s].bell \/ sess[s].announced < now.rev
    BY <1>1, <1>3
  <1>5. CASE resident' = resident /\ Locally(s) /\ Told(s)'
    <2>1. Moves
      BY <1>0, <1>5, InstallMoves
    <2> QED
      BY <1>0, <1>5, <2>1, ToldLocally DEF Locally
  <1>6. CASE AnswerSnapshot(s)
    <2>1. resident' = resident /\ client' = client /\ sess' = [sess EXCEPT ![s] = now]
          /\ Continue(s, "read") /\ call[s].kind = "snapshot"
      BY <1>6 DEF AnswerSnapshot, At
    <2>2. Locally(s) /\ sess'[s] = now /\ call'[s].kind = "snapshot"
      BY <1>0, <1>2, <2>1, CallGoesOn DEF Locally, Steps
    <2>3. Told(s)'
      BY <1>1, <1>4, <2>1, <2>2, ToldObserving
    <2> QED BY <1>5, <2>1, <2>2, <2>3
  <1>7. CASE AnswerPoll(s)
    <2> DEFINE rings == now.snap.rev # 0 /\ now.rev > now.announced
               next == [now EXCEPT !.announced = IF rings THEN now.rev ELSE @]
               told == [client[s] EXCEPT !.bell = @ \/ rings]
    <2>1. resident' = resident /\ client' = [client EXCEPT ![s] = told]
          /\ sess' = [sess EXCEPT ![s] = next] /\ Finish(s)
      BY <1>2, <1>7 DEF AnswerPoll
    <2>2. Locally(s) /\ sess'[s] = next /\ client'[s] = told /\ call'[s].kind = "poll"
      <3> HIDE DEF now, next, told
      <3>1. call'[s].kind = "poll" /\ \A z \in Sessions : z # s => call'[z] = call[z]
        BY <1>0, <2>1, CallGoesOn
      <3>2. /\ sess'[s] = next /\ client'[s] = told
            /\ \A z \in Sessions : z # s => sess'[z] = sess[z] /\ client'[z] = client[z]
        BY <1>2, <2>1
      <3> QED BY <3>1, <3>2 DEF Locally
    <2>3. /\ next.observed = now.observed /\ next.rev = now.rev /\ next.snap = now.snap
          /\ next.announced = IF rings THEN now.rev ELSE sess[s].announced
      BY <1>1, <1>2 DEF Session
    <2>4. told.view = client[s].view /\ told.bell = (client[s].bell \/ rings)
      BY <1>2 DEF Client
    <2>5. (Mounted(s) /\ client[s].view.rev # now.rev) => told.bell \/ next.announced < now.rev
      BY <1>1, <1>3, <1>4, <2>3, <2>4
    <2>6. Told(s)'
      <3>1. /\ sess'[s].observed = now.observed /\ sess'[s].rev = now.rev /\ sess'[s].snap = now.snap
            /\ sess'[s].announced \in {sess[s].announced, now.rev}
            /\ client'[s].view = client[s].view /\ call'[s].kind = "poll"
        BY <2>2, <2>3, <2>4
      <3>2. (Mounted(s) /\ client[s].view.rev # now.rev)
              => client'[s].bell \/ sess'[s].announced < now.rev
        BY <2>2, <2>5
      <3> HIDE DEF next, told, rings
      <3> QED BY <2>1, <3>1, <3>2, ToldObserving
    <2> QED BY <1>5, <2>1, <2>2, <2>6
  <1>8. CASE AnswerResume(s)
    <2> DEFINE current == call[s].ack = now.rev
               next == [now EXCEPT !.announced = IF current THEN now.rev ELSE @]
               told == [client[s] EXCEPT !.bell = @ /\ ~current]
    <2>1. /\ resident' = resident /\ client' = [client EXCEPT ![s] = told]
          /\ sess' = [sess EXCEPT ![s] = next]
          /\ (IF current THEN Finish(s) ELSE Continue(s, "read"))
          /\ call[s].ack = client[s].view.rev
      BY <1>0, <1>2, <1>8 DEF AnswerResume, At, Told
    <2>2. /\ Locally(s) /\ sess'[s] = next /\ client'[s] = told
          /\ call'[s].kind = "poll" \/ (call'[s].step = "read" /\ call'[s].ack = client[s].view.rev)
      <3> HIDE DEF now, next, told, current
      <3>1. /\ \A z \in Sessions : z # s => call'[z] = call[z]
            /\ call'[s].kind = "poll" \/ (call'[s].step = "read" /\ call'[s].ack = client[s].view.rev)
        BY <1>0, <2>1, CallGoesOn DEF Steps
      <3>2. /\ sess'[s] = next /\ client'[s] = told
            /\ \A z \in Sessions : z # s => sess'[z] = sess[z] /\ client'[z] = client[z]
        BY <1>2, <2>1
      <3> QED BY <3>1, <3>2 DEF Locally
    <2>3. /\ next.observed = now.observed /\ next.rev = now.rev /\ next.snap = now.snap
          /\ next.announced = IF current THEN now.rev ELSE sess[s].announced
      BY <1>1, <1>2 DEF Session
    <2>4. told.view = client[s].view /\ told.bell = (client[s].bell /\ ~current)
      BY <1>2 DEF Client
    <2>5. (Mounted(s) /\ client[s].view.rev # now.rev) => told.bell \/ next.announced < now.rev
      BY <1>3, <1>4, <2>1, <2>3, <2>4
    <2>6. Told(s)'
      <3>1. next.announced \in {sess[s].announced, now.rev}
        BY <2>3
      <3>2. call'[s].kind = "resume"
              => call'[s].step \in {"observe", "read"} /\ call'[s].ack = client[s].view.rev
        BY <2>2
      <3> HIDE DEF next, told, current
      <3> QED BY <2>1, <2>2, <2>3, <2>4, <2>5, <3>1, <3>2, ToldObserving
    <2> QED BY <1>5, <2>1, <2>2, <2>6
  <1>9. CASE ObserveSave(s)
    <2>1. /\ resident' = resident /\ Accept(s) /\ sess' = [sess EXCEPT ![s] = now]
          /\ Continue(s, "read") /\ call[s].step = "saved"
      BY <1>9 DEF ObserveSave
    <2>2. /\ \A z \in Sessions : z # s => client'[z] = client[z]
          /\ client'[s].view = client[s].view /\ client'[s].bell = client[s].bell
      BY <1>2, <2>1 DEF Accept, Client
    <2>3. Locally(s) /\ sess'[s] = now /\ call'[s].kind = call[s].kind
      BY <1>0, <1>2, <2>1, <2>2, CallGoesOn DEF Locally, Steps
    <2>4. call[s].kind # "resume"
      BY <1>0, <2>1 DEF Told
    <2>5. Told(s)'
      BY <1>1, <1>4, <2>1, <2>2, <2>3, <2>4, ToldObserving
    <2> QED BY <1>5, <2>1, <2>3, <2>5
  <1>10. ASSUME NEW kind \in {"save", "clip"}, NEW step \in {"target", "compose"},
                AnswerIntent(s, kind, step)
         PROVE  AllTold'
    <2>1. /\ resident' = resident /\ client' = client /\ sess' = [sess EXCEPT ![s] = now]
          /\ Finish(s) \/ Continue(s, "read") \/ Continue(s, step)
          /\ call[s].kind = kind
      BY <1>10 DEF AnswerIntent, At
    <2>2. Locally(s) /\ sess'[s] = now /\ call'[s].kind # "resume"
      <3> HIDE DEF now
      <3>1. call'[s].kind # "resume" /\ \A z \in Sessions : z # s => call'[z] = call[z]
        <4>1. step \in Steps /\ "read" \in Steps /\ kind # "resume"
          BY DEF Steps
        <4> QED BY <1>0, <2>1, <4>1, CallGoesOn
      <3>2. sess'[s] = now /\ client' = client /\ \A z \in Sessions : z # s => sess'[z] = sess[z]
        BY <1>2, <2>1
      <3> QED BY <3>1, <3>2 DEF Locally
    <2>3. Told(s)'
      BY <1>1, <1>4, <2>1, <2>2, ToldObserving
    <2> QED BY <1>5, <2>1, <2>2, <2>3
  <1> QED
    BY <1>6, <1>7, <1>8, <1>9, <1>10

\* A new view is of the session's revision and says what the resident says.
LEMMA ReadTold ==
  ASSUME AllTold, Typing', NEW s \in Sessions, Read(s)
  PROVE  AllTold'
  <1> DEFINE asked == call[s].kind \in {"snapshot", "resume"}
             next == [sess[s] EXCEPT !.snap = Built(s),
                                     !.announced = IF asked THEN sess[s].rev ELSE @]
             told == [client[s] EXCEPT !.view = Built(s), !.bell = FALSE]
  <1>0. TypeOK /\ Told(s) /\ resident.rev # 0 /\ sess[s] \in Session /\ client[s] \in Client
    BY DEF AllTold, Typing, TypeOK
  <1>1. /\ resident' = resident /\ sess' = [sess EXCEPT ![s] = next] /\ Finish(s)
        /\ client' = (IF asked THEN [client EXCEPT ![s] = told] ELSE client)
        /\ call[s].step = "read"
    BY <1>0 DEF Read, TypeOK
  <1>2. /\ next.observed = sess[s].observed /\ next.rev = sess[s].rev /\ next.snap = Built(s)
        /\ next.announced = IF asked THEN sess[s].rev ELSE sess[s].announced
    BY <1>0 DEF Session
  <1>3. told.view = Built(s) /\ told.bell = FALSE
    BY <1>0 DEF Client
  <1>4. Built(s).rev = sess[s].rev /\ (Built(s).text # NoText => Built(s).text = resident.text)
    BY DEF Built
  <1>5. sess[s].rev # 0
    BY <1>0, <1>1 DEF Told
  <1>6. /\ sess'[s] = next /\ client'[s] = IF asked THEN told ELSE client[s]
        /\ \A z \in Sessions : z # s => sess'[z] = sess[z] /\ client'[z] = client[z]
    <2> HIDE DEF next, told, asked
    <2> QED BY <1>0, <1>1 DEF TypeOK
  <1>7. call'[s].kind = "poll" /\ call'[s].step = "idle" /\ \A z \in Sessions : z # s => call'[z] = call[z]
    BY <1>0, <1>1, CallGoesOn
  <1>8. ASSUME asked PROVE Told(s)'
    <2>1. sess'[s].snap = Built(s) /\ client'[s].view = Built(s) /\ sess'[s].rev = sess[s].rev
          /\ sess'[s].announced = sess[s].rev /\ sess'[s].observed = sess[s].observed
      BY <1>2, <1>3, <1>6, <1>8
    <2>2. \A v \in {client'[s].view, sess'[s].snap} :
            v.rev = sess'[s].rev /\ (v.text # NoText => v.text = resident'.text)
      BY <1>1, <1>4, <2>1
    <2>3. /\ sess[s].announced \in Nat /\ sess[s].rev \in Nat /\ sess[s].observed <= resident.rev
      BY <1>0, Numbers DEF Told
    <2> QED
      BY <1>1, <1>5, <1>7, <2>1, <2>2, <2>3 DEF Told, Mounted
  <1>9. ASSUME ~asked PROVE Told(s)'
    <2>1. sess'[s].snap = Built(s) /\ client'[s] = client[s] /\ sess'[s].rev = sess[s].rev
          /\ sess'[s].announced = sess[s].announced /\ sess'[s].observed = sess[s].observed
      BY <1>2, <1>6, <1>9
    <2>2. sess'[s].snap.rev = sess'[s].rev /\ (sess'[s].snap.text # NoText => sess'[s].snap.text = resident'.text)
      BY <1>1, <1>4, <2>1
    <2>3. \A v \in {client[s].view, sess[s].snap} :
            (v.rev = sess[s].rev /\ v.text # NoText /\ sess[s].observed = resident.rev)
              => v.text = resident.text
      BY <1>0 DEF Told
    <2>4. \A v \in {client'[s].view, sess'[s].snap} :
            (v.rev = sess'[s].rev /\ v.text # NoText /\ sess'[s].observed = resident'.rev)
              => v.text = resident'.text
      BY <1>1, <2>1, <2>2, <2>3
    <2>5. /\ sess[s].rev \in Nat /\ sess[s].announced <= sess[s].rev /\ sess[s].observed <= resident.rev
          /\ client[s].view.rev <= sess[s].rev
          /\ (Mounted(s) /\ client[s].view.rev # sess[s].rev)
               => client[s].bell \/ sess[s].announced < sess[s].rev
      BY <1>0, Numbers DEF Told
    <2> QED
      BY <1>1, <1>5, <1>7, <2>1, <2>2, <2>4, <2>5 DEF Told, Mounted
  <1>10. Told(s)' /\ Moves
    <2>1. Told(s)'
      BY <1>8, <1>9
    <2>2. Moves
      BY <1>0, <1>1, InstallMoves
    <2> QED BY <2>1, <2>2
  <1> QED
    BY <1>0, <1>1, <1>6, <1>7, <1>10, ToldLocally

\* Every step of a call keeps the numbers.
LEMMA AnswerTold ==
  ASSUME AllTold, Typing', NEW s \in Sessions, Answer(s)
  PROVE  AllTold'
  <1>0. TypeOK /\ Told(s)
    BY DEF AllTold, Typing
  <1>1. ASSUME Moves, UNCHANGED <<sess, client>>, call[s].step \notin {"observe", "read"},
               \/ Finish(s)
               \/ \E step \in {"author", "install", "saved"} : Continue(s, step)
        PROVE  AllTold'
    <2>1. {"author", "install", "saved"} \subseteq Steps
      BY DEF Steps
    <2>2. call[s].kind # "resume"
      BY <1>0, <1>1 DEF Told
    <2>3. /\ call'[s].kind # "resume" /\ call'[s].step # "read"
          /\ \A z \in Sessions : z # s => call'[z] = call[z]
      BY <1>0, <1>1, <2>1, <2>2, CallGoesOn
    <2> QED
      BY <1>1, <2>3, ToldQuietly
  <1>2. CASE Compose(s)
    <2>1. Moves /\ UNCHANGED <<sess, client>> /\ call[s].step = "compose" /\ call[s].kind = "clip"
      BY <1>0, <1>2, InstallMoves DEF Compose, At
    <2>2. CASE Finish(s)
      BY <1>1, <2>1, <2>2
    <2>3. CASE call' = [call EXCEPT ![s].step = "target", ![s].text = Clip[resident.text]]
      <3> DEFINE c == [call[s] EXCEPT !.step = "target", !.text = Clip[resident.text]]
      <3>1. call' = [call EXCEPT ![s] = c]
        BY <1>0, <2>3 DEF TypeOK
      <3>2. c.step = "target" /\ c.kind = "clip"
        BY <1>0, <2>1 DEF TypeOK, Call
      <3>3. call'[s] = c /\ \A z \in Sessions : z # s => call'[z] = call[z]
        BY <1>0, <3>1 DEF TypeOK
      <3> QED
        BY <2>1, <3>2, <3>3, ToldQuietly
    <2> QED
      BY <1>2, <2>2, <2>3 DEF Compose
  <1>3. CASE Target(s)
    <2>1. /\ Moves /\ sess' = sess /\ call[s].step = "target" /\ (Finish(s) \/ Continue(s, "author"))
          /\ Accept(s) \/ client' = client
      BY <1>0, <1>3, InstallMoves DEF Target
    <2>2. \A z \in Sessions : /\ client'[z].view = client[z].view /\ client'[z].bell = client[z].bell
                              /\ z # s => client'[z] = client[z]
      BY <1>0, <2>1 DEF Accept, TypeOK, Client
    <2>3. call[s].kind # "resume" /\ "author" \in Steps
      BY <1>0, <2>1 DEF Told, Steps
    <2>4. /\ call'[s].kind # "resume" /\ call'[s].step # "read"
          /\ \A z \in Sessions : z # s => call'[z] = call[z]
      BY <1>0, <2>1, <2>3, CallGoesOn
    <2> QED
      BY <2>1, <2>2, <2>4, ToldQuietly
  <1>4. CASE AuthorSave(s)
    <2>1. Moves /\ UNCHANGED <<sess, client>> /\ call[s].step = "author"
          /\ (Finish(s) \/ Continue(s, "install"))
      BY <1>0, <1>4, InstallMoves DEF AuthorSave
    <2> QED
      BY <1>1, <2>1
  <1>5. CASE InstallSave(s)
    <2>1. Moves /\ UNCHANGED <<sess, client>> /\ call[s].step = "install" /\ Continue(s, "saved")
      BY <1>0, <1>5, InstallMoves DEF InstallSave
    <2> QED
      BY <1>1, <2>1
  <1> QED
    BY <1>2, <1>3, <1>4, <1>5, ReadTold, ObservingTold DEF Answer

\* Every step keeps the numbers.
LEMMA NextTold == AllTold /\ [Next]_vars => AllTold'
  <1> SUFFICES ASSUME AllTold, [Next]_vars PROVE AllTold'
    OBVIOUS
  <1>0. TypeOK /\ Typing'
    BY NextTyping DEF AllTold, Typing
  <1>1. ASSUME Moves, UNCHANGED <<sess, call, client>> PROVE AllTold'
    <2>1. ASSUME NEW z \in Sessions PROVE resident'.rev # 0 /\ Told(z)'
      BY <1>0, <1>1, <2>1, ToldElsewhere
    <2>2. resident'.rev # 0
      BY <1>0, <1>1 DEF AllTold, Moves, TypeOK, Typing, Resident
    <2> QED
      BY <1>0, <2>1, <2>2 DEF AllTold
  <1>2. ASSUME NEW t, NEW upTo, RemotePut(t, upTo) \/ RemotePutEarly(t, upTo) PROVE AllTold'
    BY <1>0, <1>1, <1>2, InstallMoves DEF RemotePut, RemotePutEarly
  <1>3. ASSUME NEW x, Arrive(x) PROVE AllTold'
    BY <1>0, <1>1, <1>3, InstallMoves DEF Arrive
  <1>4. ASSUME NEW s \in Sessions, BeginFails(s) PROVE AllTold'
    BY <1>0, <1>1, <1>4, InstallMoves DEF BeginFails
  <1>5. ASSUME NEW s \in Sessions, InstallSaveFails(s) PROVE AllTold'
    <2>1. Moves /\ UNCHANGED <<sess, client>> /\ Finish(s)
      BY <1>0, <1>5, InstallMoves DEF InstallSaveFails
    <2>2. call'[s].kind = "poll" /\ call'[s].step = "idle" /\ \A z \in Sessions : z # s => call'[z] = call[z]
      BY <1>0, <2>1, CallGoesOn
    <2> QED
      BY <1>0, <2>1, <2>2, ToldQuietly
  <1>6. CASE UNCHANGED vars
    BY <1>0, <1>1, <1>6, InstallMoves DEF vars
  <1> QED
    BY <1>0, <1>2, <1>3, <1>4, <1>5, <1>6, AskTold, AnswerTold DEF Next, StoreStep

\* A client whose view is old has been told of it or will be: the calls that
\* observe a revision on their way, and build snapshots nobody asked for, leave
\* its announcement to be made.
THEOREM ChangesAreAnnounced == Spec => []ChangeIsAnnounced
  <1>1. AllTold => ChangeIsAnnounced
    BY DEF AllTold, Told, ChangeIsAnnounced
  <1> QED
    BY <1>1, InitTold, NextTold, PTL DEF Spec

\* A revision stands for one text: two disclosures under the revision of a
\* session that is up to date say the same.
THEOREM RevisionsNameTexts == Spec => []RevisionNamesText
  <1>1. AllTold => RevisionNamesText
    BY DEF AllTold, Told, RevisionNamesText
  <1> QED
    BY <1>1, InitTold, NextTold, PTL DEF Spec

-----------------------------------------------------------------------------
(* What a save replaces *)

\* A version comes after everything in its past, and its past is whole.
Causal ==
  \A x \in Known : /\ store[x].past \subseteq Known /\ x \notin store[x].past
                   /\ store[x].base \subseteq Known /\ store[x].unseen \subseteq Known
                   /\ \A y \in store[x].past : store[y].past \subseteq store[x].past

\* Known or not yet: what the resident has seen, it knows.
SeenIsKnown == resident.head \subseteq resident.seen /\ resident.seen \subseteq Known

\* The token of the resident stands for everything it has seen.
SeenIsBehind == resident.head # {} => resident.seen \subseteq Behind(resident.head)

\* Nothing is missing from the history of a settled save.
SettledIsWhole == \A x \in Own \ unsettled : ({x} \cup store[x].past) \cap late = {}

\* The only settled save the resident may not have seen is the last one, while
\* its session holds the lock to install it.
SettledIsSeen ==
  \A x \in Own \ (unsettled \cup resident.seen) : ~Unlocked /\ \A y \in Own : y <= x

Order ==
  Typing /\ Causal /\ SeenIsKnown /\ SeenIsBehind /\ SettledIsWhole /\ SettledIsSeen

\* Every version of whole history is a head or in the past of one.
LEMMA HeadsCover ==
  ASSUME TypeOK, Causal
  PROVE  Closed \subseteq Behind(Heads)
  <1> DEFINE After(z) == {w \in Closed : z \in store[w].past}
  <1>1. Closed \subseteq Known /\ IsFiniteSet(Closed)
    BY StoreShape, FS_Subset DEF Closed
  <1>2. IsWellFoundedOn(StrictSubsetOrdering(Closed), FiniteSubsetsOf(Closed))
    BY <1>1, FS_StrictSubsetOrderingWellFounded
  <1>3. ASSUME NEW x \in Closed PROVE x \in Behind(Heads)
    <2> DEFINE from == {z \in Closed : z = x \/ x \in store[z].past}
               T == {After(z) : z \in from}
    <2>1. T \subseteq FiniteSubsetsOf(Closed)
      <3>1. \A z \in from : After(z) \subseteq Closed /\ IsFiniteSet(After(z))
        BY <1>1, FS_Subset
      <3> QED BY <3>1 DEF FiniteSubsetsOf
    <2>2. T # {}
      BY <1>3
    <2> HIDE DEF T
    <2>3. PICK t \in T : \A u \in T : ~(<<u, t>> \in StrictSubsetOrdering(Closed))
      BY <1>2, <2>1, <2>2, WFMin
    <2>4. PICK z \in from : t = After(z)
      BY DEF T
    <2>5. ASSUME NEW w \in After(z) PROVE FALSE
      <3>1. w \in Closed /\ z \in store[w].past /\ w \in Known
        BY <1>1, <2>5
      <3>2. w \in from
        BY <3>1, <2>4 DEF Causal
      <3>3. After(w) \subseteq After(z)
        BY <1>1, <3>1 DEF Causal
      <3>4. w \notin After(w)
        BY <3>1 DEF Causal
      <3>5. After(w) \in SUBSET Closed /\ After(z) \in SUBSET Closed /\ After(w) # After(z)
        BY <2>5, <3>4
      <3>6. <<After(w), After(z)>> \in StrictSubsetOrdering(Closed)
        BY <3>3, <3>5 DEF StrictSubsetOrdering
      <3>7. After(w) \in T
        BY <3>2 DEF T
      <3> QED
        BY <2>3, <2>4, <3>6, <3>7
    <2>6. z \in Heads
      BY <2>5 DEF Heads, HeadsOf
    <2> QED
      BY <2>4, <2>6 DEF Behind
  <1> QED
    BY <1>3

\* Once installed, the resident has seen all there is to see.
LEMMA InstallSees ==
  ASSUME TypeOK, Causal, NEW r \in {Installed} \cup HalfInstalled
  PROVE  /\ r.seen = Closed /\ r.head \subseteq r.seen
         /\ r.head # {} => r.head = Heads /\ r.seen \subseteq Behind(r.head)
  <1>1. Heads \subseteq Closed /\ Closed \subseteq Behind(Heads)
    BY HeadsCover DEF Heads, HeadsOf
  <1>2. /\ Projection.seen = Closed /\ Projection.head \in {{}, Heads}
    BY DEF Projection
  <1>3. r.seen = Projection.seen /\ r.head = Projection.head
    <2>1. Installed.seen = Projection.seen /\ Installed.head = Projection.head
      BY DEF Installed
    <2>2. \A h \in HalfInstalled : h.seen = Projection.seen /\ h.head = Projection.head
      BY DEF HalfInstalled, TypeOK, Resident
    <2> QED BY <2>1, <2>2
  <1> QED
    BY <1>1, <1>2, <1>3

\* What is behind a token stays what it is.
LEMMA BehindStays ==
  ASSUME NEW h, h \subseteq Known, \A x \in Known : store'[x] = store[x]
  PROVE  Behind(h)' = Behind(h)
  <1>1. {store'[x].past : x \in h} = {store[x].past : x \in h}
    OBVIOUS
  <1> QED
    BY <1>1 DEF Behind

\* What is said of versions, for a store that grew.
LEMMA CausalGrows ==
  ASSUME TypeOK, Causal, NEW v \in Version, Len(store) < MaxVersions, store' = Append(store, v),
         v.past \subseteq Known, v.base \subseteq Known, v.unseen \subseteq Known,
         \A y \in v.past : store[y].past \subseteq v.past
  PROVE  Causal'
  <1>1. /\ Known' = Known \cup {Len(store) + 1} /\ Len(store) + 1 \notin Known
        /\ store'[Len(store) + 1] = v /\ \A x \in Known : store'[x] = store[x]
    BY StoreGrows
  <1>2. ASSUME NEW x \in Known
        PROVE  /\ store'[x].past \subseteq Known' /\ x \notin store'[x].past
               /\ store'[x].base \subseteq Known' /\ store'[x].unseen \subseteq Known'
               /\ \A y \in store'[x].past : store'[y].past \subseteq store'[x].past
    <2>1. store[x].past \subseteq Known
      BY DEF Causal
    <2>2. \A y \in store[x].past : store'[y].past \subseteq store[x].past
      BY <1>1, <2>1 DEF Causal
    <2> QED BY <1>1, <2>1, <2>2 DEF Causal
  <1>3. \A y \in v.past : store'[y].past \subseteq v.past
    BY <1>1
  <1> QED
    BY <1>1, <1>2, <1>3 DEF Causal

\* A step that installs nothing and adds nothing keeps the order.
LEMMA OrderStill ==
  ASSUME Order, Typing', Frame, resident' = resident, Unlocked' => Unlocked
  PROVE  Order'
  <1>1. store' = store /\ Known' = Known /\ Own' = Own
    BY FrameTypes DEF Order, Typing, Frame
  <1>2. Causal' /\ SeenIsKnown' /\ SeenIsBehind' /\ SettledIsWhole'
    BY <1>1 DEF Order, Frame, Causal, SeenIsKnown, SeenIsBehind, SettledIsWhole, Behind
  <1>3. SettledIsSeen'
    BY <1>1 DEF Order, Frame, SettledIsSeen
  <1> QED
    BY <1>2, <1>3 DEF Order

\* An install keeps the order: no settled save is left unseen.
LEMMA OrderInstalled ==
  ASSUME Order, Typing', UNCHANGED <<store, late>>, unsettled \subseteq unsettled',
         resident' \in {Installed} \cup HalfInstalled
  PROVE  Order'
  <1>1. store' = store /\ Known' = Known /\ Own' = Own /\ Closed \subseteq Known
    BY DEF Known, Own, Closed
  <1>2. /\ resident'.seen = Closed /\ resident'.head \subseteq resident'.seen
        /\ resident'.head # {} => resident'.seen \subseteq Behind(resident'.head)
    BY InstallSees DEF Order, Typing
  <1>3. Causal' /\ SeenIsKnown' /\ SeenIsBehind' /\ SettledIsWhole'
    BY <1>1, <1>2 DEF Order, Causal, SeenIsKnown, SeenIsBehind, SettledIsWhole, Behind
  <1>4. \A x \in Own \ unsettled : x \in Closed
    BY DEF Order, SettledIsWhole, Closed, Own
  <1>5. SettledIsSeen'
    BY <1>1, <1>2, <1>4 DEF SettledIsSeen
  <1> QED
    BY <1>3, <1>5 DEF Order

\* Whatever is accepted from the remote writer keeps the order.
LEMMA OrderRemote ==
  ASSUME Order, Typing', NEW t, NEW upTo, RemotePut(t, upTo) \/ RemotePutEarly(t, upTo),
         t \in Typed[Remote]
  PROVE  Order'
  <1> DEFINE had == {x \in Known : x \notin Own \/ x <= upTo}
             v == RemoteVersion(t, had)
             n == Len(store) + 1
  <1>0. TypeOK /\ Causal
    BY DEF Order, Typing
  <1>1. /\ store' = Append(store, v) /\ Len(store) < MaxVersions
        /\ late' \in {late, late \cup {n}} /\ \A x \in had : store[x].past \subseteq had
        /\ UNCHANGED <<resident, call, unsettled>>
    BY DEF RemotePut, RemotePutEarly
  <1>2. v \in Version /\ v.past = had /\ v.by = Remote
    <2>1. t \in Texts /\ had \subseteq Id
      BY <1>0, StoreShape, EndpointAssumption
    <2> QED BY <2>1 DEF Version, RemoteVersion, Token
  <1>a. v.base = {} /\ v.unseen = {}
    BY DEF RemoteVersion
  <1> HIDE DEF v
  <1>3. /\ Known' = Known \cup {n} /\ n \notin Known /\ store'[n] = v
        /\ \A x \in Known : store'[x] = store[x]
    BY <1>0, <1>1, <1>2, StoreGrows
  <1>4. Causal'
    BY <1>0, <1>1, <1>2, <1>a, CausalGrows
  <1>5. Own' = Own
    BY <1>2, <1>3 DEF Own
  <1>6. SeenIsKnown' /\ SeenIsBehind'
    <2>1. PICK h : h = resident.head
      OBVIOUS
    <2>2. h \subseteq Known
      BY <2>1 DEF Order, SeenIsKnown
    <2>3. Behind(h)' = Behind(h)
      BY <1>3, <2>2, BehindStays
    <2>4. Behind(resident.head)' = Behind(resident.head)
      BY <1>1, <2>1, <2>3 DEF Behind
    <2> QED BY <1>1, <1>3, <2>4 DEF Order, SeenIsKnown, SeenIsBehind
  <1>7. SettledIsWhole'
    <2>1. ASSUME NEW x \in Own \ unsettled
          PROVE  ({x} \cup store'[x].past) \cap late' = {}
      <3>1. x \in Known /\ store'[x] = store[x] /\ store[x].past \subseteq Known
        BY <1>0, <1>3 DEF Own, Causal
      <3>2. ({x} \cup store[x].past) \cap late = {}
        BY DEF Order, SettledIsWhole
      <3> QED BY <1>1, <1>3, <3>1, <3>2
    <2> QED BY <1>1, <1>5, <2>1 DEF SettledIsWhole
  <1>8. SettledIsSeen'
    BY <1>1, <1>5 DEF Order, SettledIsSeen, Unlocked
  <1> QED
    BY <1>4, <1>6, <1>7, <1>8 DEF Order

\* The order, and what it says of the saves that were made.
Replaced == Order /\ SaveReplacesItsBase

\* What was said of the versions in the store stays true as it grows.
LEMMA ReplacedStays ==
  ASSUME Replaced, \A x \in Known : store'[x] = store[x], unsettled \subseteq unsettled',
         \A x \in Known : x \in Own' => x \in Own
  PROVE  \A x \in Known : store'[x].by \in Sessions =>
           /\ store'[x].past \subseteq Behind(store[x].base)' \cup store'[x].unseen
           /\ store'[x].unseen \cap Own' \subseteq unsettled'
  <1> SUFFICES ASSUME NEW x \in Known, store'[x].by \in Sessions
               PROVE  /\ store'[x].past \subseteq Behind(store[x].base)' \cup store'[x].unseen
                      /\ store'[x].unseen \cap Own' \subseteq unsettled'
    OBVIOUS
  <1>1. PICK h : h = store[x].base
    OBVIOUS
  <1>2. h \subseteq Known /\ store[x].unseen \subseteq Known
    BY <1>1 DEF Replaced, Order, Causal
  <1>3. Behind(h)' = Behind(h)
    BY <1>2, BehindStays
  <1>4. store[x].past \subseteq Behind(h) \cup store[x].unseen /\ store[x].unseen \cap Own \subseteq unsettled
    BY <1>1 DEF Replaced, SaveReplacesItsBase
  <1>5. Behind(store[x].base)' = Behind(h)
    BY <1>1, <1>3 DEF Behind
  <1> QED
    BY <1>1, <1>2, <1>4, <1>5

\* A save keeps the order, and replaces only its base and what is unseen.
LEMMA ReplacedAuthor ==
  ASSUME Replaced, Typing', NEW s \in Sessions, AuthorSave(s)
  PROVE  Replaced'
  <1> DEFINE v == [by |-> s, text |-> call[s].text, past |-> Known, base |-> call[s].token,
                   unseen |-> Known \ resident.seen, clipped |-> call[s].kind = "clip"]
  <1>n. PICK n : n = Len(store) + 1
    OBVIOUS
  <1>0. TypeOK /\ Order /\ Causal /\ Unlocked /\ UNCHANGED <<late, resident>>
    BY DEF Replaced, Order, Typing, AuthorSave
  <1>1. CASE UNCHANGED <<store, unsettled>>
    <2>1. Frame /\ resident' = resident
      BY <1>0, <1>1 DEF Frame
    <2>2. Order'
      BY <1>0, <2>1, OrderStill
    <2>3. SaveReplacesItsBase'
      BY <1>1 DEF Replaced, SaveReplacesItsBase, Known, Own, Behind
    <2> QED BY <2>2, <2>3 DEF Replaced
  <1>2. CASE /\ Fits(s) /\ Len(store) < MaxVersions /\ store' = Append(store, v)
             /\ unsettled' = unsettled \cup (IF late = {} THEN {} ELSE {n})
             /\ Continue(s, "install")
    <2>1. v \in Version
      <3>1. call[s].text \in Texts /\ call[s].token \in Token
        BY DEF AuthorSave, Replaced, Order, Typing, TypeOK, HasText, Call
      <3> QED BY <1>0, <3>1, StoreShape DEF Version, Token
    <2>2. /\ v.by = s /\ v.past = Known /\ v.base = resident.head /\ v.unseen = Known \ resident.seen
          /\ resident.head # {}
      BY <1>2 DEF Fits
    <2>3. resident.head \subseteq Known /\ resident.seen \subseteq Behind(resident.head)
      BY <2>2, <1>0 DEF Order, SeenIsKnown, SeenIsBehind
    <2> HIDE DEF v
    <2>4. /\ Known' = Known \cup {n} /\ n \notin Known /\ store'[n] = v
          /\ \A x \in Known : store'[x] = store[x]
      BY <1>0, <1>n, <1>2, <2>1, StoreGrows
    <2>5. Causal'
      <3>1. \A y \in v.past : store[y].past \subseteq v.past
        BY <1>0, <2>2 DEF Causal
      <3> QED BY <1>0, <1>2, <2>1, <2>2, <2>3, <3>1, CausalGrows
    <2>6. Own' = Own \cup {n} /\ Own \subseteq Known /\ n \notin Own
      BY <2>2, <2>4, EndpointAssumption DEF Own
    <2>7. Own \subseteq unsettled \cup resident.seen
      BY <1>0 DEF Order, SettledIsSeen
    <2>8. PICK h : h = resident.head
      OBVIOUS
    <2>9. Behind(h)' = Behind(h)
      BY <2>3, <2>4, <2>8, BehindStays
    <2>10. SeenIsKnown' /\ SeenIsBehind'
      <3>1. Behind(resident.head)' = Behind(h)
        BY <1>0, <2>8, <2>9 DEF Behind
      <3> QED BY <1>0, <2>4, <2>3, <2>8, <3>1 DEF Order, SeenIsKnown, SeenIsBehind
    <2>11. SettledIsWhole'
      <3>1. ASSUME NEW x \in Own \ unsettled PROVE ({x} \cup store'[x].past) \cap late' = {}
        BY <1>0, <2>4, <2>6 DEF Order, SettledIsWhole
      <3>2. n \notin unsettled' => ({n} \cup store'[n].past) \cap late' = {}
        BY <1>0, <1>2
      <3> QED BY <1>2, <2>6, <3>1, <3>2 DEF SettledIsWhole
    <2>12. SettledIsSeen'
      <3>1. ~Unlocked'
        <4>1. call'[s].step = "install"
          BY <1>0, <1>2, CallGoesOn DEF Steps
        <4> QED BY <4>1 DEF Unlocked
      <3>2. \A y \in Own' : y <= n
        BY <1>0, <1>n, <2>6, StoreShape
      <3>3. Own' \ (unsettled' \cup resident'.seen) \subseteq {n}
        BY <1>0, <1>2, <2>6, <2>7
      <3> QED BY <3>1, <3>2, <3>3 DEF SettledIsSeen
    <2>13. SaveReplacesItsBase'
      <3>1. unsettled \subseteq unsettled' /\ \A x \in Known : x \in Own' => x \in Own
        BY <1>2, <2>4, <2>6
      <3>2. \A x \in Known : store'[x].by \in Sessions =>
              /\ store'[x].past \subseteq Behind(store[x].base)' \cup store'[x].unseen
              /\ store'[x].unseen \cap Own' \subseteq unsettled'
        BY <2>4, <3>1, ReplacedStays
      <3>3. Behind(store[n].base)' = Behind(h)
        BY <2>2, <2>4, <2>8, <2>9 DEF Behind
      <3>4. store'[n].past \subseteq Behind(store[n].base)' \cup store'[n].unseen
        BY <2>2, <2>3, <2>4, <2>8, <3>3
      <3>5. store'[n].unseen \cap Own' \subseteq unsettled'
        BY <2>2, <2>4, <2>6, <2>7, <3>1
      <3> QED BY <2>4, <3>2, <3>4, <3>5 DEF SaveReplacesItsBase
    <2> QED
      BY <1>0, <2>5, <2>10, <2>11, <2>12, <2>13 DEF Replaced, Order
  <1> QED
    BY <1>n, <1>1, <1>2 DEF AuthorSave

\* Every step keeps the order and replaces nothing else.
LEMMA NextReplaced == Replaced /\ [Next]_vars => Replaced'
  <1> SUFFICES ASSUME Replaced, [Next]_vars PROVE Replaced'
    OBVIOUS
  <1>0. TypeOK /\ Order /\ Typing' /\ SaveReplacesItsBase
    BY NextTyping DEF Replaced, Order, Typing
  <1>1. ASSUME store' = store, unsettled \subseteq unsettled' PROVE SaveReplacesItsBase'
    <2>1. Known' = Known /\ Own' = Own
      BY <1>1 DEF Known, Own
    <2> QED BY <1>0, <1>1, <2>1 DEF SaveReplacesItsBase, Behind
  <1>2. ASSUME Frame, resident' = resident, Unlocked' => Unlocked PROVE Replaced'
    BY <1>0, <1>1, <1>2, OrderStill DEF Replaced, Frame
  <1>3. ASSUME UNCHANGED <<store, late>>, unsettled \subseteq unsettled',
               resident' \in {Installed} \cup HalfInstalled
        PROVE  Replaced'
    BY <1>0, <1>1, <1>3, OrderInstalled DEF Replaced
  <1>4. ASSUME NEW t \in Typed[Remote], NEW upTo, RemotePut(t, upTo) \/ RemotePutEarly(t, upTo)
        PROVE  Replaced'
    <2> DEFINE v == RemoteVersion(t, {x \in Known : x \notin Own \/ x <= upTo})
    <2>1. Order'
      BY <1>0, <1>4, OrderRemote
    <2>2. store' = Append(store, v) /\ Len(store) < MaxVersions /\ unsettled' = unsettled
      BY <1>4 DEF RemotePut, RemotePutEarly
    <2>3. v \in Version /\ v.by = Remote /\ Remote \notin Sessions
      <3>1. t \in Texts
        BY EndpointAssumption
      <3>2. {x \in Known : x \notin Own \/ x <= upTo} \subseteq Id
        BY <1>0, StoreShape
      <3> QED BY <3>1, <3>2, EndpointAssumption DEF Version, RemoteVersion, Token
    <2> HIDE DEF v
    <2>4. /\ Known' = Known \cup {Len(store) + 1} /\ store'[Len(store) + 1] = v
          /\ \A x \in Known : store'[x] = store[x]
      BY <1>0, <2>2, <2>3, StoreGrows
    <2>5. \A x \in Known : x \in Own' => x \in Own
      BY <2>4 DEF Own
    <2>6. \A x \in Known : store'[x].by \in Sessions =>
            /\ store'[x].past \subseteq Behind(store[x].base)' \cup store'[x].unseen
            /\ store'[x].unseen \cap Own' \subseteq unsettled'
      BY <2>2, <2>4, <2>5, ReplacedStays
    <2> QED
      BY <2>1, <2>3, <2>4, <2>6 DEF Replaced, SaveReplacesItsBase
  <1>5. ASSUME NEW x, Arrive(x) PROVE Replaced'
    BY <1>2, <1>5 DEF Arrive, Frame, Unlocked
  <1>6. ASSUME NEW s \in Sessions, NEW request, Begin(s, request) PROVE Replaced'
    BY <1>3, <1>6 DEF Begin
  <1>7. ASSUME NEW s \in Sessions, Edit(s) PROVE Replaced'
    BY <1>2, <1>7 DEF Edit, Frame, Unlocked
  <1>8. ASSUME NEW s \in Sessions, BeginFails(s) PROVE Replaced'
    <2>1. UNCHANGED <<store, late, unsettled>> /\ call' = call /\ resident' \in FailedInstalls
      BY <1>8 DEF BeginFails
    <2>2. resident' = resident \/ resident' \in {Installed} \cup HalfInstalled
      BY <2>1 DEF FailedInstalls
    <2> QED
      BY <1>2, <1>3, <2>1, <2>2 DEF Frame, Unlocked
  <1>9. ASSUME NEW s \in Sessions, InstallSaveFails(s) PROVE Replaced'
    <2>1. /\ UNCHANGED <<store, late>> /\ resident' \in FailedInstalls
          /\ unsettled' = unsettled \cup {x \in Own : \A y \in Own : y <= x}
      BY <1>9 DEF InstallSaveFails
    <2>2. CASE resident' \in {Installed} \cup HalfInstalled
      BY <1>3, <2>1, <2>2
    <2>3. CASE resident' = resident
      <3>1. Known' = Known /\ Own' = Own
        BY <2>1 DEF Known, Own
      <3>2. Causal' /\ SeenIsKnown' /\ SeenIsBehind' /\ SettledIsWhole'
        BY <1>0, <2>1, <2>3, <3>1
        DEF Order, Causal, SeenIsKnown, SeenIsBehind, SettledIsWhole, Behind
      <3>3. Own \subseteq unsettled' \cup resident.seen
        BY <1>0, <2>1 DEF Order, SettledIsSeen
      <3>4. SettledIsSeen'
        BY <2>3, <3>1, <3>3 DEF SettledIsSeen
      <3> QED
        BY <1>0, <1>1, <2>1, <3>2, <3>4 DEF Replaced, Order
    <2> QED
      BY <2>1, <2>2, <2>3 DEF FailedInstalls
  <1>10. ASSUME NEW s \in Sessions, Answer(s) PROVE Replaced'
    <2>1. CASE AuthorSave(s)
      BY <1>0, <2>1, ReplacedAuthor
    <2>2. CASE InstallSave(s)
      BY <1>3, <2>2 DEF InstallSave
    <2>3. CASE AnswerSnapshot(s) \/ AnswerPoll(s) \/ AnswerResume(s)
      BY <1>2, <2>3 DEF AnswerSnapshot, AnswerPoll, AnswerResume, At, Frame
    <2>4. ASSUME NEW kind, NEW step, AnswerIntent(s, kind, step) PROVE Replaced'
      BY <1>2, <2>4 DEF AnswerIntent, At, Frame
    <2>5. CASE Compose(s)
      BY <1>2, <2>5 DEF Compose, At, Frame
    <2>6. CASE Target(s) \/ ObserveSave(s) \/ Read(s)
      BY <1>2, <2>6 DEF Target, ObserveSave, Read, Frame
    <2> QED
      BY <1>10, <2>1, <2>2, <2>3, <2>4, <2>5, <2>6 DEF Answer
  <1>11. CASE UNCHANGED vars
    BY <1>2, <1>11 DEF vars, Frame, Unlocked
  <1>12. ASSUME NEW s \in Sessions, Ask(s) PROVE Replaced'
    BY <1>6, <1>7, <1>12 DEF Ask, Look, Mount, Poll, Resume, Save, InsertClip
  <1> QED
    BY <1>4, <1>5, <1>8, <1>9, <1>10, <1>11, <1>12 DEF Next, StoreStep

\* The order holds initially.
LEMMA InitReplaced == Init => Replaced
  <1> SUFFICES ASSUME Init PROVE Replaced
    OBVIOUS
  <1>1. Typing /\ TypeOK
    BY InitTyping DEF Typing
  <1>2. Known = {1} /\ store[1] = RemoteVersion(First, {})
    BY DEF Init, Known
  <1>3. /\ store[1].past = {} /\ store[1].base = {} /\ store[1].unseen = {} /\ store[1].by = Remote
    BY <1>2 DEF RemoteVersion
  <1>4. Own = {}
    BY <1>2, <1>3 DEF Own
  <1>5. resident.head = {1} /\ resident.seen = {1}
    BY DEF Init
  <1>6. Causal /\ SeenIsKnown /\ SeenIsBehind /\ SettledIsWhole /\ SettledIsSeen
    BY <1>2, <1>3, <1>4, <1>5 DEF Causal, SeenIsKnown, SeenIsBehind, SettledIsWhole, SettledIsSeen, Behind
  <1>7. SaveReplacesItsBase
    BY <1>2, <1>3, EndpointAssumption DEF SaveReplacesItsBase
  <1> QED
    BY <1>1, <1>6, <1>7 DEF Replaced, Order

\* Whatever the sessions, the remote writer and failing installs do between the
\* two looks at the token, a save replaces its base and what the resident had
\* not projected; and a settled save of another session is always projected.
THEOREM SavesReplaceTheirBase == Spec => []SaveReplacesItsBase
  <1>1. Replaced => SaveReplacesItsBase
    BY DEF Replaced
  <1> QED
    BY <1>1, InitReplaced, NextReplaced, PTL DEF Spec

-----------------------------------------------------------------------------
(* What heads say together does not change *)

\* A finite set of numbers has a last one.
LEMMA MaxExists ==
  ASSUME NEW S \in SUBSET Nat, IsFiniteSet(S), S # {}
  PROVE  Max(S) \in S
  <1> DEFINE Above(x) == {y \in S : y > x}
             T == {Above(x) : x \in S}
  <1>1. IsWellFoundedOn(StrictSubsetOrdering(S), FiniteSubsetsOf(S))
    BY FS_StrictSubsetOrderingWellFounded
  <1>2. T \subseteq FiniteSubsetsOf(S) /\ T # {}
    <2>1. \A x \in S : Above(x) \subseteq S /\ IsFiniteSet(Above(x))
      BY FS_Subset
    <2> QED BY <2>1 DEF FiniteSubsetsOf
  <1> HIDE DEF T
  <1>3. PICK t \in T : \A u \in T : ~(<<u, t>> \in StrictSubsetOrdering(S))
    BY <1>1, <1>2, WFMin
  <1>4. PICK x \in S : t = Above(x)
    BY DEF T
  <1>5. ASSUME NEW y \in S PROVE x >= y
    <2>1. SUFFICES ASSUME y > x PROVE FALSE
      OBVIOUS
    <2>2. Above(y) \subseteq Above(x) /\ y \in Above(x) /\ y \notin Above(y)
      <3>1. x \in Nat /\ y \in Nat /\ y > x
        BY <2>1
      <3>2. \A z \in S : z \in Nat /\ (z > y => z > x)
        BY <3>1
      <3>3. y \notin Above(y)
        BY <3>1
      <3> QED BY <3>1, <3>2, <3>3
    <2>3. <<Above(y), Above(x)>> \in StrictSubsetOrdering(S)
      BY <2>2 DEF StrictSubsetOrdering
    <2>4. Above(y) \in T
      BY DEF T
    <2> QED BY <1>3, <1>4, <2>3, <2>4
  <1> QED
    BY <1>5 DEF Max

\* What is said by these texts, over this base.
SaidBy(texts, base) ==
  IF Cardinality(texts) = 1 THEN CHOOSE t \in texts : TRUE
  ELSE LET changed == texts \ {base}
       IN IF Cardinality(changed) = 1 THEN CHOOSE t \in changed : TRUE ELSE NoText

\* The first version is in the past of every other one, and never late.
FirstIsFirst ==
  /\ 1 \in Known /\ 1 \notin late /\ store[1].past = {} /\ store[1].by = Remote
  /\ \A x \in Known : x # 1 => 1 \in store[x].past

\* Heads of some moment: versions of whole history, the first one only alone.
Fixed(h) == h \subseteq Closed /\ (1 \in h => h = {1})

\* The store only grew, and what was whole stays whole.
Grown ==
  /\ Known \subseteq Known' /\ \A x \in Known : store'[x] = store[x]
  /\ Closed \subseteq Closed'

\* Whatever is added later is before none of these heads: what they say
\* together stays what it is.
LEMMA SettledStays ==
  ASSUME TypeOK, Causal, FirstIsFirst, Grown, NEW h, Fixed(h), h # {}
  PROVE  Settled(h)' = Settled(h) /\ Fixed(h)'
  <1> DEFINE texts == {store[x].text : x \in h}
             common == {b \in Closed : \A x \in h : b \in store[x].past}
  <1>1. Closed \subseteq Known /\ h \subseteq Known /\ \A x \in h : store'[x] = store[x]
    BY DEF Fixed, Grown, Closed
  <1>2. texts' = texts
    BY <1>1
  <1>3. Settled(h) = SaidBy(texts, store[MergeBase(h)].text)
    BY DEF Settled, SaidBy
  <1>4. Settled(h)' = SaidBy(texts', store'[MergeBase(h)'].text)
    BY DEF Settled, SaidBy
  <1>5. Fixed(h)'
    BY DEF Fixed, Grown
  <1>6. CASE h = {1}
    <2>1. texts = {store[1].text}
      BY <1>6
    <2>2. Cardinality(texts) = 1
      BY <2>1, FS_Singleton
    <2>3. \A b : SaidBy(texts, b) = CHOOSE t \in texts : TRUE
      BY <2>2 DEF SaidBy
    <2> QED
      BY <1>2, <1>3, <1>4, <1>5, <2>3
  <1>7. CASE 1 \notin h
    <2>1. \A b : (\A x \in h : b \in store[x].past) => b \in Closed /\ b \in Closed'
      <3>1. ASSUME NEW x \in h, NEW b \in store[x].past PROVE b \in Closed
        BY <1>1 DEF Fixed, Closed, Causal
      <3> QED BY <3>1 DEF Grown
    <2>2. common' = common
      <3>1. \A b : (\A x \in h : b \in store'[x].past) <=> (\A x \in h : b \in store[x].past)
        BY <1>1
      <3> QED BY <2>1, <3>1
    <2>3. MergeBase(h) = Max(common) /\ MergeBase(h)' = Max(common')
      BY DEF MergeBase
    <2>4. 1 \in common
      BY <1>1, <1>7, <2>1 DEF FirstIsFirst
    <2>5. Known \subseteq Nat /\ IsFiniteSet(common)
      BY <1>1, StoreShape, FS_Subset
    <2>6. Max(common) \in common
      <3>1. common \in SUBSET Nat
        BY <1>1, <2>5
      <3> QED BY <2>4, <2>5, <3>1, MaxExists
    <2>7. PICK m : m = Max(common)
      OBVIOUS
    <2> HIDE DEF common
    <2>8. MergeBase(h) = m /\ MergeBase(h)' = m
      BY <2>2, <2>3, <2>7
    <2>9. store'[m] = store[m]
      BY <1>1, <2>6, <2>7 DEF Grown, common
    <2> QED
      BY <1>2, <1>3, <1>4, <1>5, <2>8, <2>9
  <1> QED
    BY <1>6, <1>7 DEF Fixed

\* Heads are only the first one when there is no other.
LEMMA HeadsAreFixed ==
  ASSUME TypeOK, Causal, FirstIsFirst
  PROVE  Heads # {} /\ Fixed(Heads)
  <1>1. 1 \in Closed
    BY DEF FirstIsFirst, Closed
  <1>2. Heads # {}
    BY <1>1, HeadsCover DEF Behind
  <1>3. ASSUME 1 \in Heads PROVE Heads = {1}
    <2>1. \A x \in Closed : x = 1
      BY <1>3 DEF Heads, HeadsOf, FirstIsFirst, Closed
    <2> QED BY <1>3, <2>1 DEF Heads, HeadsOf
  <1> QED
    BY <1>2, <1>3 DEF Fixed, Heads, HeadsOf

-----------------------------------------------------------------------------
(* Texts and tokens *)

SeenHeads == HeadsOf(resident.seen)

\* What the resident has seen is whole, and its token is made of its heads.
SeenIsWhole ==
  /\ resident.seen \subseteq Closed /\ 1 \in resident.seen
  /\ \A x \in resident.seen : store[x].past \subseteq resident.seen
  /\ SeenHeads # {}
  /\ resident.head = IF Settled(SeenHeads) = NoText THEN {} ELSE SeenHeads

\* A token anyone holds was once the resident's.
Stood(token) == token \subseteq resident.seen /\ (1 \in token => token = {1})

TokensStood ==
  \A s \in Sessions : /\ Stood(client[s].view.token) /\ Stood(client[s].draft)
                      /\ Stood(sess[s].snap.token) /\ Stood(call[s].token)

\* Before the first half install every text is that of the token it is with.
TextsFit ==
  ~torn =>
    /\ resident.head # {} => resident.text = Settled(resident.head)
    /\ \A s \in Sessions : \A v \in {client[s].view, sess[s].snap} :
         v.text # NoText => v.token # {} /\ v.text = Settled(v.token)

\* After it too, where a call's token is the resident's, so is its text; and a
\* composed clip is appended to what its token stands for.
CallsFit ==
  \A s \in Sessions :
    /\ (call[s].step \in {"observe", "compose", "target", "author"}
        /\ call[s].token # {} /\ call[s].token = resident.head)
         => resident.text = Settled(resident.head)
    /\ (call[s].kind = "clip" /\ call[s].step \in {"target", "author"})
         => call[s].token # {} /\ call[s].text = Clip[Settled(call[s].token)]

\* A clip is appended to what its save replaces, which is whole.
ClipsFit ==
  \A x \in Known : store[x].clipped =>
    \E h \in {HeadsOf(store[x].past \ store[x].unseen)} :
      h # {} /\ Fixed(h) /\ store[x].text = Clip[Settled(h)]

Fitting ==
  Order /\ FirstIsFirst /\ SeenIsWhole /\ TokensStood /\ TextsFit /\ CallsFit /\ ClipsFit

\* Heads are what they were, when the past of versions is.
LEMMA HeadsOfStays ==
  ASSUME NEW S, S \subseteq Known, \A x \in Known : store'[x] = store[x]
  PROVE  HeadsOf(S)' = HeadsOf(S)
  BY DEF HeadsOf

\* With the store alone, nothing it says changes.
LEMMA SettledSame ==
  ASSUME UNCHANGED <<store, late>>, NEW h
  PROVE  Settled(h)' = Settled(h) /\ Fixed(h)' = Fixed(h)
  <1>1. Known' = Known /\ Closed' = Closed
    BY DEF Known, Closed
  <1>2. MergeBase(h)' = MergeBase(h)
    BY <1>1 DEF MergeBase
  <1> QED
    BY <1>1, <1>2 DEF Settled, Fixed

\* What once was the resident's token is made of whole versions.
LEMMA StoodIsFixed ==
  ASSUME SeenIsWhole, NEW h, Stood(h)
  PROVE  Fixed(h)
  BY DEF SeenIsWhole, Stood, Fixed

\* The heads of what was seen are such a token.
LEMMA SeenHeadsStood ==
  ASSUME Order, FirstIsFirst, SeenIsWhole
  PROVE  /\ SeenHeads # {} /\ Stood(SeenHeads) /\ Fixed(SeenHeads)
         /\ resident.head \in {{}, SeenHeads} /\ Stood(resident.head)
  <1>1. resident.seen \subseteq Known /\ TypeOK /\ Causal
    BY DEF Order, SeenIsKnown, Typing
  <1>2. ASSUME 1 \in SeenHeads PROVE SeenHeads = {1}
    <2>1. \A x \in resident.seen : x = 1
      BY <1>1, <1>2 DEF SeenHeads, HeadsOf, FirstIsFirst
    <2> QED BY <1>2, <2>1 DEF SeenHeads, HeadsOf
  <1>3. Stood(SeenHeads) /\ Fixed(SeenHeads)
    BY <1>2, StoodIsFixed DEF Stood, SeenHeads, HeadsOf
  <1>4. resident.head \in {{}, SeenHeads} /\ Stood(resident.head)
    BY <1>3 DEF SeenIsWhole, Stood
  <1> QED
    BY <1>3, <1>4 DEF SeenIsWhole

\* How a call goes on that keeps no token, or stops comparing it.
CallLeaves(s) ==
  \/ call'[s] = call[s]
  \/ /\ call'[s].step \notin {"observe", "compose", "target", "author"}
     /\ call'[s].token \in {call[s].token, {}}

\* A growing store changes no text that was said to be a token's.
LEMMA FitGrown ==
  ASSUME Fitting, Order', FirstIsFirst', Grown, UNCHANGED <<resident, sess, client, torn>>,
         \A s \in Sessions : CallLeaves(s),
         \A x \in Known' \ Known : store'[x].clipped =>
           (\E h \in {HeadsOf(store[x].past \ store[x].unseen)} :
              h # {} /\ Fixed(h) /\ store[x].text = Clip[Settled(h)])'
  PROVE  Fitting'
  <1>0. TypeOK /\ Causal /\ FirstIsFirst /\ SeenIsWhole /\ SeenIsKnown
    BY DEF Fitting, Order, Typing
  <1>1. ASSUME NEW h, Stood(h), h # {} PROVE Settled(h)' = Settled(h)
    BY <1>0, <1>1, StoodIsFixed, SettledStays
  <1>2. \A h : Stood(h)' <=> Stood(h)
    BY DEF Stood
  <1>3. PICK seen : seen = resident.seen
    OBVIOUS
  <1>4. PICK top : top = HeadsOf(seen)
    OBVIOUS
  <1>5. SeenHeads = top /\ SeenHeads' = top
    <2>1. SeenHeads' = HeadsOf(seen)'
      BY <1>3 DEF SeenHeads, HeadsOf
    <2>2. HeadsOf(seen)' = HeadsOf(seen)
      BY <1>0, <1>3, HeadsOfStays DEF SeenIsKnown, Grown
    <2> QED BY <1>3, <1>4, <2>1, <2>2 DEF SeenHeads
  <1>6. SeenIsWhole'
    <2>1. top # {} /\ Stood(top)
      BY <1>0, <1>5, SeenHeadsStood DEF Fitting, SeenIsWhole
    <2>2. Settled(top)' = Settled(top)
      BY <1>1, <2>1
    <2>3. Settled(SeenHeads)' = Settled(top)
      <3>1. Settled(SeenHeads)' = Settled(top)'
        BY <1>5 DEF Settled, MergeBase
      <3> QED BY <2>2, <3>1
    <2>4. resident.head = IF Settled(top) = NoText THEN {} ELSE top
      BY <1>0, <1>5 DEF SeenIsWhole
    <2>5. \A x \in resident.seen : store'[x].past \subseteq resident.seen
      BY <1>0 DEF SeenIsWhole, SeenIsKnown, Grown
    <2> QED
      BY <1>0, <1>5, <2>1, <2>3, <2>4, <2>5 DEF SeenIsWhole, Grown
  <1>7. TokensStood'
    <2>1. Stood({})
      BY DEF Stood
    <2> QED BY <1>2, <2>1 DEF Fitting, TokensStood, CallLeaves
  <1>8. TextsFit'
    <2> SUFFICES ASSUME ~torn
                 PROVE  /\ resident'.head # {} => resident'.text = Settled(resident.head)'
                        /\ \A s \in Sessions : \A v \in {client'[s].view, sess'[s].snap} :
                             v.text # NoText => v.token # {} /\ v.text = Settled(v.token)'
      BY DEF TextsFit
    <2>1. PICK h : h = resident.head
      OBVIOUS
    <2>2. Settled(resident.head)' = Settled(h)'
      BY <2>1 DEF Settled, MergeBase
    <2>3. Stood(h)
      BY <1>0, <2>1, SeenHeadsStood DEF Fitting
    <2>4. resident'.head # {} => resident'.text = Settled(resident.head)'
      BY <1>1, <2>1, <2>2, <2>3 DEF Fitting, TextsFit
    <2>5. ASSUME NEW s \in Sessions, NEW v \in {client[s].view, sess[s].snap}, v.text # NoText
          PROVE  v.token # {} /\ v.text = Settled(v.token)'
      <3>1. Stood(v.token) /\ v.token # {} /\ v.text = Settled(v.token)
        BY <2>5 DEF Fitting, TokensStood, TextsFit
      <3>2. PICK k : k = v.token
        OBVIOUS
      <3>3. Settled(k)' = Settled(k)
        BY <1>1, <3>1, <3>2
      <3> QED BY <3>1, <3>2, <3>3
    <2> QED BY <2>4, <2>5
  <1>9. CallsFit'
    <2> SUFFICES ASSUME NEW s \in Sessions
                 PROVE  /\ (call'[s].step \in {"observe", "compose", "target", "author"}
                            /\ call'[s].token # {} /\ call'[s].token = resident'.head)
                             => resident'.text = Settled(resident.head)'
                        /\ (call'[s].kind = "clip" /\ call'[s].step \in {"target", "author"})
                             => call'[s].token # {} /\ call'[s].text = Clip[Settled(call[s].token)']
      BY DEF CallsFit
    <2>1. CASE call'[s].step \notin {"observe", "compose", "target", "author"}
      BY <2>1
    <2>2. CASE call'[s] = call[s]
      <3>1. PICK h : h = call[s].token
        OBVIOUS
      <3>2. Stood(h)
        BY <3>1 DEF Fitting, TokensStood
      <3>3. h = resident.head => Settled(resident.head)' = Settled(h)'
        BY DEF Settled, MergeBase
      <3>4. Settled(call[s].token)' = Settled(h)'
        BY <2>2, <3>1 DEF Settled, MergeBase
      <3>5. h # {} => Settled(h)' = Settled(h)
        BY <1>1, <3>2
      <3> QED
        BY <2>2, <3>1, <3>3, <3>4, <3>5 DEF Fitting, CallsFit
    <2> QED
      BY <2>1, <2>2 DEF CallLeaves
  <1>10. ClipsFit'
    <2>1. ASSUME NEW x \in Known, store'[x].clipped
          PROVE  (\E h \in {HeadsOf(store[x].past \ store[x].unseen)} :
                    h # {} /\ Fixed(h) /\ store[x].text = Clip[Settled(h)])'
      <3>1. store'[x] = store[x]
        BY DEF Grown
      <3>2. PICK old : old = store[x].past \ store[x].unseen
        OBVIOUS
      <3>3. PICK h : h = HeadsOf(old)
        OBVIOUS
      <3>4. h # {} /\ Fixed(h) /\ store[x].text = Clip[Settled(h)]
        BY <2>1, <3>1, <3>2, <3>3 DEF Fitting, ClipsFit
      <3>5. Settled(h)' = Settled(h) /\ Fixed(h)'
        BY <1>0, <3>4, SettledStays
      <3>6. HeadsOf(old)' = h
        BY <1>0, <3>2, <3>3, HeadsOfStays DEF Grown, Causal
      <3>7. HeadsOf(store[x].past \ store[x].unseen)' = h
        BY <3>1, <3>2, <3>6 DEF HeadsOf
      <3> QED
        BY <3>1, <3>4, <3>5, <3>7
    <2> QED
      BY <2>1 DEF ClipsFit
  <1> QED
    BY <1>6, <1>7, <1>8, <1>9, <1>10 DEF Fitting

\* What an install leaves: text and token of one projection, or a text of an
\* earlier one with a token nobody has.
LEMMA InstallFits ==
  ASSUME Fitting, NEW r \in {Installed} \cup HalfInstalled
  PROVE  /\ r.seen = Closed /\ r.head = (IF Settled(Heads) = NoText THEN {} ELSE Heads)
         /\ resident.seen \subseteq r.seen
         /\ r = Installed => r.text = Settled(Heads)
         /\ \A h : (/\ Stood(h) /\ h # {} /\ h = r.head
                    /\ h = resident.head => resident.text = Settled(resident.head))
                  => r.text = Settled(h)
  <1>0. TypeOK /\ Causal /\ FirstIsFirst /\ SeenIsWhole /\ SeenIsKnown
    BY DEF Fitting, Order, Typing
  <1>1. /\ Projection.seen = Closed /\ Projection.text = Settled(Heads)
        /\ Projection.head = IF Settled(Heads) = NoText THEN {} ELSE Heads
    BY DEF Projection
  <1>2. /\ Installed.seen = Closed /\ Installed.head = Projection.head
        /\ Installed.text = Settled(Heads)
    BY <1>1 DEF Installed
  <1>3. \A q \in HalfInstalled : /\ q.seen = Closed /\ q.head = Projection.head
                                 /\ q.text = resident.text /\ resident.text # Settled(Heads)
    BY <1>0, <1>1 DEF HalfInstalled, TypeOK, Resident
  <1>4. resident.seen \subseteq Closed
    BY <1>0 DEF SeenIsWhole
  <1>5. ASSUME NEW h, Stood(h), h # {}, h = r.head, r \in HalfInstalled,
               h = resident.head => resident.text = Settled(resident.head)
        PROVE  FALSE
    <2>1. h = Heads /\ Settled(Heads) # NoText
      BY <1>1, <1>3, <1>5
    <2>2. Closed \subseteq resident.seen
      <3>1. Closed \subseteq Behind(h)
        BY <1>0, <2>1, HeadsCover
      <3>2. h \subseteq resident.seen /\ \A x \in h : store[x].past \subseteq resident.seen
        BY <1>0, <1>5 DEF Stood, SeenIsWhole
      <3> QED BY <3>1, <3>2 DEF Behind
    <2>3. SeenHeads = Heads
      BY <1>4, <2>2 DEF SeenHeads, Heads
    <2>4. resident.head = Heads
      BY <1>0, <2>1, <2>3 DEF SeenIsWhole
    <2> QED
      BY <1>3, <1>5, <2>1, <2>4
  <1>6. r.seen = Closed /\ r.head = (IF Settled(Heads) = NoText THEN {} ELSE Heads)
        /\ resident.seen \subseteq r.seen /\ (r = Installed => r.text = Settled(Heads))
    BY <1>1, <1>2, <1>3, <1>4
  <1>7. ASSUME NEW h, Stood(h), h # {}, h = r.head,
               h = resident.head => resident.text = Settled(resident.head)
        PROVE  r.text = Settled(h)
    <2>1. r = Installed
      BY <1>5, <1>7
    <2>2. h = Heads
      BY <1>6, <1>7
    <2> QED BY <1>6, <2>1, <2>2
  <1> QED
    BY <1>6, <1>7

\* An install, whole or half, keeps texts and tokens together.
LEMMA FitInstall ==
  ASSUME Fitting, Order', UNCHANGED <<store, late, sess, client>>,
         resident' \in {Installed} \cup HalfInstalled,
         torn => torn', resident' = Installed \/ torn',
         \A s \in Sessions :
           \/ CallLeaves(s)
           \/ /\ call'[s].step = "observe" /\ Stood(call'[s].token) /\ resident' = Installed
  PROVE  Fitting'
  <1>0. TypeOK /\ Causal /\ FirstIsFirst /\ SeenIsWhole /\ SeenIsKnown
    BY DEF Fitting, Order, Typing
  <1>1. \A h : Settled(h)' = Settled(h) /\ Fixed(h)' = Fixed(h)
    BY SettledSame
  <1>2. Known' = Known /\ Closed' = Closed
    BY DEF Known, Closed
  <1>3. /\ resident'.seen = Closed
        /\ resident'.head = (IF Settled(Heads) = NoText THEN {} ELSE Heads)
        /\ resident.seen \subseteq resident'.seen
        /\ resident' = Installed => resident'.text = Settled(Heads)
        /\ \A h : (/\ Stood(h) /\ h # {} /\ h = resident'.head
                   /\ h = resident.head => resident.text = Settled(resident.head))
                 => resident'.text = Settled(h)
    BY InstallFits
  <1>4. \A h : Stood(h) => Stood(h)'
    BY <1>3 DEF Stood
  <1>5. PICK top : top = Heads
    OBVIOUS
  <1>6. SeenHeads' = top
    BY <1>3, <1>5 DEF SeenHeads, Heads, HeadsOf
  <1>7. SeenIsWhole'
    <2>1. top # {} /\ 1 \in Closed
      BY <1>0, <1>5, HeadsAreFixed DEF FirstIsFirst, Closed
    <2>2. Settled(SeenHeads)' = Settled(top)
      <3>1. Settled(SeenHeads)' = Settled(top)'
        BY <1>6 DEF Settled, MergeBase
      <3> QED BY <1>1, <3>1
    <2>3. \A x \in Closed : store[x].past \subseteq Closed
      BY <1>0 DEF Closed, Causal
    <2> QED
      BY <1>2, <1>3, <1>5, <1>6, <2>1, <2>2, <2>3 DEF SeenIsWhole
  <1>8. FirstIsFirst'
    BY <1>0, <1>2 DEF FirstIsFirst
  <1>9. TokensStood'
    <2>1. Stood({})
      BY DEF Stood
    <2> QED BY <1>4, <2>1 DEF Fitting, TokensStood, CallLeaves
  <1>10. PICK head : head = resident'.head
    OBVIOUS
  <1>11. Settled(resident.head)' = Settled(head)
    <2>1. Settled(resident.head)' = Settled(head)'
      BY <1>10 DEF Settled, MergeBase
    <2> QED BY <1>1, <2>1
  <1>12. resident' = Installed => (head # {} => resident'.text = Settled(resident.head)')
    BY <1>3, <1>5, <1>10, <1>11
  <1>13. TextsFit'
    <2> SUFFICES ASSUME ~torn'
                 PROVE  /\ resident'.head # {} => resident'.text = Settled(resident.head)'
                        /\ \A s \in Sessions : \A v \in {client[s].view, sess[s].snap} :
                             v.text # NoText => v.token # {} /\ v.text = Settled(v.token)'
      BY DEF TextsFit
    <2>1. resident'.head # {} => resident'.text = Settled(resident.head)'
      BY <1>10, <1>12
    <2>2. ASSUME NEW s \in Sessions, NEW v \in {client[s].view, sess[s].snap}, v.text # NoText
          PROVE  v.token # {} /\ v.text = Settled(v.token)'
      BY <1>1, <2>2 DEF Fitting, TextsFit
    <2> QED BY <2>1, <2>2
  <1>14. CallsFit'
    <2> SUFFICES ASSUME NEW s \in Sessions
                 PROVE  /\ (call'[s].step \in {"observe", "compose", "target", "author"}
                            /\ call'[s].token # {} /\ call'[s].token = resident'.head)
                             => resident'.text = Settled(resident.head)'
                        /\ (call'[s].kind = "clip" /\ call'[s].step \in {"target", "author"})
                             => call'[s].token # {} /\ call'[s].text = Clip[Settled(call[s].token)']
      BY DEF CallsFit
    <2>1. CASE call'[s].step \notin {"observe", "compose", "target", "author"}
      BY <2>1
    <2>2. CASE call'[s] = call[s]
      <3>1. PICK h : h = call[s].token
        OBVIOUS
      <3>2. Stood(h)
        BY <3>1 DEF Fitting, TokensStood
      <3>3. Settled(call[s].token)' = Settled(h)
        <4>1. Settled(call[s].token)' = Settled(h)'
          BY <2>2, <3>1 DEF Settled, MergeBase
        <4> QED BY <1>1, <4>1
      <3>4. (/\ call[s].step \in {"observe", "compose", "target", "author"}
             /\ h # {} /\ h = resident.head) => resident.text = Settled(resident.head)
        BY <3>1 DEF Fitting, CallsFit
      <3>5. (call[s].kind = "clip" /\ call[s].step \in {"target", "author"})
              => h # {} /\ call[s].text = Clip[Settled(h)]
        BY <3>1 DEF Fitting, CallsFit
      <3>6. ASSUME call[s].step \in {"observe", "compose", "target", "author"}, h # {}, h = head
            PROVE  resident'.text = Settled(resident.head)'
        <4>1. resident'.text = Settled(h)
          BY <1>3, <1>10, <3>2, <3>4, <3>6
        <4> QED BY <1>11, <3>6, <4>1
      <3> QED
        BY <1>10, <2>2, <3>1, <3>3, <3>5, <3>6
    <2>3. CASE call'[s].step = "observe" /\ resident' = Installed
      BY <1>10, <1>12, <2>3
    <2> QED
      BY <2>1, <2>2, <2>3 DEF CallLeaves
  <1>15. ClipsFit'
    BY <1>1, <1>2 DEF Fitting, ClipsFit, HeadsOf
  <1> QED
    BY <1>7, <1>8, <1>9, <1>13, <1>14, <1>15 DEF Fitting

\* How a call goes on that keeps the token it compares.
CallKeeps(s) ==
  /\ call'[s].token = call[s].token
  /\ call[s].step \in {"observe", "compose", "target", "author"}
  /\ (call'[s].kind = "clip" /\ call'[s].step \in {"target", "author"})
       => call[s].token # {} /\ call'[s].text = Clip[Settled(call[s].token)]

\* What a session is shown, and what it edits, is of the resident's one text
\* and token; everything else leaves both alone.
LEMMA FitQuiet ==
  ASSUME Fitting, Order', UNCHANGED <<store, late, resident, torn>>,
         \A s \in Sessions : \A v \in {client'[s].view, sess'[s].snap} :
           v \in {client[s].view, sess[s].snap, Built(s)},
         \A s \in Sessions : client'[s].draft \in {client[s].draft, client[s].view.token, {}},
         \A s \in Sessions : CallLeaves(s) \/ CallKeeps(s)
  PROVE  Fitting'
  <1>0. FirstIsFirst /\ SeenIsWhole /\ Order
    BY DEF Fitting
  <1>1. \A h : Settled(h)' = Settled(h) /\ Fixed(h)' = Fixed(h)
    BY SettledSame
  <1>2. Known' = Known /\ Closed' = Closed
    BY DEF Known, Closed
  <1>3. \A h : Stood(h)' <=> Stood(h)
    BY DEF Stood
  <1>4. FirstIsFirst'
    BY <1>0, <1>2 DEF FirstIsFirst
  <1>5. PICK top : top = SeenHeads
    OBVIOUS
  <1>6. SeenHeads' = top
    BY <1>5 DEF SeenHeads, HeadsOf
  <1>7. SeenIsWhole'
    <2>1. Settled(SeenHeads)' = Settled(top)
      <3>1. Settled(SeenHeads)' = Settled(top)'
        BY <1>6 DEF Settled, MergeBase
      <3> QED BY <1>1, <3>1
    <2> QED BY <1>0, <1>2, <1>5, <1>6, <2>1 DEF SeenIsWhole
  <1>8. PICK head : head = resident.head
    OBVIOUS
  <1>9. Settled(resident.head)' = Settled(head) /\ Stood(head) /\ Stood({})
    <2>1. Settled(resident.head)' = Settled(head)'
      BY <1>8 DEF Settled, MergeBase
    <2> QED BY <1>0, <1>1, <1>8, <2>1, SeenHeadsStood DEF Stood
  <1>10. ASSUME NEW s \in Sessions
         PROVE  /\ Built(s).token \in {{}, head}
                /\ Built(s).text # NoText => /\ Built(s).token = head /\ head # {}
                                             /\ Built(s).text = resident.text
    BY <1>8 DEF Built, Editable
  <1>11. TokensStood'
    <2>1. ASSUME NEW s \in Sessions
          PROVE  Stood(client'[s].view.token) /\ Stood(client'[s].draft)
                 /\ Stood(sess'[s].snap.token) /\ Stood(call'[s].token)
      <3>1. /\ Stood(client[s].view.token) /\ Stood(client[s].draft)
            /\ Stood(sess[s].snap.token) /\ Stood(call[s].token)
        BY DEF Fitting, TokensStood
      <3>2. Stood(Built(s).token)
        BY <1>9, <1>10
      <3> QED
        BY <1>9, <3>1, <3>2 DEF CallLeaves, CallKeeps
    <2> QED BY <1>3, <2>1 DEF TokensStood
  <1>12. TextsFit'
    <2> SUFFICES ASSUME ~torn
                 PROVE  /\ resident.head # {} => resident.text = Settled(resident.head)'
                        /\ \A s \in Sessions : \A v \in {client'[s].view, sess'[s].snap} :
                             v.text # NoText => v.token # {} /\ v.text = Settled(v.token)'
      BY DEF TextsFit
    <2>1. head # {} => resident.text = Settled(head)
      BY <1>8 DEF Fitting, TextsFit
    <2>2. ASSUME NEW s \in Sessions, NEW v \in {client[s].view, sess[s].snap, Built(s)}, v.text # NoText
          PROVE  v.token # {} /\ v.text = Settled(v.token)'
      <3>1. CASE v \in {client[s].view, sess[s].snap}
        BY <1>1, <2>2, <3>1 DEF Fitting, TextsFit
      <3>2. CASE v = Built(s)
        BY <1>1, <1>10, <2>1, <2>2, <3>2
      <3> QED BY <2>2, <3>1, <3>2
    <2> QED BY <1>8, <1>9, <2>1, <2>2
  <1>13. CallsFit'
    <2> SUFFICES ASSUME NEW s \in Sessions
                 PROVE  /\ (call'[s].step \in {"observe", "compose", "target", "author"}
                            /\ call'[s].token # {} /\ call'[s].token = resident.head)
                             => resident.text = Settled(resident.head)'
                        /\ (call'[s].kind = "clip" /\ call'[s].step \in {"target", "author"})
                             => call'[s].token # {} /\ call'[s].text = Clip[Settled(call[s].token)']
      BY DEF CallsFit
    <2>1. CASE call'[s].step \notin {"observe", "compose", "target", "author"}
      BY <2>1
    <2>2. PICK h : h = call[s].token
      OBVIOUS
    <2>3. /\ (/\ call[s].step \in {"observe", "compose", "target", "author"}
              /\ h # {} /\ h = head) => resident.text = Settled(head)
          /\ (call[s].kind = "clip" /\ call[s].step \in {"target", "author"})
               => h # {} /\ call[s].text = Clip[Settled(h)]
      BY <1>8, <2>2 DEF Fitting, CallsFit
    <2>4. call'[s].token = h => Settled(call[s].token)' = Settled(h)
      <3>1. call'[s].token = h => Settled(call[s].token)' = Settled(h)'
        BY DEF Settled, MergeBase
      <3> QED BY <1>1, <3>1
    <2>5. CASE call'[s] = call[s]
      BY <1>8, <1>9, <2>2, <2>3, <2>4, <2>5
    <2>6. CASE CallKeeps(s)
      <3>1. (call'[s].kind = "clip" /\ call'[s].step \in {"target", "author"})
              => h # {} /\ call'[s].text = Clip[Settled(h)]
        BY <2>2, <2>6 DEF CallKeeps
      <3> QED
        BY <1>8, <1>9, <2>2, <2>3, <2>4, <2>6, <3>1 DEF CallKeeps
    <2> QED
      BY <2>1, <2>5, <2>6 DEF CallLeaves
  <1>14. ClipsFit'
    BY <1>1, <1>2 DEF Fitting, ClipsFit, HeadsOf
  <1> QED
    BY <1>4, <1>7, <1>11, <1>12, <1>13, <1>14 DEF Fitting

\* What a call's token and text are as it goes on.
LEMMA TokenGoesOn ==
  ASSUME TypeOK, NEW s \in Sessions
  PROVE  /\ Finish(s) => \A z \in Sessions : CallLeaves(z)
         /\ \A step \in Steps : Continue(s, step) =>
              /\ \A z \in Sessions : z # s => CallLeaves(z)
              /\ call'[s].token = call[s].token /\ call'[s].text = call[s].text
              /\ call'[s].kind = call[s].kind /\ call'[s].step = step
  <1>1. Idle.step = "idle" /\ Idle.token = {}
    BY DEF Idle, Request
  <1>2. ASSUME Finish(s) PROVE \A z \in Sessions : CallLeaves(z)
    <2>1. \A z \in Sessions : call'[z] = IF z = s THEN Idle ELSE call[z]
      BY <1>2 DEF Finish, TypeOK
    <2> QED BY <1>1, <2>1 DEF CallLeaves
  <1>3. ASSUME NEW step \in Steps, Continue(s, step)
        PROVE  /\ \A z \in Sessions : z # s => CallLeaves(z)
               /\ call'[s].token = call[s].token /\ call'[s].text = call[s].text
               /\ call'[s].kind = call[s].kind /\ call'[s].step = step
    <2>1. call' = [call EXCEPT ![s] = [call[s] EXCEPT !.step = step]]
      BY <1>3 DEF Continue
    <2>2. \A z \in Sessions : z # s => call'[z] = call[z]
      BY <2>1 DEF TypeOK
    <2>3. call'[s] = [call[s] EXCEPT !.step = step] /\ call[s] \in Call
      BY <2>1 DEF TypeOK
    <2> QED BY <2>2, <2>3 DEF CallLeaves, Call
  <1> QED
    BY <1>2, <1>3

\* A version from the remote writer, or the end of a wait, only adds.
LEMMA StoreFitting ==
  ASSUME Fitting, Order', StoreStep
  PROVE  Fitting'
  <1>0. TypeOK /\ Causal /\ FirstIsFirst
    BY DEF Fitting, Order, Typing
  <1>1. \A s \in Sessions : call' = call => CallLeaves(s)
    BY DEF CallLeaves
  <1>2. ASSUME NEW t \in Typed[Remote], NEW upTo \in Id \cup {0},
               RemotePut(t, upTo) \/ RemotePutEarly(t, upTo)
        PROVE  Fitting'
    <2> DEFINE had == {x \in Known : x \notin Own \/ x <= upTo}
               v == RemoteVersion(t, had)
    <2>n. PICK n : n = Len(store) + 1
      OBVIOUS
    <2>1. /\ store' = Append(store, v) /\ Len(store) < MaxVersions
          /\ late' \in {late, late \cup {n}}
          /\ UNCHANGED <<resident, sess, call, client, torn>>
      BY <1>2, <2>n DEF RemotePut, RemotePutEarly
    <2>2. v \in Version /\ v.past = had /\ ~v.clipped
      <3>1. t \in Texts /\ had \subseteq Id
        BY <1>0, StoreShape, EndpointAssumption
      <3> QED BY <3>1 DEF Version, RemoteVersion, Token
    <2>3. 1 \in had
      BY <1>0 DEF FirstIsFirst, Own
    <2> HIDE DEF v, had
    <2>4. /\ Known' = Known \cup {n} /\ n \notin Known /\ store'[n] = v
          /\ \A x \in Known : store'[x] = store[x]
      BY <1>0, <2>n, <2>1, <2>2, StoreGrows
    <2>5. FirstIsFirst'
      BY <1>0, <2>1, <2>2, <2>3, <2>4 DEF FirstIsFirst
    <2>6. Grown
      <3>1. ASSUME NEW x \in Closed PROVE x \in Closed'
        <4>1. x \in Known /\ store'[x] = store[x] /\ store[x].past \subseteq Known
              /\ ({x} \cup store[x].past) \cap late = {}
          BY <1>0, <2>4 DEF Closed, Causal
        <4> QED BY <2>1, <2>4, <4>1 DEF Closed
      <3> QED BY <2>4, <3>1 DEF Grown
    <2> QED
      BY <1>1, <2>1, <2>2, <2>4, <2>5, <2>6, FitGrown
  <1>3. ASSUME NEW x, Arrive(x) PROVE Fitting'
    <2>1. store' = store /\ late' \subseteq late /\ UNCHANGED <<resident, sess, call, client, torn>>
      BY <1>3 DEF Arrive
    <2>2. Known' = Known
      BY <2>1 DEF Known
    <2>3. Grown /\ FirstIsFirst'
      BY <1>0, <2>1, <2>2 DEF Grown, Closed, FirstIsFirst
    <2> QED
      BY <1>1, <2>1, <2>2, <2>3, FitGrown
  <1> QED
    BY <1>2, <1>3 DEF StoreStep

\* A save is made of what its session was shown, and a clip appended to it.
LEMMA AuthorFitting ==
  ASSUME Fitting, Order', NEW s \in Sessions, AuthorSave(s)
  PROVE  Fitting'
  <1> DEFINE v == [by |-> s, text |-> call[s].text, past |-> Known, base |-> call[s].token,
                   unseen |-> Known \ resident.seen, clipped |-> call[s].kind = "clip"]
  <1>n. PICK n : n = Len(store) + 1
    OBVIOUS
  <1>0. /\ TypeOK /\ Causal /\ FirstIsFirst /\ SeenIsWhole /\ SeenIsKnown
        /\ UNCHANGED <<late, resident, sess, client, torn>> /\ call[s].step = "author"
    BY DEF Fitting, Order, Typing, AuthorSave
  <1>1. CASE UNCHANGED <<store, unsettled>> /\ Finish(s)
    <2>1. \A z \in Sessions : CallLeaves(z)
      BY <1>0, <1>1, TokenGoesOn
    <2> QED
      BY <1>0, <1>1, <2>1, FitQuiet
  <1>2. CASE /\ Fits(s) /\ Len(store) < MaxVersions /\ store' = Append(store, v)
             /\ Continue(s, "install")
    <2>1. v \in Version
      <3>1. call[s].text \in Texts /\ call[s].token \in Token
        BY DEF AuthorSave, Fitting, Order, Typing, TypeOK, HasText, Call
      <3> QED BY <1>0, <3>1, StoreShape DEF Version, Token
    <2>2. /\ v.text = call[s].text /\ v.past = Known /\ v.unseen = Known \ resident.seen
          /\ v.clipped = (call[s].kind = "clip")
      OBVIOUS
    <2> HIDE DEF v
    <2>3. /\ Known' = Known \cup {n} /\ n \notin Known /\ store'[n] = v
          /\ \A x \in Known : store'[x] = store[x]
      BY <1>0, <1>n, <1>2, <2>1, StoreGrows
    <2>4. FirstIsFirst'
      BY <1>0, <2>2, <2>3 DEF FirstIsFirst
    <2>5. Grown
      <3>1. ASSUME NEW x \in Closed PROVE x \in Closed'
        <4>1. x \in Known /\ store'[x] = store[x] /\ store[x].past \subseteq Known
              /\ ({x} \cup store[x].past) \cap late = {}
          BY <1>0, <2>3 DEF Closed, Causal
        <4> QED BY <1>0, <2>3, <4>1 DEF Closed
      <3> QED BY <2>3, <3>1 DEF Grown
    <2>6. \A z \in Sessions : CallLeaves(z)
      BY <1>0, <1>2, TokenGoesOn DEF CallLeaves, Steps
    <2>7. PICK seen : seen = resident.seen
      OBVIOUS
    <2>8. PICK h : h = HeadsOf(seen)
      OBVIOUS
    <2>9. resident.head = h /\ h # {} /\ Stood(h) /\ Fixed(h) /\ call[s].token = h
      BY <1>0, <1>2, <2>7, <2>8, SeenHeadsStood DEF Fits, SeenHeads, Fitting
    <2>10. Settled(h)' = Settled(h) /\ Fixed(h)'
      BY <1>0, <2>5, <2>9, SettledStays
    <2>11. HeadsOf(store[n].past \ store[n].unseen)' = h
      <3>1. store'[n].past \ store'[n].unseen = seen
        BY <1>0, <2>2, <2>3, <2>7 DEF SeenIsKnown
      <3>2. HeadsOf(store[n].past \ store[n].unseen)' = HeadsOf(seen)'
        BY <3>1 DEF HeadsOf
      <3>3. HeadsOf(seen)' = HeadsOf(seen)
        BY <1>0, <2>3, <2>7, HeadsOfStays DEF SeenIsKnown
      <3> QED BY <2>8, <3>2, <3>3
    <2>12. v.clipped => v.text = Clip[Settled(h)]
      BY <1>0, <2>2, <2>9 DEF Fitting, CallsFit
    <2>13. ASSUME NEW x \in Known' \ Known, store'[x].clipped
           PROVE  (\E g \in {HeadsOf(store[x].past \ store[x].unseen)} :
                     g # {} /\ Fixed(g) /\ store[x].text = Clip[Settled(g)])'
      <3>1. x = n
        BY <2>3
      <3>2. store'[n].text = Clip[Settled(h)']
        BY <2>3, <2>10, <2>12, <2>13, <3>1
      <3> QED BY <2>9, <2>10, <2>11, <3>1, <3>2
    <2> QED
      BY <1>0, <2>4, <2>5, <2>6, <2>13, FitGrown
  <1> QED
    BY <1>1, <1>2 DEF AuthorSave

\* Every step of a call keeps texts and tokens together.
LEMMA AnswerFitting ==
  ASSUME Fitting, Order', NEW s \in Sessions, Answer(s)
  PROVE  Fitting'
  <1>0. /\ TypeOK /\ sess \in [Sessions -> Session] /\ client \in [Sessions -> Client]
        /\ sess[s] \in Session /\ client[s] \in Client
    BY DEF Fitting, Order, Typing, TypeOK
  <1>1. ASSUME UNCHANGED <<store, late, resident, torn>>,
               \A z \in Sessions : z # s => sess'[z] = sess[z] /\ client'[z] = client[z],
               client'[s].view \in {client[s].view, Built(s)}, sess'[s].snap \in {sess[s].snap, Built(s)},
               client'[s].draft \in {client[s].draft, {}},
               \A z \in Sessions : z # s => CallLeaves(z),
               CallLeaves(s) \/ CallKeeps(s)
        PROVE  Fitting'
    <2>1. \A z \in Sessions : \A v \in {client'[z].view, sess'[z].snap} :
            v \in {client[z].view, sess[z].snap, Built(z)}
      BY <1>1
    <2>2. \A z \in Sessions : client'[z].draft \in {client[z].draft, client[z].view.token, {}}
      BY <1>1
    <2>3. \A z \in Sessions : CallLeaves(z) \/ CallKeeps(z)
      BY <1>1
    <2> QED BY <1>1, <2>1, <2>2, <2>3, FitQuiet
  <1>2. Observed(s).snap = sess[s].snap
    BY <1>0 DEF Observed, Session
  <1>3. ASSUME NEW step \in {"read", "saved", "install"}, Continue(s, step)
        PROVE  \A z \in Sessions : CallLeaves(z)
    BY <1>0, <1>3, TokenGoesOn DEF CallLeaves, Steps
  <1>4. Accept(s) => /\ \A z \in Sessions : z # s => client'[z] = client[z]
                     /\ client'[s].view = client[s].view /\ client'[s].draft \in {client[s].draft, {}}
    BY <1>0 DEF Accept, Client
  <1>5. CASE AnswerSnapshot(s) \/ ObserveSave(s)
    <2>1. UNCHANGED <<store, late, resident, torn>> /\ (client' = client \/ Accept(s))
          /\ sess' = [sess EXCEPT ![s] = Observed(s)] /\ Continue(s, "read")
      BY <1>5 DEF AnswerSnapshot, ObserveSave
    <2>2. sess'[s] = Observed(s) /\ \A z \in Sessions : z # s => sess'[z] = sess[z]
      BY <1>0, <2>1
    <2> QED BY <1>1, <1>2, <1>3, <1>4, <2>1, <2>2
  <1>6. CASE AnswerPoll(s)
    <2> DEFINE rings == Observed(s).snap.rev # 0 /\ Observed(s).rev > Observed(s).announced
               next == [Observed(s) EXCEPT !.announced = IF rings THEN Observed(s).rev ELSE @]
               told == [client[s] EXCEPT !.bell = @ \/ rings]
    <2>1. UNCHANGED <<store, late, resident, torn>> /\ sess' = [sess EXCEPT ![s] = next]
          /\ client' = [client EXCEPT ![s] = told] /\ Finish(s)
      BY <1>0, <1>6 DEF AnswerPoll
    <2>2. next.snap = sess[s].snap
      BY <1>0, <1>2, AnswerTypes DEF Session
    <2>3. told.view = client[s].view /\ told.draft = client[s].draft
      BY <1>0 DEF Client
    <2> HIDE DEF next, told
    <2>4. /\ sess'[s] = next /\ client'[s] = told
          /\ \A z \in Sessions : z # s => sess'[z] = sess[z] /\ client'[z] = client[z]
      BY <1>0, <2>1
    <2>5. \A z \in Sessions : CallLeaves(z)
      BY <1>0, <2>1, TokenGoesOn
    <2> QED BY <1>1, <2>1, <2>2, <2>3, <2>4, <2>5
  <1>7. CASE AnswerResume(s)
    <2> DEFINE current == call[s].ack = Observed(s).rev
               next == [Observed(s) EXCEPT !.announced = IF current THEN Observed(s).rev ELSE @]
               told == [client[s] EXCEPT !.bell = @ /\ ~current]
    <2>1. UNCHANGED <<store, late, resident, torn>> /\ sess' = [sess EXCEPT ![s] = next]
          /\ client' = [client EXCEPT ![s] = told] /\ (Finish(s) \/ Continue(s, "read"))
      BY <1>0, <1>7 DEF AnswerResume
    <2>2. next.snap = sess[s].snap
      BY <1>0, <1>2, AnswerTypes DEF Session
    <2>3. told.view = client[s].view /\ told.draft = client[s].draft
      BY <1>0 DEF Client
    <2> HIDE DEF next, told
    <2>4. /\ sess'[s] = next /\ client'[s] = told
          /\ \A z \in Sessions : z # s => sess'[z] = sess[z] /\ client'[z] = client[z]
      BY <1>0, <2>1
    <2>5. \A z \in Sessions : CallLeaves(z)
      BY <1>0, <1>3, <2>1, TokenGoesOn
    <2> QED BY <1>1, <2>1, <2>2, <2>3, <2>4, <2>5
  <1>8. ASSUME NEW kind \in {"save", "clip"}, NEW step \in {"target", "compose"},
               kind = "clip" => step = "compose", AnswerIntent(s, kind, step)
        PROVE  Fitting'
    <2>1. UNCHANGED <<store, late, resident, torn>> /\ client' = client /\ call[s].kind = kind
          /\ sess' = [sess EXCEPT ![s] = Observed(s)] /\ call[s].step = "observe"
          /\ (Finish(s) \/ Continue(s, "read") \/ Continue(s, step))
      BY <1>8 DEF AnswerIntent, At
    <2>2. sess'[s] = Observed(s) /\ \A z \in Sessions : z # s => sess'[z] = sess[z]
      BY <1>0, <2>1
    <2>3. ASSUME Continue(s, step) PROVE (\A z \in Sessions : z # s => CallLeaves(z)) /\ CallKeeps(s)
      BY <1>0, <1>8, <2>1, <2>3, TokenGoesOn DEF CallKeeps, Steps
    <2>4. (\A z \in Sessions : z # s => CallLeaves(z)) /\ (CallLeaves(s) \/ CallKeeps(s))
      BY <1>0, <1>3, <2>1, <2>3, TokenGoesOn
    <2> QED BY <1>1, <1>2, <2>1, <2>2, <2>4
  <1>9. CASE Compose(s)
    <2>1. UNCHANGED <<store, late, resident, torn, sess, client>> /\ call[s].step = "compose"
      BY <1>9 DEF Compose, At
    <2>2. CASE Finish(s)
      BY <1>0, <1>1, <2>1, <2>2, TokenGoesOn
    <2>3. CASE /\ Editable /\ call[s].token = resident.head
               /\ call' = [call EXCEPT ![s].step = "target", ![s].text = Clip[resident.text]]
      <3> DEFINE c == [call[s] EXCEPT !.step = "target", !.text = Clip[resident.text]]
      <3>1. call' = [call EXCEPT ![s] = c] /\ call \in [Sessions -> Call]
        BY <1>0, <2>3 DEF TypeOK
      <3>2. c.step = "target" /\ c.token = call[s].token /\ c.text = Clip[resident.text]
        BY <1>0 DEF TypeOK, Call
      <3>3. resident.text = Settled(resident.head) /\ resident.head # {}
        BY <2>1, <2>3 DEF Fitting, CallsFit, Editable
      <3> HIDE DEF c
      <3>4. call'[s] = c /\ \A z \in Sessions : z # s => call'[z] = call[z]
        BY <3>1
      <3>5. CallKeeps(s) /\ \A z \in Sessions : z # s => CallLeaves(z)
        BY <2>1, <2>3, <3>2, <3>3, <3>4 DEF CallKeeps, CallLeaves
      <3> QED BY <1>1, <2>1, <3>5
    <2> QED BY <1>9, <2>2, <2>3 DEF Compose
  <1>10. CASE Target(s)
    <2>1. UNCHANGED <<store, late, resident, torn, sess>> /\ call[s].step = "target"
          /\ (client' = client \/ Accept(s)) /\ (Finish(s) \/ Continue(s, "author"))
      BY <1>10 DEF Target
    <2>2. ASSUME Continue(s, "author")
          PROVE  (\A z \in Sessions : z # s => CallLeaves(z)) /\ CallKeeps(s)
      <3>1. "author" \in Steps
        BY DEF Steps
      <3>2. call[s].kind = "clip" => call[s].token # {} /\ call[s].text = Clip[Settled(call[s].token)]
        BY <2>1 DEF Fitting, CallsFit
      <3> QED BY <1>0, <2>1, <2>2, <3>1, <3>2, TokenGoesOn DEF CallKeeps
    <2>3. (\A z \in Sessions : z # s => CallLeaves(z)) /\ (CallLeaves(s) \/ CallKeeps(s))
      BY <1>0, <2>1, <2>2, TokenGoesOn
    <2> QED BY <1>1, <1>4, <2>1, <2>3
  <1>11. CASE InstallSave(s)
    <2>1. UNCHANGED <<store, late, sess, client, torn>> /\ resident' = Installed /\ Continue(s, "saved")
      BY <1>11 DEF InstallSave
    <2> QED BY <1>3, <2>1, FitInstall
  <1>12. CASE Read(s)
    <2> DEFINE asked == call[s].kind \in {"snapshot", "resume"}
               next == [sess[s] EXCEPT !.snap = Built(s),
                                       !.announced = IF asked THEN sess[s].rev ELSE @]
               told == [client[s] EXCEPT !.view = Built(s), !.bell = FALSE]
    <2>1. UNCHANGED <<store, late, resident, torn>> /\ sess' = [sess EXCEPT ![s] = next]
          /\ (client' = [client EXCEPT ![s] = told] \/ client' = client) /\ Finish(s)
      BY <1>0, <1>12 DEF Read
    <2>2. next.snap = Built(s)
      BY <1>0 DEF Session
    <2>3. told.view = Built(s) /\ told.draft = client[s].draft
      BY <1>0 DEF Client
    <2> HIDE DEF next, told
    <2>4. /\ sess'[s] = next /\ client'[s] \in {told, client[s]}
          /\ \A z \in Sessions : z # s => sess'[z] = sess[z] /\ client'[z] = client[z]
      BY <1>0, <2>1
    <2>5. \A z \in Sessions : CallLeaves(z)
      BY <1>0, <2>1, TokenGoesOn
    <2> QED BY <1>1, <2>1, <2>2, <2>3, <2>4, <2>5
  <1> QED
    BY <1>5, <1>6, <1>7, <1>8, <1>9, <1>10, <1>11, <1>12, AuthorFitting DEF Answer

\* Every step of a client keeps texts and tokens together.
LEMMA AskFitting ==
  ASSUME Fitting, Order', NEW s \in Sessions, Ask(s)
  PROVE  Fitting'
  <1>0. TypeOK /\ Stood({})
    BY DEF Fitting, Order, Typing, Stood
  <1>1. ASSUME NEW request, Begin(s, request), request.step = "observe", Stood(request.token)
        PROVE  Fitting'
    <2>1. UNCHANGED <<store, late, sess, client, torn>> /\ resident' = Installed
          /\ call' = [call EXCEPT ![s] = request]
      BY <1>1 DEF Begin
    <2>2. \A z \in Sessions : call'[z] = IF z = s THEN request ELSE call[z]
      BY <1>0, <2>1 DEF TypeOK
    <2>3. \A z \in Sessions : CallLeaves(z) \/ (call'[z].step = "observe" /\ Stood(call'[z].token))
      BY <1>1, <2>2 DEF CallLeaves
    <2> QED BY <2>1, <2>3, FitInstall
  <1>2. Stood(client[s].draft) /\ Stood(client[s].view.token)
    BY DEF Fitting, TokensStood
  <1>3. CASE Mount(s)
    BY <1>0, <1>1, <1>3 DEF Mount, Request
  <1>4. CASE Poll(s)
    BY <1>0, <1>1, <1>4 DEF Poll, Request
  <1>5. CASE Resume(s)
    BY <1>0, <1>1, <1>5 DEF Resume, Request
  <1>6. ASSUME NEW t \in Typed[s], Save(s, t) PROVE Fitting'
    <2> DEFINE r == [Request("save") EXCEPT !.ack = client[s].view.rev,
                                            !.token = client[s].draft, !.text = t]
    <2>1. r.step = "observe" /\ r.token = client[s].draft /\ Begin(s, r)
      BY <1>6 DEF Save, Request
    <2> QED BY <1>1, <1>2, <2>1
  <1>7. CASE InsertClip(s)
    <2> DEFINE r == [Request("clip") EXCEPT !.ack = client[s].view.rev,
                                            !.token = client[s].view.token]
    <2>1. r.step = "observe" /\ r.token = client[s].view.token /\ Begin(s, r)
      BY <1>7 DEF InsertClip, Request
    <2> QED BY <1>1, <1>2, <2>1
  <1>8. CASE Edit(s)
    <2>1. /\ UNCHANGED <<store, late, resident, sess, call, torn>>
          /\ client' = [client EXCEPT ![s] = [client[s] EXCEPT !.draft = client[s].view.token]]
      BY <1>8 DEF Edit
    <2>2. \A z \in Sessions : /\ client'[z].view = client[z].view
                              /\ client'[z].draft \in {client[z].draft, client[z].view.token}
      BY <1>0, <2>1 DEF TypeOK, Client
    <2>3. \A z \in Sessions : CallLeaves(z)
      BY <2>1 DEF CallLeaves
    <2> QED BY <2>1, <2>2, <2>3, FitQuiet
  <1> QED
    BY <1>3, <1>4, <1>5, <1>6, <1>7, <1>8 DEF Ask, Look

\* Every step keeps texts and tokens together.
LEMMA NextFitting == Replaced /\ Fitting /\ [Next]_vars => Fitting'
  <1> SUFFICES ASSUME Replaced, Fitting, [Next]_vars PROVE Fitting'
    OBVIOUS
  <1>0. Order' /\ TypeOK
    BY NextReplaced DEF Replaced, Fitting, Order, Typing
  <1>1. ASSUME UNCHANGED <<store, late, sess, client>>, resident' \in FailedInstalls,
               torn' = (torn \/ resident' \in HalfInstalled),
               \A z \in Sessions : CallLeaves(z)
        PROVE  Fitting'
    <2>1. CASE resident' \in {Installed} \cup HalfInstalled
      BY <1>0, <1>1, <2>1, FitInstall
    <2>2. CASE resident' = resident /\ resident' \notin HalfInstalled
      <3>1. torn' = torn
        BY <1>0, <1>1, <2>2 DEF TypeOK
      <3> QED BY <1>0, <1>1, <2>2, <3>1, FitQuiet
    <2> QED BY <1>1, <2>1, <2>2 DEF FailedInstalls
  <1>2. ASSUME NEW s \in Sessions, BeginFails(s) PROVE Fitting'
    BY <1>1, <1>2 DEF BeginFails, CallLeaves
  <1>3. ASSUME NEW s \in Sessions, InstallSaveFails(s) PROVE Fitting'
    BY <1>0, <1>1, <1>3, TokenGoesOn DEF InstallSaveFails
  <1>4. CASE UNCHANGED vars
    BY <1>0, <1>4, FitQuiet DEF vars, CallLeaves
  <1> QED
    BY <1>0, <1>2, <1>3, <1>4, StoreFitting, AskFitting, AnswerFitting DEF Next

\* Texts and tokens are together initially.
LEMMA InitFitting == Init => Fitting
  <1> SUFFICES ASSUME Init PROVE Fitting
    OBVIOUS
  <1>0. Order /\ TypeOK
    BY InitReplaced DEF Replaced, Order, Typing
  <1>1. Known = {1} /\ store[1] = RemoteVersion(First, {}) /\ late = {}
    BY DEF Init, Known
  <1>2. store[1].past = {} /\ store[1].by = Remote /\ store[1].text = First /\ ~store[1].clipped
    BY <1>1 DEF RemoteVersion
  <1>3. resident.head = {1} /\ resident.seen = {1} /\ resident.text = First
    BY DEF Init
  <1>4. FirstIsFirst /\ Closed = {1}
    BY <1>1, <1>2 DEF FirstIsFirst, Closed
  <1>5. SeenHeads = {1}
    BY <1>2, <1>3 DEF SeenHeads, HeadsOf
  <1>6. Settled({1}) = First
    <2>1. {store[x].text : x \in {1}} = {First}
      BY <1>2
    <2>2. Cardinality({First}) = 1
      BY FS_Singleton
    <2>3. Settled({1}) = SaidBy({store[x].text : x \in {1}}, store[MergeBase({1})].text)
      BY DEF Settled, SaidBy
    <2> QED BY <2>1, <2>2, <2>3 DEF SaidBy
  <1>7. First # NoText
    BY EndpointAssumption
  <1>8. SeenIsWhole
    BY <1>2, <1>3, <1>4, <1>5, <1>6, <1>7 DEF SeenIsWhole
  <1>9. ASSUME NEW s \in Sessions
        PROVE  /\ client[s].view = NoView /\ client[s].draft = {} /\ sess[s].snap = NoView
               /\ call[s].token = {} /\ call[s].step = "idle"
    BY DEF Init, Idle, Request
  <1>10. NoView.text = NoText /\ NoView.token = {}
    BY DEF NoView
  <1>11. TokensStood /\ CallsFit
    BY <1>9, <1>10 DEF TokensStood, Stood, CallsFit
  <1>12. TextsFit
    BY <1>3, <1>6, <1>9, <1>10 DEF TextsFit
  <1>13. ClipsFit
    BY <1>1, <1>2 DEF ClipsFit
  <1> QED
    BY <1>0, <1>4, <1>8, <1>11, <1>12, <1>13 DEF Fitting

\* Until an install stops half way, whatever a client shows was said by the very
\* versions its token lets it replace, through conflicts, merges and late
\* events, whoever refreshed the resident in between.
THEOREM TextsFitTokens == Spec => []TextFitsToken
  <1>1. Fitting => TextFitsToken
    BY DEF Fitting, TextsFit, TextFitsToken
  <1> QED
    BY <1>1, InitReplaced, NextReplaced, InitFitting, NextFitting, PTL DEF Spec

\* A clip never drops what was saved while it was composed: its save replaces
\* exactly the versions whose text it was appended to, even after an install
\* that stopped half way.
THEOREM ClipsKeepText == Spec => []ClipKeepsText
  <1>1. Fitting => ClipKeepsText
    BY DEF Fitting, ClipsFit, ClipKeepsText
  <1> QED
    BY <1>1, InitReplaced, NextReplaced, InitFitting, NextFitting, PTL DEF Spec

=============================================================================
