--------------------------- MODULE KnotSyncProofs ---------------------------
(***************************************************************************)
(* What is proved of KnotSync, for every set of writers, documents and     *)
(* contents and every bound.                                               *)
(***************************************************************************)
EXTENDS KnotSync, FiniteSetTheorems, TLAPS

-----------------------------------------------------------------------------
(* Types and logs *)

\* The types alone are not inductive: the past of a new event is taken from
\* the heads its author has stored, which must be events.
Logs == TypeOK /\ LogsArePrefixes

\* The logs start empty and well typed.
LEMMA InitLogs == Init => Logs
  <1> SUFFICES ASSUME Init PROVE Logs
    OBVIOUS
  <1>1. NothingStored \in Cut
    BY ConstantsAssumption DEF NothingStored, Cut
  <1>2. NoVersions \in Current
    BY <1>1 DEF NoVersions, Current
  <1>3. FirstEpoch \in [Writers -> 1..MaxEpoch] /\ MaxDenials \in Nat
    BY ConstantsAssumption
  <1>4. TypeOK
    BY <1>1, <1>2, <1>3 DEF Init, TypeOK, Idle, NothingShown, Projection, Shown
  <1>5. LogsArePrefixes
    <2>1. \A r, w \in Writers : have[r][w] = 0 /\ proj[r].cut[w] = 0
      BY DEF Init, NothingStored, Idle
    <2>2. \A x \in Id : op[x] = NoEvent /\ x[1] \in Writers /\ x[2] \in 1..MaxSeq
      BY DEF Init, Id
    <2> QED BY <2>1, <2>2 DEF LogsArePrefixes
  <1> QED
    BY <1>4, <1>5 DEF Logs

\* What an Author step does, in the terms the rest of the proof needs: e is
\* the new event, next in r's log and after all that r has stored.
NewEvent(r, kind, d, names, e) ==
  /\ e.kind = kind /\ e.doc = d /\ e.names = names
  /\ e.past = UNION {{p} \cup op[p].past : p \in Frontier(r)}
  /\ e # NoEvent
  /\ <<r, have[r][r] + 1>> \in Id
  /\ op[<<r, have[r][r] + 1>>] = NoEvent
  /\ op' = [op EXCEPT ![<<r, have[r][r] + 1>>] = e]
  /\ have' = [have EXCEPT ![r] = [have[r] EXCEPT ![r] = have[r][r] + 1]]
  /\ Cardinality(Frontier(r)) <= MaxParents
  /\ UNCHANGED <<admitted, denials, epochAt, proj, shown>>

\* What authoring changes: one event appended to the author's own log.
LEMMA AuthorStep ==
  ASSUME Logs, NEW r \in Writers, NEW kind \in {"put", "resolve"}, NEW d \in Docs,
         NEW body \in Contents \cup {Deleted}, NEW names \in SUBSET Id,
         Author(r, kind, d, body, names)
  PROVE  \E e \in Event : NewEvent(r, kind, d, names, e)
  <1> DEFINE x == <<r, have[r][r] + 1>>
             past == UNION {{p} \cup op[p].past : p \in Frontier(r)}
             e == [kind |-> kind, doc |-> d, body |-> body, names |-> names,
                   past |-> past, epoch |-> epochAt[r]]
  <1>0. MaxSeq \in Nat
    BY ConstantsAssumption
  <1>1. have[r][r] \in 0..MaxSeq /\ have[r][r] < MaxSeq
    BY DEF Logs, TypeOK, Cut, Author
  <1>2. x \in Id /\ x[1] = r /\ x[2] = have[r][r] + 1
    BY <1>0, <1>1 DEF Id
  <1>3. op[x] = NoEvent
    BY <1>0, <1>1, <1>2 DEF Logs, LogsArePrefixes
  <1>4. past \in SUBSET Id
    <2>1. ASSUME NEW p \in Frontier(r) PROVE {p} \cup op[p].past \subseteq Id
      <3>1. p \in Id /\ p[1] \in Writers /\ p[2] \in Nat /\ p[2] = have[r][p[1]]
        BY DEF Frontier, Id
      <3>2. have[r][p[1]] <= have[p[1]][p[1]]
        BY <3>1 DEF Logs, LogsArePrefixes
      <3>3. op[p] # NoEvent
        BY <3>1, <3>2 DEF Logs, LogsArePrefixes
      <3>4. op[p] \in Event
        BY <3>1, <3>3 DEF Logs, TypeOK
      <3> QED
        BY <3>1, <3>4 DEF Event
    <2> QED BY <2>1
  <1>5. epochAt[r] \in 1..MaxEpoch
    BY DEF Logs, TypeOK
  <1>6. e \in Event
    BY <1>4, <1>5 DEF Event
  <1>7. e # NoEvent
    <2>1. e.kind # NoEvent.kind
      BY DEF NoEvent
    <2> QED BY <2>1
  <1>8. /\ op' = [op EXCEPT ![x] = e]
        /\ have' = [have EXCEPT ![r] = [have[r] EXCEPT ![r] = have[r][r] + 1]]
        /\ Cardinality(Frontier(r)) <= MaxParents
        /\ UNCHANGED <<admitted, denials, epochAt, proj, shown>>
    BY DEF Author, Logs, TypeOK
  <1>9. e.kind = kind /\ e.doc = d /\ e.names = names /\ e.past = past
    OBVIOUS
  <1> QED
    BY <1>2, <1>3, <1>6, <1>7, <1>8, <1>9 DEF NewEvent

\* An appended event keeps the logs typed and every replica a prefix.
LEMMA NewEventLogs ==
  ASSUME Logs, NEW r \in Writers, NEW kind, NEW d, NEW names, NEW e \in Event,
         NewEvent(r, kind, d, names, e)
  PROVE  Logs'
  <1> DEFINE x == <<r, have[r][r] + 1>>
  <1> USE DEF NewEvent
  <1>0. MaxSeq \in Nat
    BY ConstantsAssumption
  <1>1. x[2] = have[r][r] + 1 /\ have[r][r] + 1 \in 0..MaxSeq
    BY DEF Id
  <1>2. have' \in [Writers -> Cut]
    BY <1>0, <1>1 DEF Logs, TypeOK, Cut
  <1>3. op' \in [Id -> Event \cup {NoEvent}]
    BY DEF Logs, TypeOK
  <1>4. TypeOK'
    BY <1>2, <1>3 DEF Logs, TypeOK
  <1>5. \A s, w \in Writers :
          have'[s][w] = IF s = r /\ w = r THEN have[r][r] + 1 ELSE have[s][w]
    BY DEF Logs, TypeOK, Cut
  <1>6. \A s, w \in Writers : have[s][w] \in Nat /\ have[s][w] <= have[w][w]
    BY DEF Logs, TypeOK, Cut, LogsArePrefixes
  <1>7. \A s, w \in Writers : have'[s][w] <= have'[w][w]
    BY <1>5, <1>6
  <1>8. ASSUME NEW y \in Id
        PROVE  op'[y] # NoEvent <=> y[2] <= have'[y[1]][y[1]]
    <2>1. y = <<y[1], y[2]>> /\ y[1] \in Writers /\ y[2] \in Nat
      BY DEF Id
    <2>2. CASE y = x
      BY <2>1, <2>2, <1>5, <1>1 DEF Logs, TypeOK
    <2>3. CASE y # x /\ y[1] = r
      <3>1. op'[y] = op[y] /\ y[2] # have[r][r] + 1
        BY <2>1, <2>3 DEF Logs, TypeOK
      <3>2. op[y] # NoEvent <=> y[2] <= have[r][r]
        BY <2>3 DEF Logs, LogsArePrefixes
      <3> QED
        BY <2>1, <2>3, <3>1, <3>2, <1>5, <1>6
    <2>4. CASE y[1] # r
      <3>1. op'[y] = op[y]
        BY <2>4 DEF Logs, TypeOK
      <3> QED
        BY <2>1, <2>4, <3>1, <1>5 DEF Logs, LogsArePrefixes
    <2> QED BY <2>2, <2>3, <2>4
  <1>9. \A s, w \in Writers : proj'[s].cut[w] <= have'[s][w]
    <2>1. \A s, w \in Writers : proj[s].cut[w] \in Nat /\ proj[s].cut[w] <= have[s][w]
      BY DEF Logs, TypeOK, Projection, Cut, LogsArePrefixes
    <2> QED BY <2>1, <1>5, <1>6
  <1> QED
    BY <1>4, <1>7, <1>8, <1>9 DEF Logs, LogsArePrefixes

\* Every authoring action is an Author step.
LEMMA AuthorLogs ==
  ASSUME Logs, NEW r \in Writers, NEW d \in Docs, NEW body \in Contents \cup {Deleted},
         \/ AuthorPut(r, d, body)
         \/ AuthorDelete(r, d)
         \/ ResolveConflict(r, d, body)
  PROVE  \E e \in Event :
           \/ NewEvent(r, "put", d, {}, e)
           \/ /\ d \in shown[r].conflicts
              /\ NewEvent(r, "resolve", d, Versions(shown[r].versions, d), e)
  <1>1. CASE AuthorPut(r, d, body)
    <2>1. Author(r, "put", d, body, {})
      BY <1>1 DEF AuthorPut
    <2> QED BY <2>1, AuthorStep
  <1>2. CASE AuthorDelete(r, d)
    <2>1. Author(r, "put", d, Deleted, {})
      BY <1>2 DEF AuthorDelete
    <2> QED BY <2>1, AuthorStep
  <1>3. CASE ResolveConflict(r, d, body)
    <2>1. /\ d \in shown[r].conflicts
          /\ Author(r, "resolve", d, body, Versions(shown[r].versions, d))
      BY <1>3 DEF ResolveConflict
    <2>2. Versions(shown[r].versions, d) \in SUBSET Id
      BY DEF Versions
    <2> QED BY <2>1, <2>2, AuthorStep
  <1> QED BY <1>1, <1>2, <1>3

\* Folding an event leaves a cut: at most one version per writer.
LEMMA RetainedType ==
  ASSUME TypeOK, NEW r \in Writers, NEW x \in Id, op[x] \in Event
  PROVE  Retained(r, x) \in Cut
  <1>1. proj[r].current[op[x].doc] \in Cut
    BY DEF TypeOK, Projection, Current, Event
  <1>2. x[1] \in Writers /\ x[2] \in 0..MaxSeq
    BY ConstantsAssumption DEF Id
  <1>3. MaxSeq \in Nat
    BY ConstantsAssumption
  <1> QED
    BY <1>1, <1>2, <1>3 DEF Retained, Cut

\* The events a projection can reach are authored.
LEMMA ReadyIsEvent ==
  ASSUME Logs, NEW r \in Writers, NEW x \in Id, Ready(r, x)
  PROVE  op[x] \in Event
  <1>1. x[1] \in Writers /\ x[2] \in Nat /\ x[2] <= proj[r].cut[x[1]]
    BY DEF Ready, Closed, Stored, Id
  <1>2. /\ proj[r].cut[x[1]] \in Nat /\ have[r][x[1]] \in Nat
        /\ have[x[1]][x[1]] \in Nat
    BY <1>1 DEF Logs, TypeOK, Projection, Cut
  <1>3. x[2] <= have[x[1]][x[1]]
    BY <1>1, <1>2 DEF Logs, LogsArePrefixes
  <1> QED
    BY <1>3 DEF Logs, LogsArePrefixes, TypeOK

\* A projection with one part replaced is still one.
LEMMA ProjectionUpdate ==
  ASSUME NEW p \in Projection
  PROVE  /\ \A phase \in {"idle", "load", "fold", "undecodable", "invalid"} :
              /\ [p EXCEPT !.phase = phase] \in Projection
              /\ [p EXCEPT !.phase = phase].cut = p.cut
         /\ \A left \in SUBSET Writers :
              /\ [p EXCEPT !.phase = "load", !.left = left] \in Projection
              /\ [p EXCEPT !.phase = "load", !.left = left].cut = p.cut
         /\ \A done \in SUBSET Id :
              /\ [p EXCEPT !.done = done] \in Projection
              /\ [p EXCEPT !.done = done].cut = p.cut
  BY DEF Projection

\* The projection that has not started is one.
LEMMA IdleType ==
  /\ Idle \in Projection
  /\ \A w \in Writers : Idle.cut[w] = 0
  /\ Idle.done = {} /\ Idle.current = NoVersions /\ Idle.phase = "idle"
  <1>1. NothingStored \in Cut
    BY ConstantsAssumption DEF NothingStored, Cut
  <1>2. NoVersions \in Current
    BY <1>1 DEF NoVersions, Current
  <1> QED BY <1>1, <1>2 DEF Idle, NothingStored, Projection

\* A step of a projection replaces proj[r], leaves the history, the logs and
\* the keys alone, and reads at most what is stored.
LEMMA ProjectLogs ==
  ASSUME Logs, NEW r \in Writers, Project(r)
  PROVE  Logs' /\ UNCHANGED <<op, have, admitted, denials, epochAt>>
  <1> DEFINE Reads(p) == p \in Projection /\ \A w \in Writers : p.cut[w] <= have[r][w]
             Same == UNCHANGED <<op, have, admitted, denials, epochAt>>
  <1>0. MaxSeq \in Nat
    BY ConstantsAssumption
  <1>1. /\ Reads(proj[r])
        /\ proj[r] \in Projection /\ proj[r].cut \in Cut /\ proj[r].done \in SUBSET Id
        /\ proj[r].left \in SUBSET Writers /\ proj[r].current \in Current
        /\ have[r] \in Cut
    BY DEF Logs, TypeOK, LogsArePrefixes, Projection
  <1>2. Reads(Idle)
    BY <1>0, <1>1, IdleType DEF Cut
  <1>3. SUFFICES /\ \E p : Reads(p) /\ proj' = [proj EXCEPT ![r] = p]
                 /\ shown' \in [Writers -> Shown]
                 /\ Same
    <2> PICK p : Reads(p) /\ proj' = [proj EXCEPT ![r] = p]
      BY <1>3
    <2>1. proj \in [Writers -> Projection]
      BY DEF Logs, TypeOK
    <2>2. proj' \in [Writers -> Projection]
      BY <2>1
    <2>3. \A s, w \in Writers : proj'[s].cut[w] <= have[s][w]
      BY <2>1 DEF Logs, LogsArePrefixes
    <2>4. TypeOK'
      BY <1>3, <2>2 DEF Logs, TypeOK
    <2>5. LogsArePrefixes'
      BY <1>3, <2>3 DEF Logs, LogsArePrefixes
    <2> QED BY <1>3, <2>4, <2>5 DEF Logs
  <1>4. UNCHANGED shown => shown' \in [Writers -> Shown]
    BY DEF Logs, TypeOK
  <1>5. CASE BeginProjection(r)
    <2>1. Reads([Idle EXCEPT !.phase = "load", !.left = Writers])
      BY <1>2, ProjectionUpdate
    <2> QED BY <1>4, <1>5, <2>1 DEF BeginProjection
  <1>6. ASSUME NEW w \in Writers, LoadLog(r, w)
        PROVE  /\ \E p : Reads(p) /\ proj' = [proj EXCEPT ![r] = p]
               /\ shown' \in [Writers -> Shown] /\ Same
    <2> DEFINE cut == [proj[r].cut EXCEPT ![w] = have[r][w]]
               left == proj[r].left \ {w}
               new == [proj[r] EXCEPT !.left = left, !.cut = cut]
    <2>1. cut \in Cut /\ \A u \in Writers : cut[u] <= have[r][u]
      BY <1>0, <1>1 DEF Cut
    <2>2. new \in Projection /\ new.cut = cut
      <3>1. left \in SUBSET Writers
        BY <1>1
      <3> HIDE DEF cut, left
      <3> QED BY <3>1, <1>1, <2>1 DEF Projection
    <2>3. proj' = [proj EXCEPT ![r] = new]
      BY <1>6 DEF LoadLog
    <2> QED BY <1>4, <1>6, <2>1, <2>2, <2>3 DEF LoadLog
  <1>7. CASE DecodeEvents(r)
    <2> DEFINE phase == IF Tolerant \/ \A x \in Closed(proj[r].cut) : Decodable(r, x)
                        THEN "fold" ELSE "undecodable"
    <2>1. Reads([proj[r] EXCEPT !.phase = phase])
      <3>1. phase \in {"idle", "load", "fold", "undecodable", "invalid"}
        OBVIOUS
      <3> HIDE DEF phase
      <3> QED BY <1>1, <3>1, ProjectionUpdate
    <2>2. proj' = [proj EXCEPT ![r] = [proj[r] EXCEPT !.phase = phase]]
      BY <1>7 DEF DecodeEvents
    <2> QED BY <1>4, <1>7, <2>1, <2>2 DEF DecodeEvents
  <1>8. ASSUME NEW x \in Id, FoldEvent(r, x)
        PROVE  /\ \E p : Reads(p) /\ proj' = [proj EXCEPT ![r] = p]
               /\ shown' \in [Writers -> Shown] /\ Same
    <2> DEFINE current == [proj[r].current EXCEPT ![op[x].doc] = Retained(r, x)]
               done == proj[r].done \cup {x}
               new == [proj[r] EXCEPT !.done = done, !.current = current]
    <2>1. op[x] \in Event
      BY <1>8, ReadyIsEvent DEF FoldEvent
    <2>2. Retained(r, x) \in Cut
      BY <2>1, RetainedType DEF Logs
    <2>3. current \in Current /\ done \in SUBSET Id
      BY <1>1, <2>2 DEF Current
    <2>4. new \in Projection /\ new.cut = proj[r].cut
      <3> HIDE DEF current, done
      <3> QED BY <1>1, <2>3 DEF Projection
    <2>5. proj' = [proj EXCEPT ![r] = new]
      BY <1>8 DEF FoldEvent
    <2> QED BY <1>1, <1>4, <1>8, <2>4, <2>5 DEF FoldEvent
  <1>9. ASSUME NEW x \in Id, FoldUndecodable(r, x)
        PROVE  /\ \E p : Reads(p) /\ proj' = [proj EXCEPT ![r] = p]
               /\ shown' \in [Writers -> Shown] /\ Same
    <2>1. proj[r].done \cup {x} \in SUBSET Id
      BY <1>1
    <2>2. Reads([proj[r] EXCEPT !.done = proj[r].done \cup {x}])
      BY <1>1, <2>1, ProjectionUpdate
    <2>3. proj' = [proj EXCEPT ![r] = [proj[r] EXCEPT !.done = proj[r].done \cup {x}]]
      BY <1>9 DEF FoldUndecodable
    <2> QED BY <1>4, <1>9, <2>2, <2>3 DEF FoldUndecodable
  <1>10. ASSUME NEW x \in Id, FailResolution(r, x)
         PROVE  /\ \E p : Reads(p) /\ proj' = [proj EXCEPT ![r] = p]
                /\ shown' \in [Writers -> Shown] /\ Same
    <2>1. Reads([proj[r] EXCEPT !.phase = "invalid"])
      BY <1>1, ProjectionUpdate
    <2>2. proj' = [proj EXCEPT ![r] = [proj[r] EXCEPT !.phase = "invalid"]]
      BY <1>10 DEF FailResolution
    <2> QED BY <1>4, <1>10, <2>1, <2>2 DEF FailResolution
  <1>11. CASE ReportFailure(r)
    BY <1>2, <1>4, <1>11 DEF ReportFailure
  <1>12. CASE FinishProjection(r)
    <2> PICK conflicts \in SUBSET Docs :
          shown' = [shown EXCEPT ![r] = [versions |-> proj[r].current,
                                         conflicts |-> conflicts,
                                         seen |-> Decoded(r)]]
      BY <1>12 DEF FinishProjection
    <2>1. [versions |-> proj[r].current, conflicts |-> conflicts, seen |-> Decoded(r)]
            \in Shown
      BY <1>1 DEF Shown, Decoded
    <2>2. shown' \in [Writers -> Shown]
      BY <2>1 DEF Logs, TypeOK
    <2> QED BY <1>2, <1>12, <2>2 DEF FinishProjection
  <1> QED
    BY <1>5, <1>6, <1>7, <1>8, <1>9, <1>10, <1>11, <1>12 DEF Project

\* An event that arrives is the next of its log: nothing else moves.
LEMMA AcceptLogs ==
  ASSUME Logs, NEW r \in Writers, NEW w \in Writers, Accept(r, w)
  PROVE  /\ Logs'
         /\ UNCHANGED <<op, admitted, denials, epochAt, proj, shown>>
         /\ \A s, u \in Writers : have[s][u] <= have'[s][u]
  <1>0. MaxSeq \in Nat
    BY ConstantsAssumption
  <1>1. \A s, u \in Writers : /\ have[s][u] \in 0..MaxSeq
                              /\ have[s][u] <= have[u][u]
                              /\ proj[s].cut[u] \in 0..MaxSeq
                              /\ proj[s].cut[u] <= have[s][u]
    BY DEF Logs, TypeOK, Projection, Cut, LogsArePrefixes
  <1>2. \A s, u \in Writers :
          have'[s][u] = IF s = r /\ u = w THEN have[r][w] + 1 ELSE have[s][u]
    BY DEF Accept, Logs, TypeOK, Cut
  <1>3. r # w /\ have[r][w] < have[w][w]
    <2> PICK s \in Writers : have[s][w] > have[r][w]
      BY DEF Accept
    <2>1. have[r][w] < have[w][w]
      BY <1>0, <1>1
    <2> QED BY <2>1, <1>1
  <1>4. have' \in [Writers -> Cut]
    <2>1. have[r][w] + 1 \in 0..MaxSeq
      BY <1>0, <1>1, <1>3
    <2> QED BY <2>1 DEF Accept, Logs, TypeOK, Cut
  <1>5. TypeOK'
    BY <1>4 DEF Accept, Logs, TypeOK
  <1>6. \A u \in Writers : have'[u][u] = have[u][u]
    BY <1>2, <1>3
  <1>7. \A s, u \in Writers : /\ have[s][u] <= have'[s][u]
                              /\ have'[s][u] <= have[u][u]
                              /\ proj[s].cut[u] <= have'[s][u]
    BY <1>0, <1>1, <1>2, <1>3
  <1>8. \A x \in Id : x[1] \in Writers
    BY DEF Id
  <1>9. LogsArePrefixes'
    BY <1>6, <1>7, <1>8 DEF Accept, Logs, LogsArePrefixes
  <1> QED
    BY <1>5, <1>7, <1>9 DEF Accept, Logs

\* Admission and keys concern no log.
LEMMA PolicyLogs ==
  ASSUME Logs, NEW r \in Writers, NEW w \in Writers,
         AdmitWriter(r, w) \/ DenyWriter(r, w) \/ LearnEpoch(r)
  PROVE  Logs' /\ UNCHANGED <<op, have, proj, shown>>
  <1>0. MaxDenials \in Nat /\ MaxEpoch \in Nat
    BY ConstantsAssumption
  <1>1. CASE AdmitWriter(r, w)
    BY <1>1 DEF AdmitWriter, Logs, TypeOK, LogsArePrefixes
  <1>2. CASE DenyWriter(r, w)
    BY <1>0, <1>2 DEF DenyWriter, Logs, TypeOK, LogsArePrefixes
  <1>3. CASE LearnEpoch(r)
    BY <1>0, <1>3 DEF LearnEpoch, Logs, TypeOK, LogsArePrefixes
  <1> QED BY <1>1, <1>2, <1>3

\* Every step keeps the logs: one case per action.
LEMMA StepLogs == Logs /\ [Next]_vars => Logs'
  <1> SUFFICES ASSUME Logs, [Next]_vars PROVE Logs'
    OBVIOUS
  <1>1. ASSUME NEW r \in Writers, NEW d \in Docs, NEW body \in Contents \cup {Deleted},
               \/ AuthorPut(r, d, body)
               \/ AuthorDelete(r, d)
               \/ ResolveConflict(r, d, body)
        PROVE  Logs'
    BY <1>1, AuthorLogs, NewEventLogs
  <1>2. ASSUME NEW r \in Writers, NEW w \in Writers,
               Accept(r, w) \/ AdmitWriter(r, w) \/ DenyWriter(r, w) \/ LearnEpoch(r)
        PROVE  Logs'
    BY <1>2, AcceptLogs, PolicyLogs
  <1>3. ASSUME NEW r \in Readers, Project(r) PROVE Logs'
    BY <1>3, ConstantsAssumption, ProjectLogs
  <1>4. CASE UNCHANGED vars
    BY <1>4 DEF vars, Logs, TypeOK, LogsArePrefixes
  <1> QED
    BY <1>1, <1>2, <1>3, <1>4 DEF Next

\* Every variable keeps its type: events are well formed, and no log, cut,
\* fold or shown version leaves its bounds.
THEOREM TypeCorrect == Spec => []TypeOK
  <1>1. Logs => TypeOK
    BY DEF Logs
  <1> QED
    BY <1>1, InitLogs, StepLogs, PTL DEF Spec

-----------------------------------------------------------------------------
(* The causal order *)

\* What a replica has stored has been authored.
LEMMA StoredIsAuthored ==
  ASSUME Logs, NEW r \in Writers
  PROVE  /\ Stored(have[r]) \subseteq Authored
         /\ Stored(proj[r].cut) \subseteq Stored(have[r])
         /\ Frontier(r) \subseteq Stored(have[r])
  <1>1. ASSUME NEW x \in Id
        PROVE  /\ x[1] \in Writers /\ x[2] \in 1..MaxSeq
               /\ have[r][x[1]] \in Nat /\ have[x[1]][x[1]] \in Nat
               /\ proj[r].cut[x[1]] \in Nat
               /\ have[r][x[1]] <= have[x[1]][x[1]]
               /\ proj[r].cut[x[1]] <= have[r][x[1]]
    <2>1. x[1] \in Writers /\ x[2] \in 1..MaxSeq
      BY DEF Id
    <2> QED BY <2>1 DEF Logs, TypeOK, Projection, Cut, LogsArePrefixes
  <1>2. ASSUME NEW x \in Stored(have[r]) PROVE x \in Authored
    <2>1. x \in Id /\ x[2] <= have[r][x[1]]
      BY DEF Stored
    <2>2. x[2] <= have[x[1]][x[1]]
      BY <2>1, <1>1
    <2> QED BY <2>1, <2>2 DEF Authored, Logs, LogsArePrefixes
  <1>3. ASSUME NEW x \in Stored(proj[r].cut) PROVE x \in Stored(have[r])
    <2>1. x \in Id /\ x[2] <= proj[r].cut[x[1]]
      BY DEF Stored
    <2> QED BY <2>1, <1>1 DEF Stored
  <1>4. ASSUME NEW x \in Frontier(r) PROVE x \in Stored(have[r])
    BY <1>1 DEF Frontier, Stored
  <1> QED BY <1>2, <1>3, <1>4

\* An authored event has all the fields of one.
LEMMA AuthoredIsEvent ==
  ASSUME TypeOK, NEW x \in Authored
  PROVE  op[x] \in Event
  BY DEF TypeOK, Authored

\* A new event comes after all that its author has stored, and after what that
\* came after; it is new, and the events there were stay as they are.
LEMMA NewEventPast ==
  ASSUME Logs, HistoryIsCausal,
         NEW r \in Writers, NEW kind, NEW d, NEW names, NEW e \in Event,
         NewEvent(r, kind, d, names, e),
         NEW x, x = <<r, have[r][r] + 1>>
  PROVE  /\ x \notin Authored
         /\ Authored' = Authored \cup {x}
         /\ op'[x] = e
         /\ \A y \in Id \ {x} : op'[y] = op[y]
         /\ \A y \in e.past : y \in Authored /\ op[y].past \subseteq e.past
         /\ Stored(have[r]) \subseteq e.past
  <1>1. x \in Id /\ op[x] = NoEvent /\ e # NoEvent /\ op' = [op EXCEPT ![x] = e]
        /\ e.past = UNION {{p} \cup op[p].past : p \in Frontier(r)}
    BY DEF NewEvent
  <1>2. op \in [Id -> Event \cup {NoEvent}]
    BY DEF Logs, TypeOK
  <1>3. op'[x] = e /\ \A y \in Id \ {x} : op'[y] = op[y]
    BY <1>1, <1>2
  <1>4. x \notin Authored /\ Authored' = Authored \cup {x}
    BY <1>1, <1>3 DEF Authored
  <1>5. ASSUME NEW y \in e.past PROVE y \in Authored /\ op[y].past \subseteq e.past
    <2> PICK p \in Frontier(r) : y \in {p} \cup op[p].past
      BY <1>1
    <2>1. p \in Authored
      BY StoredIsAuthored
    <2>2. y \in Authored /\ op[y].past \subseteq op[p].past
      BY <2>1 DEF HistoryIsCausal
    <2>3. op[p].past \subseteq e.past
      BY <1>1
    <2> QED BY <2>2, <2>3
  <1>6. ASSUME NEW y \in Stored(have[r]) PROVE y \in e.past
    <2> DEFINE p == <<y[1], have[r][y[1]]>>
    <2>1. /\ y \in Id /\ y = <<y[1], y[2]>> /\ y[1] \in Writers /\ y[2] \in 1..MaxSeq
          /\ y[2] <= have[r][y[1]]
      BY DEF Stored, Id
    <2>2. have[r][y[1]] \in 0..MaxSeq
      BY <2>1 DEF Logs, TypeOK, Cut
    <2>3. p \in Frontier(r)
      BY <2>1, <2>2, ConstantsAssumption DEF Frontier, Id
    <2>4. p \in Authored
      BY <2>3, StoredIsAuthored
    <2>5. y = p \/ y \in op[p].past
      <3>1. CASE y[2] = have[r][y[1]]
        BY <2>1, <3>1
      <3>2. CASE y[2] < have[r][y[1]]
        <4>1. y[2] \in 1..(p[2] - 1)
          BY <2>1, <2>2, <3>2, ConstantsAssumption
        <4>2. <<p[1], y[2]>> \in op[p].past
          BY <2>4, <4>1 DEF HistoryIsCausal
        <4> QED BY <2>1, <4>2
      <3> QED BY <2>1, <2>2, <3>1, <3>2, ConstantsAssumption
    <2> QED BY <1>1, <2>3, <2>5
  <1> QED BY <1>3, <1>4, <1>5, <1>6

\* An appended event keeps the causal order.
LEMMA NewEventHistory ==
  ASSUME Logs, HistoryIsCausal,
         NEW r \in Writers, NEW kind, NEW d, NEW names, NEW e \in Event,
         NewEvent(r, kind, d, names, e)
  PROVE  HistoryIsCausal'
  <1> DEFINE x == <<r, have[r][r] + 1>>
  <1>1. /\ x \notin Authored
        /\ Authored' = Authored \cup {x}
        /\ op'[x] = e
        /\ \A y \in Id \ {x} : op'[y] = op[y]
        /\ \A y \in e.past : y \in Authored /\ op[y].past \subseteq e.past
        /\ Stored(have[r]) \subseteq e.past
    BY NewEventPast
  <1>2. \A y \in Authored : op'[y] = op[y]
    BY <1>1 DEF Authored
  <1>3. ASSUME NEW z \in Authored
        PROVE  /\ z \notin op'[z].past
               /\ \A n \in 1..(z[2] - 1) : <<z[1], n>> \in op'[z].past
               /\ \A y \in op'[z].past : y \in Authored' /\ op'[y].past \subseteq op'[z].past
    BY <1>1, <1>2 DEF HistoryIsCausal
  <1>4. x \notin op'[x].past
    BY <1>1
  <1>5. ASSUME NEW n \in 1..(x[2] - 1) PROVE <<x[1], n>> \in op'[x].past
    <2>1. have[r][r] \in 0..MaxSeq /\ MaxSeq \in Nat
      BY ConstantsAssumption DEF Logs, TypeOK, Cut
    <2>2. <<r, n>> \in Stored(have[r])
      BY <2>1 DEF Stored, Id
    <2> QED BY <1>1, <2>2
  <1>6. \A y \in op'[x].past : y \in Authored' /\ op'[y].past \subseteq op'[x].past
    BY <1>1, <1>2
  <1> HIDE DEF x
  <1> QED BY <1>1, <1>3, <1>4, <1>5, <1>6 DEF HistoryIsCausal

-----------------------------------------------------------------------------
(* The fold *)

\* What the fold has reached is authored and closed under the causal order.
LEMMA DoneIsAuthored ==
  ASSUME Logs, FoldIsCausal, NEW r \in Writers
  PROVE  /\ proj[r].done \subseteq Stored(have[r])
         /\ proj[r].done \subseteq Authored
         /\ Decoded(r) \subseteq proj[r].done
  <1>1. proj[r].done \subseteq Stored(proj[r].cut)
    BY DEF FoldIsCausal, Closed
  <1> QED BY <1>1, StoredIsAuthored DEF Decoded

\* The versions of the event's document after FoldEvent(r, x): x itself and
\* the ones x does not supersede.
LEMMA RetainedVersions ==
  ASSUME Logs, HistoryIsCausal, ResolutionsNameTheirPast, FoldIsCausal, FoldMatchesHistory,
         NEW r \in Readers, NEW x \in Id, Ready(r, x),
         NEW v \in Id
  PROVE  Retained(r, x)[v[1]] = v[2] <=>
           v = x \/ (v \in Versions(proj[r].current, op[x].doc) /\ ~Supersedes(x, v))
  <1>0. r \in Writers
    BY ConstantsAssumption
  <1> DEFINE cur == proj[r].current[op[x].doc]
             D == Decoded(r)
  <1>1. /\ x[1] \in Writers /\ x[2] \in 1..MaxSeq /\ x = <<x[1], x[2]>>
        /\ v[1] \in Writers /\ v[2] \in 1..MaxSeq /\ v = <<v[1], v[2]>>
    BY DEF Id
  <1>2. x \in Authored /\ x \notin proj[r].done
    BY <1>0, StoredIsAuthored DEF Ready, Closed
  <1>3. op[x] \in Event
    BY <1>2, AuthoredIsEvent DEF Logs
  <1>4. v \in Versions(proj[r].current, op[x].doc) <=> cur[v[1]] = v[2]
    BY DEF Versions
  <1>5. ASSUME v \in Versions(proj[r].current, op[x].doc)
        PROVE  v \in proj[r].done /\ v \in Authored /\ op[v].doc = op[x].doc /\ v # x
               /\ op[v].past \subseteq proj[r].done
    <2>1. op[x].doc \in Docs
      BY <1>3 DEF Event
    <2>2. v \in D /\ op[v].doc = op[x].doc
      BY <1>5, <2>1 DEF FoldMatchesHistory
    <2> QED BY <1>0, <1>2, <2>2, DoneIsAuthored DEF FoldIsCausal
  <1>6. CASE v[1] = x[1]
    <2>1. Retained(r, x)[v[1]] = x[2]
      BY <1>1, <1>6 DEF Retained
    <2>2. ASSUME v \in Versions(proj[r].current, op[x].doc) PROVE Supersedes(x, v)
      <3>1. v[2] # x[2]
        BY <1>1, <1>5, <1>6, <2>2
      <3>2. CASE v[2] < x[2]
        <4>1. v[2] \in 1..(x[2] - 1)
          BY <1>1, <3>2, ConstantsAssumption
        <4>2. v \in op[x].past
          BY <1>1, <1>2, <1>6, <4>1 DEF HistoryIsCausal
        <4> QED BY <1>5, <1>6, <2>2, <4>2 DEF Supersedes, HappensBefore
      <3>3. CASE x[2] < v[2]
        <4>1. x[2] \in 1..(v[2] - 1)
          BY <1>1, <3>3, ConstantsAssumption
        <4>2. x \in op[v].past
          BY <1>1, <1>5, <1>6, <2>2, <4>1 DEF HistoryIsCausal
        <4> QED BY <1>2, <1>5, <2>2, <4>2
      <3> QED BY <1>1, <3>1, <3>2, <3>3, ConstantsAssumption
    <2> QED BY <1>1, <1>6, <2>1, <2>2
  <1>7. CASE v[1] # x[1]
    <2>1. Retained(r, x)[v[1]] =
            IF /\ cur[v[1]] # 0
               /\ IF op[x].kind = "put" THEN HappensBefore(<<v[1], cur[v[1]]>>, x)
                                        ELSE <<v[1], cur[v[1]]>> \in op[x].names
            THEN 0 ELSE cur[v[1]]
      BY <1>1, <1>7 DEF Retained
    <2>2. ASSUME v \in Versions(proj[r].current, op[x].doc)
          PROVE  Supersedes(x, v) <=> IF op[x].kind = "put" THEN HappensBefore(v, x)
                                                            ELSE v \in op[x].names
      <3>1. CASE op[x].kind = "put"
        BY <1>5, <2>2, <3>1 DEF Supersedes
      <3>2. CASE op[x].kind # "put"
        <4>1. op[x].kind = "resolve"
          BY <1>3, <3>2 DEF Event
        <4>2. v \in op[x].names => HappensBefore(v, x)
          BY <1>2, <4>1 DEF ResolutionsNameTheirPast
        <4> QED BY <1>5, <1>7, <2>2, <3>2, <4>2 DEF Supersedes
      <3> QED BY <3>1, <3>2
    <2>3. v[2] # 0 /\ v # x
      BY <1>1, <1>7
    <2>4. CASE v \in Versions(proj[r].current, op[x].doc)
      <3>1. cur[v[1]] = v[2] /\ <<v[1], cur[v[1]]>> = v
        BY <1>1, <1>4, <2>4
      <3> QED BY <2>1, <2>2, <2>3, <2>4, <3>1
    <2>5. CASE v \notin Versions(proj[r].current, op[x].doc)
      <3>1. cur[v[1]] # v[2]
        BY <1>4, <2>5
      <3> QED BY <2>1, <2>3, <2>5, <3>1
    <2> QED BY <2>4, <2>5
  <1> QED BY <1>6, <1>7

\* What a projection and what is shown say about events.
Fold == FoldIsCausal /\ FoldMatchesHistory /\ FoldLosesNothing

Screen == ShownIsStored /\ NoSilentLoss

Inv == /\ Logs
       /\ HistoryIsCausal
       /\ ResolutionsNameTheirPast
       /\ Fold
       /\ Screen

\* The invariant holds of the empty vault.
LEMMA InitInv == Init => Inv
  <1> SUFFICES ASSUME Init PROVE Inv
    OBVIOUS
  <1>1. Logs
    BY InitLogs
  <1>2. Authored = {}
    BY DEF Init, Authored
  <1>3. HistoryIsCausal /\ ResolutionsNameTheirPast
    BY <1>2 DEF HistoryIsCausal, ResolutionsNameTheirPast
  <1>4. \A d \in Docs : Versions(NoVersions, d) = {}
    <2>1. \A x \in Id : x[1] \in Writers /\ x[2] # 0
      BY DEF Id
    <2> QED BY <2>1 DEF Versions, NoVersions, NothingStored
  <1>5. \A r \in Writers : /\ proj[r] = Idle
                           /\ shown[r] = NothingShown
    BY DEF Init
  <1>6. Fold
    <2>1. \A r \in Writers : Decoded(r) = {}
      BY <1>5, IdleType DEF Decoded
    <2>2. FoldIsCausal
      BY <1>5, IdleType DEF FoldIsCausal
    <2> QED BY <1>4, <1>5, <2>1, <2>2, IdleType, ConstantsAssumption
            DEF Fold, FoldMatchesHistory, FoldLosesNothing
  <1>7. Screen
    BY <1>4, <1>5, ConstantsAssumption
       DEF Screen, ShownIsStored, NoSilentLoss, NothingShown
  <1> QED BY <1>1, <1>3, <1>6, <1>7 DEF Inv

\* Steps that only add to the history and the logs, and leave the keys of a
\* running projection alone, change nothing a fold or a screen says.
LEMMA GrowthInv ==
  ASSUME Inv, Logs',
         \A y \in Authored : op'[y] = op[y],
         \A s, u \in Writers : have[s][u] <= have'[s][u],
         UNCHANGED <<proj, shown>>,
         \A s \in Writers : epochAt'[s] = epochAt[s] \/ proj[s].phase = "idle"
  PROVE  Fold' /\ Screen'
  <1> USE DEF Inv, Fold, Screen
  <1>0. Readers \subseteq Writers
    BY ConstantsAssumption
  <1>1. \A s \in Writers : Stored(have[s]) \subseteq Stored(have'[s])
    <2>1. ASSUME NEW s \in Writers, NEW y \in Id, y[2] <= have[s][y[1]]
          PROVE  y[2] <= have'[s][y[1]]
      <3>1. y[1] \in Writers /\ y[2] \in Nat
        BY DEF Id
      <3>2. have[s][y[1]] \in Nat /\ have'[s][y[1]] \in Nat
        BY <3>1 DEF Logs, TypeOK, Cut
      <3> QED BY <2>1, <3>1, <3>2
    <2> QED BY <2>1 DEF Stored
  <1>2. ASSUME NEW s \in Writers PROVE Closed(proj[s].cut)' = Closed(proj[s].cut)
    <2>1. Stored(proj[s].cut) \subseteq Authored
      BY StoredIsAuthored
    <2> QED BY <2>1 DEF Closed, Stored
  <1>3. \A s \in Writers : /\ proj[s].done \subseteq Authored
                           /\ Decoded(s) \subseteq Authored
                           /\ shown[s].seen \subseteq Authored
    BY DoneIsAuthored, StoredIsAuthored DEF ShownIsStored
  <1>4. \A s \in Writers : Decoded(s)' = Decoded(s)
    <2>1. ASSUME NEW s \in Writers PROVE Decoded(s)' = Decoded(s)
      <3>1. CASE epochAt'[s] = epochAt[s]
        BY <1>3, <3>1 DEF Decoded, Decodable
      <3>2. CASE proj[s].phase = "idle"
        BY <3>2 DEF Decoded, FoldIsCausal
      <3> QED BY <3>1, <3>2
    <2> QED BY <2>1
  <1>5. FoldIsCausal'
    BY <1>2, <1>3 DEF FoldIsCausal
  <1>6. \A s, t \in Authored : Supersedes(s, t)' <=> Supersedes(s, t)
    BY DEF Supersedes, HappensBefore
  <1>7. FoldMatchesHistory'
    <2>1. ASSUME NEW s \in Readers, NEW d \in Docs
          PROVE  {x \in Decoded(s) : op'[x].doc = d
                                      /\ \A y \in Decoded(s) : ~Supersedes(y, x)'} =
                 {x \in Decoded(s) : op[x].doc = d
                                      /\ \A y \in Decoded(s) : ~Supersedes(y, x)}
      BY <1>0, <1>3, <1>6
    <2> QED BY <1>0, <1>4, <2>1 DEF FoldMatchesHistory, Versions
  <1>8. FoldLosesNothing'
    <2> SUFFICES ASSUME NEW s \in Readers, NEW x \in Decoded(s)
                 PROVE  \E v \in Versions(proj[s].current, op'[x].doc) :
                          v = x \/ x \in op'[v].past
      BY <1>0, <1>4 DEF FoldLosesNothing, HappensBefore, Versions
    <2>1. x \in Authored /\ op'[x].doc = op[x].doc /\ op[x] \in Event
      BY <1>0, <1>3, AuthoredIsEvent DEF Logs
    <2> PICK v \in Versions(proj[s].current, op[x].doc) : v = x \/ x \in op[v].past
      BY DEF FoldLosesNothing, HappensBefore
    <2>2. v \in Authored
      BY <1>0, <1>3, <2>1 DEF FoldMatchesHistory, Event
    <2> QED BY <2>1, <2>2
  <1>9. ShownIsStored'
    <2> SUFFICES ASSUME NEW s \in Writers
                 PROVE  /\ shown[s].seen \subseteq Stored(have'[s])
                        /\ \A d \in Docs : \A v \in Versions(shown[s].versions, d) :
                             v \in shown[s].seen /\ op'[v].doc = d
                        /\ \A d \in shown[s].conflicts : Versions(shown[s].versions, d) # {}
      BY DEF ShownIsStored, Stored, Versions
    <2> QED BY <1>1, <1>3 DEF ShownIsStored
  <1>10. NoSilentLoss'
    <2> SUFFICES ASSUME NEW s \in Readers, NEW x \in shown[s].seen
                 PROVE  \E v \in Versions(shown[s].versions, op'[x].doc) :
                          v = x \/ x \in op'[v].past
      BY <1>0 DEF NoSilentLoss, HappensBefore, Versions
    <2>1. x \in Authored /\ op'[x].doc = op[x].doc /\ op[x] \in Event
      BY <1>0, <1>3, AuthoredIsEvent DEF Logs
    <2> PICK v \in Versions(shown[s].versions, op[x].doc) : v = x \/ x \in op[v].past
      BY DEF NoSilentLoss, HappensBefore
    <2>2. v \in Authored
      BY <1>0, <1>3, <2>1 DEF ShownIsStored, Event
    <2> QED BY <2>1, <2>2
  <1> QED BY <1>5, <1>7, <1>8, <1>9, <1>10

\* There are finitely many events.
LEMMA IdIsFinite == IsFiniteSet(Id)
  <1>1. 1 \in Int /\ MaxSeq \in Int /\ IsFiniteSet(Writers)
    BY ConstantsAssumption
  <1>2. IsFiniteSet(1..MaxSeq)
    BY <1>1, FS_Interval
  <1> QED BY <1>1, <1>2, FS_Product DEF Id

\* Versions a screen shows for a document are at most as many as the logs the
\* replica has stored: one per writer.
LEMMA VersionsAreFew ==
  ASSUME Logs, ShownIsStored, NEW r \in Writers, NEW d \in Docs
  PROVE  Cardinality(Versions(shown[r].versions, d)) <= Cardinality(Frontier(r))
  <1> DEFINE V == Versions(shown[r].versions, d)
             f == [v \in V |-> <<v[1], have[r][v[1]]>>]
  <1>0. MaxSeq \in Nat /\ IsFiniteSet(Writers)
    BY ConstantsAssumption
  <1>2. IsFiniteSet(Frontier(r))
    BY IdIsFinite, FS_Subset DEF Frontier
  <1>3. ASSUME NEW v \in V PROVE <<v[1], have[r][v[1]]>> \in Frontier(r)
    <2>1. v[1] \in Writers /\ v[2] \in 1..MaxSeq
      BY DEF Versions, Id
    <2>2. v[2] <= have[r][v[1]]
      BY DEF ShownIsStored, Stored
    <2>3. have[r][v[1]] \in 0..MaxSeq
      BY <2>1 DEF Logs, TypeOK, Cut
    <2> QED BY <1>0, <2>1, <2>2, <2>3 DEF Frontier, Id
  <1>4. ASSUME NEW u \in V, NEW v \in V, u[1] = v[1] PROVE u = v
    <2>1. u = <<u[1], u[2]>> /\ v = <<v[1], v[2]>>
      BY DEF Versions, Id
    <2>2. shown[r].versions[d][u[1]] = u[2] /\ shown[r].versions[d][v[1]] = v[2]
      BY DEF Versions
    <2> QED BY <1>4, <2>1, <2>2
  <1>5. f \in Injection(V, Frontier(r))
    <2>1. f \in [V -> Frontier(r)]
      BY <1>3
    <2>2. \A u, v \in V : f[u] = f[v] => u = v
      BY <1>4
    <2> HIDE DEF f
    <2> QED BY <2>1, <2>2 DEF Injection, IsInjective
  <1> HIDE DEF f
  <1> QED BY <1>2, <1>5, FS_Injection

\* A resolution names what its author was shown, all of it in its past.
LEMMA NewEventNames ==
  ASSUME Inv, NEW r \in Writers, NEW d \in Docs, NEW e \in Event,
         \/ NewEvent(r, "put", d, {}, e)
         \/ /\ d \in shown[r].conflicts
            /\ NewEvent(r, "resolve", d, Versions(shown[r].versions, d), e)
  PROVE  ResolutionsNameTheirPast'
  <1> DEFINE x == <<r, have[r][r] + 1>>
             V == Versions(shown[r].versions, d)
  <1>0. PICK kind, names : NewEvent(r, kind, d, names, e)
    OBVIOUS
  <1>1. /\ Authored' = Authored \cup {x}
        /\ op'[x] = e
        /\ x \notin Authored
        /\ \A y \in Id \ {x} : op'[y] = op[y]
        /\ \A y \in e.past : y \in Authored
        /\ Stored(have[r]) \subseteq e.past
    BY <1>0, NewEventPast DEF Inv
  <1>2. \A y \in Authored : op'[y] = op[y]
    BY <1>1 DEF Authored
  <1>3. ASSUME NEW z \in Authored, op'[z].kind = "resolve"
        PROVE  /\ op'[z].names # {}
               /\ Cardinality(op'[z].names) <= MaxParents
               /\ \A t \in op'[z].names : t \in op'[z].past /\ op'[t].doc = op'[z].doc
    <2>1. /\ op'[z] = op[z] /\ op[z].names # {} /\ Cardinality(op[z].names) <= MaxParents
          /\ \A t \in op[z].names : t \in op[z].past /\ op[t].doc = op[z].doc
      BY <1>2, <1>3 DEF Inv, ResolutionsNameTheirPast, HappensBefore
    <2>2. op[z].past \subseteq Authored
      BY DEF Inv, HistoryIsCausal
    <2> QED BY <1>2, <2>1, <2>2
  <1>4. ASSUME e.kind = "resolve"
        PROVE  /\ e.names # {}
               /\ Cardinality(e.names) <= MaxParents
               /\ \A t \in e.names : t \in e.past /\ op'[t].doc = e.doc
    <2>1. /\ d \in shown[r].conflicts /\ e.names = V /\ e.doc = d
          /\ Cardinality(Frontier(r)) <= MaxParents
      BY <1>4 DEF NewEvent
    <2>2. ShownIsStored
      BY DEF Inv, Screen
    <2>3. V # {} /\ \A t \in V : t \in shown[r].seen /\ op[t].doc = d
      BY <2>1, <2>2 DEF ShownIsStored
    <2>4. V \subseteq Stored(have[r])
      BY <2>2, <2>3 DEF ShownIsStored
    <2>5. \A t \in V : t \in e.past /\ t \in Authored
      BY <1>1, <2>4
    <2>6. Cardinality(V) <= MaxParents
      <3>1. Cardinality(V) <= Cardinality(Frontier(r))
        BY <2>2, VersionsAreFew DEF Inv
      <3>3. Cardinality(V) \in Nat /\ Cardinality(Frontier(r)) \in Nat /\ MaxParents \in Nat
        BY IdIsFinite, FS_Subset, FS_CardinalityType, ConstantsAssumption DEF Frontier, Versions
      <3> HIDE DEF V
      <3> QED BY <2>1, <3>1, <3>3
    <2> HIDE DEF V
    <2> QED BY <1>2, <2>1, <2>3, <2>5, <2>6
  <1> HIDE DEF x
  <1> QED BY <1>1, <1>3, <1>4 DEF ResolutionsNameTheirPast, HappensBefore

\* Authoring keeps the invariant.
LEMMA AuthorInv ==
  ASSUME Inv, NEW r \in Writers, NEW d \in Docs, NEW body \in Contents \cup {Deleted},
         \/ AuthorPut(r, d, body)
         \/ AuthorDelete(r, d)
         \/ ResolveConflict(r, d, body)
  PROVE  Inv'
  <1>0. Logs
    BY DEF Inv
  <1> PICK e \in Event : \/ NewEvent(r, "put", d, {}, e)
                         \/ /\ d \in shown[r].conflicts
                            /\ NewEvent(r, "resolve", d, Versions(shown[r].versions, d), e)
    BY <1>0, AuthorLogs
  <1>1. PICK kind, names : NewEvent(r, kind, d, names, e)
    OBVIOUS
  <1>2. Logs' /\ HistoryIsCausal' /\ ResolutionsNameTheirPast'
    BY <1>1, NewEventLogs, NewEventHistory, NewEventNames DEF Inv
  <1>3. \A y \in Authored : op'[y] = op[y]
    BY <1>1, NewEventPast DEF Inv, Authored
  <1>4. \A s, u \in Writers : have[s][u] <= have'[s][u]
    <2>1. \A s, u \in Writers :
            have'[s][u] = IF s = r /\ u = r THEN have[r][r] + 1 ELSE have[s][u]
      BY <1>0, <1>1 DEF NewEvent, Logs, TypeOK, Cut
    <2>2. \A s, u \in Writers : have[s][u] \in Nat
      BY <1>0 DEF Logs, TypeOK, Cut
    <2> QED BY <2>1, <2>2
  <1>5. UNCHANGED <<proj, shown, epochAt>>
    BY <1>1 DEF NewEvent
  <1>6. Fold' /\ Screen'
    BY <1>2, <1>3, <1>4, <1>5, GrowthInv
  <1> QED BY <1>2, <1>6 DEF Inv

\* Accepting, admission and keys keep the invariant.
LEMMA QuietInv ==
  ASSUME Inv, NEW r \in Writers, NEW w \in Writers,
         Accept(r, w) \/ AdmitWriter(r, w) \/ DenyWriter(r, w) \/ LearnEpoch(r)
  PROVE  Inv'
  <1>1. Logs' /\ UNCHANGED <<op, proj, shown>>
    BY AcceptLogs, PolicyLogs DEF Inv
  <1>2. \A s, u \in Writers : have[s][u] <= have'[s][u]
    <2>1. CASE Accept(r, w)
      BY <2>1, AcceptLogs DEF Inv
    <2>2. CASE ~Accept(r, w)
      <3>1. UNCHANGED have
        BY <2>2 DEF AdmitWriter, DenyWriter, LearnEpoch
      <3>2. \A s, u \in Writers : have[s][u] \in Nat
        BY DEF Inv, Logs, TypeOK, Cut
      <3> QED BY <3>1, <3>2
    <2> QED BY <2>1, <2>2
  <1>3. \A s \in Writers : epochAt'[s] = epochAt[s] \/ proj[s].phase = "idle"
    BY DEF Accept, AdmitWriter, DenyWriter, LearnEpoch, Inv, Logs, TypeOK
  <1>4. Fold' /\ Screen'
    BY <1>1, <1>2, <1>3, GrowthInv
  <1>5. HistoryIsCausal' /\ ResolutionsNameTheirPast'
    BY <1>1 DEF Inv, HistoryIsCausal, ResolutionsNameTheirPast, Authored, HappensBefore
  <1> QED BY <1>1, <1>4, <1>5 DEF Inv

-----------------------------------------------------------------------------
(* The steps of a projection *)

\* Folding one event.
LEMMA FoldEventInv ==
  ASSUME Inv, NEW r \in Readers, NEW x \in Id, FoldEvent(r, x)
  PROVE  Fold'
  <1> DEFINE D == Decoded(r)
             d0 == op[x].doc
  <1>0. r \in Writers /\ Readers \subseteq Writers
    BY ConstantsAssumption
  <1>1. /\ Logs /\ HistoryIsCausal /\ ResolutionsNameTheirPast
        /\ FoldIsCausal /\ FoldMatchesHistory /\ FoldLosesNothing
    BY DEF Inv, Fold
  <1>2. /\ Ready(r, x) /\ Decodable(r, x) /\ UNCHANGED <<op, have, epochAt>>
        /\ x \in Closed(proj[r].cut) /\ x \notin proj[r].done
        /\ op[x].past \subseteq proj[r].done /\ proj[r].phase = "fold"
    BY DEF FoldEvent, Ready
  <1>3. x \in Authored /\ op[x] \in Event /\ d0 \in Docs
    <2>1. x \in Authored
      BY <1>0, <1>1, <1>2, StoredIsAuthored DEF Closed
    <2> QED BY <1>1, <2>1, AuthoredIsEvent DEF Logs, Event
  <1>4. /\ \A s \in Writers \ {r} : proj'[s] = proj[s]
        /\ proj'[r].done = proj[r].done \cup {x}
        /\ proj'[r].cut = proj[r].cut
        /\ proj'[r].phase = proj[r].phase
        /\ proj'[r].current = [proj[r].current EXCEPT ![d0] = Retained(r, x)]
    <2>1. proj \in [Writers -> Projection] /\ proj[r] \in Projection
      BY <1>0, <1>1 DEF Logs, TypeOK
    <2> QED BY <1>0, <2>1 DEF FoldEvent, Projection
  <1>5. proj[r].current \in Current
    BY <1>0, <1>1 DEF Logs, TypeOK, Projection
  <1>6. Decoded(r)' = D \cup {x}
    BY <1>2, <1>4 DEF Decoded, Decodable
  <1>7. \A s \in Writers \ {r} : Decoded(s)' = Decoded(s)
    BY <1>2, <1>4 DEF Decoded, Decodable
  <1>8. FoldIsCausal'
    <2>1. ASSUME NEW s \in Writers \ {r}
          PROVE  /\ proj'[s].done \subseteq Closed(proj'[s].cut)
                 /\ \A y \in proj'[s].done : op[y].past \subseteq proj'[s].done
                 /\ proj'[s].phase \in {"idle", "load"} =>
                      proj'[s].done = {} /\ proj'[s].current = NoVersions
      BY <1>1, <1>4 DEF FoldIsCausal
    <2>2. /\ proj'[r].done \subseteq Closed(proj'[r].cut)
          /\ \A y \in proj'[r].done : op[y].past \subseteq proj'[r].done
          /\ proj'[r].phase \notin {"idle", "load"}
      BY <1>0, <1>1, <1>2, <1>4 DEF FoldIsCausal
    <2> QED BY <1>2, <2>1, <2>2 DEF FoldIsCausal, Closed, Stored
  <1>9. \A d \in Docs \ {d0} : Versions(proj'[r].current, d) = Versions(proj[r].current, d)
    BY <1>4, <1>5 DEF Versions, Current
  <1>10. \A v \in Id : v \in Versions(proj'[r].current, d0) <=>
                         \/ v = x
                         \/ v \in Versions(proj[r].current, d0) /\ ~Supersedes(x, v)
    <2>1. \A v \in Id : v \in Versions(proj'[r].current, d0) <=> Retained(r, x)[v[1]] = v[2]
      BY <1>3, <1>4, <1>5 DEF Versions, Current
    <2> QED BY <1>1, <1>2, <2>1, RetainedVersions
  <1>11. /\ \A y \in D : x \notin op[y].past
         /\ x \notin op[x].past
         /\ D \subseteq Id /\ x \notin D
    BY <1>0, <1>1, <1>2, <1>3, DoneIsAuthored DEF FoldIsCausal, HistoryIsCausal, Authored
  <1>12. FoldMatchesHistory'
    <2>1. ASSUME NEW s \in Readers \ {r}, NEW d \in Docs
          PROVE  Versions(proj'[s].current, d) =
                   {z \in Decoded(s)' : op'[z].doc = d
                                         /\ \A y \in Decoded(s)' : ~Supersedes(y, z)'}
      BY <1>0, <1>1, <1>2, <1>4, <1>7 DEF FoldMatchesHistory, Supersedes, HappensBefore
    <2>2. ASSUME NEW d \in Docs, NEW v \in Id
          PROVE  v \in Versions(proj'[r].current, d) <=>
                   /\ v \in D \cup {x} /\ op[v].doc = d
                   /\ \A y \in D \cup {x} : ~Supersedes(y, v)
      <3>1. v \in Versions(proj[r].current, d) <=>
              v \in D /\ op[v].doc = d /\ \A y \in D : ~Supersedes(y, v)
        BY <1>1 DEF FoldMatchesHistory
      <3>2. CASE d # d0
        <4>1. op[v].doc = d => ~Supersedes(x, v) /\ v # x
          BY <3>2 DEF Supersedes
        <4> QED BY <1>9, <3>1, <3>2, <4>1
      <3>3. CASE d = d0 /\ v = x
        <4>1. \A y \in D \cup {x} : ~Supersedes(y, x)
          BY <1>11 DEF Supersedes, HappensBefore
        <4> QED BY <1>10, <3>3, <4>1
      <3>4. CASE d = d0 /\ v # x
        BY <1>10, <3>1, <3>4
      <3> QED BY <3>2, <3>3, <3>4
    <2>3. ASSUME NEW d \in Docs
          PROVE  Versions(proj'[r].current, d) =
                   {z \in Decoded(r)' : op'[z].doc = d
                                         /\ \A y \in Decoded(r)' : ~Supersedes(y, z)'}
      <3>1. Versions(proj'[r].current, d) \subseteq Id
        BY DEF Versions
      <3>2. Versions(proj'[r].current, d) =
              {z \in D \cup {x} : op[z].doc = d /\ \A y \in D \cup {x} : ~Supersedes(y, z)}
        BY <1>11, <2>2, <3>1
      <3> QED BY <1>2, <1>6, <3>2 DEF Supersedes, HappensBefore
    <2> QED BY <2>1, <2>3 DEF FoldMatchesHistory, Versions
  <1>13. FoldLosesNothing'
    <2>1. ASSUME NEW s \in Readers \ {r}, NEW z \in Decoded(s)'
          PROVE  \E v \in Versions(proj'[s].current, op'[z].doc) : v = z \/ z \in op'[v].past
      BY <1>0, <1>1, <1>2, <1>4, <1>7 DEF FoldLosesNothing, HappensBefore
    <2>2. ASSUME NEW z \in D \cup {x}
          PROVE  \E v \in Versions(proj'[r].current, op[z].doc) : v = z \/ z \in op[v].past
      <3>1. CASE z = x
        BY <1>10, <3>1
      <3>2. CASE z \in D
        <4>1. PICK v \in Versions(proj[r].current, op[z].doc) : v = z \/ z \in op[v].past
          BY <1>1, <3>2 DEF FoldLosesNothing, HappensBefore
        <4>2. v \in Id
          BY DEF Versions
        <4>3. CASE op[z].doc = d0 /\ Supersedes(x, v)
          <5>1. v \in op[x].past
            BY <4>3 DEF Supersedes, HappensBefore
          <5>2. z \in op[x].past
            BY <1>1, <1>3, <4>1, <5>1 DEF HistoryIsCausal
          <5>3. x \in Versions(proj'[r].current, op[z].doc)
            BY <1>10, <4>3
          <5> QED BY <5>2, <5>3
        <4>4. CASE op[z].doc = d0 /\ ~Supersedes(x, v)
          <5>1. v \in Versions(proj'[r].current, op[z].doc)
            BY <1>10, <4>1, <4>2, <4>4
          <5> QED BY <4>1, <5>1
        <4>5. CASE op[z].doc # d0
          <5>1. op[z].doc \in Docs
            BY <1>0, <1>1, <3>2, DoneIsAuthored, AuthoredIsEvent DEF Logs, Event
          <5> QED BY <1>9, <4>1, <4>5, <5>1
        <4> QED BY <4>3, <4>4, <4>5
      <3> QED BY <3>1, <3>2
    <2> QED BY <1>2, <1>6, <2>1, <2>2 DEF FoldLosesNothing, HappensBefore, Versions
  <1> QED BY <1>8, <1>12, <1>13 DEF Fold

\* A step that leaves the fold of r as it is, and one that starts it over.
LEMMA FoldUntouched ==
  ASSUME Inv, NEW r \in Readers, NEW p \in Projection,
         UNCHANGED <<op, epochAt>>, proj' = [proj EXCEPT ![r] = p],
         \/ /\ p.done = proj[r].done /\ p.current = proj[r].current
            /\ p.cut = proj[r].cut
            /\ p.phase \in {"idle", "load"} => p.done = {} /\ p.current = NoVersions
         \/ p.done = {} /\ p.current = NoVersions
  PROVE  Fold'
  <1>0. r \in Writers /\ Readers \subseteq Writers
    BY ConstantsAssumption
  <1>1. /\ FoldIsCausal /\ FoldMatchesHistory /\ FoldLosesNothing
        /\ proj \in [Writers -> Projection]
    BY DEF Inv, Fold, Logs, TypeOK
  <1>2. \A s \in Writers : proj'[s] = IF s = r THEN p ELSE proj[s]
    BY <1>0, <1>1
  <1>3. \A d \in Docs : Versions(NoVersions, d) = {}
    <2>1. \A x \in Id : x[1] \in Writers /\ x[2] # 0
      BY DEF Id
    <2> QED BY <2>1 DEF Versions, NoVersions, NothingStored
  <1>4. ASSUME NEW s \in Writers
        PROVE  \/ /\ proj'[s].done = proj[s].done /\ proj'[s].current = proj[s].current
                  /\ Decoded(s)' = Decoded(s)
               \/ proj'[s].current = NoVersions /\ Decoded(s)' = {}
    BY <1>2 DEF Decoded, Decodable
  <1>5. FoldIsCausal'
    BY <1>1, <1>2 DEF FoldIsCausal, Closed, Stored
  <1>6. FoldMatchesHistory'
    <2>1. ASSUME NEW s \in Readers, NEW d \in Docs
          PROVE  Versions(proj'[s].current, d) =
                   {z \in Decoded(s)' : op'[z].doc = d
                                         /\ \A y \in Decoded(s)' : ~Supersedes(y, z)'}
      BY <1>0, <1>1, <1>3, <1>4 DEF FoldMatchesHistory, Supersedes, HappensBefore
    <2> QED BY <2>1 DEF FoldMatchesHistory, Versions
  <1>7. FoldLosesNothing'
    <2>1. ASSUME NEW s \in Readers, NEW z \in Decoded(s)'
          PROVE  \E v \in Versions(proj'[s].current, op'[z].doc) : v = z \/ z \in op'[v].past
      BY <1>0, <1>1, <1>4 DEF FoldLosesNothing, HappensBefore
    <2> QED BY <2>1 DEF FoldLosesNothing, HappensBefore, Versions
  <1> QED BY <1>5, <1>6, <1>7 DEF Fold

\* Passing over an event that was not decoded.
LEMMA FoldUndecodableInv ==
  ASSUME Inv, NEW r \in Readers, NEW x \in Id, FoldUndecodable(r, x)
  PROVE  Fold'
  <1>0. r \in Writers /\ Readers \subseteq Writers
    BY ConstantsAssumption
  <1>1. /\ FoldIsCausal /\ FoldMatchesHistory /\ FoldLosesNothing
        /\ proj \in [Writers -> Projection] /\ proj[r] \in Projection
    BY <1>0 DEF Inv, Fold, Logs, TypeOK
  <1>2. /\ x \in Closed(proj[r].cut) /\ op[x].past \subseteq proj[r].done
        /\ proj[r].phase = "fold" /\ ~Decodable(r, x) /\ UNCHANGED <<op, epochAt>>
    BY DEF FoldUndecodable, Ready
  <1>3. /\ \A s \in Writers \ {r} : proj'[s] = proj[s]
        /\ proj'[r].done = proj[r].done \cup {x}
        /\ proj'[r].cut = proj[r].cut
        /\ proj'[r].phase = proj[r].phase
        /\ proj'[r].current = proj[r].current
    BY <1>0, <1>1 DEF FoldUndecodable, Projection
  <1>4. \A s \in Writers : /\ Decoded(s)' = Decoded(s)
                           /\ proj'[s].current = proj[s].current
    <2>1. \A s \in Writers \ {r} : Decoded(s)' = Decoded(s)
      BY <1>2, <1>3 DEF Decoded, Decodable
    <2>2. Decoded(r)' = Decoded(r)
      BY <1>2, <1>3 DEF Decoded, Decodable
    <2> QED BY <1>3, <2>1, <2>2
  <1>5. FoldIsCausal'
    <2>1. ASSUME NEW s \in Writers \ {r}
          PROVE  /\ proj'[s].done \subseteq Closed(proj'[s].cut)
                 /\ \A y \in proj'[s].done : op[y].past \subseteq proj'[s].done
                 /\ proj'[s].phase \in {"idle", "load"} =>
                      proj'[s].done = {} /\ proj'[s].current = NoVersions
      BY <1>1, <1>3 DEF FoldIsCausal
    <2>2. /\ proj'[r].done \subseteq Closed(proj'[r].cut)
          /\ \A y \in proj'[r].done : op[y].past \subseteq proj'[r].done
          /\ proj'[r].phase \notin {"idle", "load"}
      BY <1>0, <1>1, <1>2, <1>3 DEF FoldIsCausal
    <2> QED BY <1>2, <2>1, <2>2 DEF FoldIsCausal, Closed, Stored
  <1>6. FoldMatchesHistory'
    <2>1. ASSUME NEW s \in Readers, NEW d \in Docs
          PROVE  Versions(proj'[s].current, d) =
                   {z \in Decoded(s)' : op'[z].doc = d
                                         /\ \A y \in Decoded(s)' : ~Supersedes(y, z)'}
      BY <1>0, <1>1, <1>2, <1>4 DEF FoldMatchesHistory, Supersedes, HappensBefore
    <2> QED BY <2>1 DEF FoldMatchesHistory, Versions
  <1>7. FoldLosesNothing'
    <2>1. ASSUME NEW s \in Readers, NEW z \in Decoded(s)'
          PROVE  \E v \in Versions(proj'[s].current, op'[z].doc) : v = z \/ z \in op'[v].past
      BY <1>0, <1>1, <1>2, <1>4 DEF FoldLosesNothing, HappensBefore
    <2> QED BY <2>1 DEF FoldLosesNothing, HappensBefore, Versions
  <1> QED BY <1>5, <1>6, <1>7 DEF Fold

\* What a finished projection shows is what it folded.
LEMMA FinishScreen ==
  ASSUME Inv, NEW r \in Readers, FinishProjection(r)
  PROVE  Screen'
  <1>0. r \in Writers /\ Readers \subseteq Writers
    BY ConstantsAssumption
  <1>1. /\ Logs /\ FoldIsCausal /\ FoldMatchesHistory /\ FoldLosesNothing
        /\ ShownIsStored /\ NoSilentLoss /\ shown \in [Writers -> Shown]
    BY DEF Inv, Fold, Screen, Logs, TypeOK
  <1>2. PICK conflicts \in SUBSET Docs :
          /\ \A d \in conflicts : Cardinality(Versions(proj[r].current, d)) >= 2
          /\ shown' = [shown EXCEPT ![r] = [versions |-> proj[r].current,
                                            conflicts |-> conflicts,
                                            seen |-> Decoded(r)]]
    BY DEF FinishProjection, MayConflict
  <1>3. UNCHANGED <<op, have>>
    BY DEF FinishProjection
  <1>4. /\ shown'[r].versions = proj[r].current
        /\ shown'[r].conflicts = conflicts
        /\ shown'[r].seen = Decoded(r)
        /\ \A s \in Writers \ {r} : shown'[s] = shown[s]
    BY <1>0, <1>1, <1>2
  <1>5. ShownIsStored'
    <2>1. ASSUME NEW s \in Writers \ {r}
          PROVE  /\ shown'[s].seen \subseteq Stored(have[s])
                 /\ \A d \in Docs : \A v \in Versions(shown'[s].versions, d) :
                      v \in shown'[s].seen /\ op[v].doc = d
                 /\ \A d \in shown'[s].conflicts : Versions(shown'[s].versions, d) # {}
      BY <1>1, <1>4 DEF ShownIsStored
    <2>2. shown'[r].seen \subseteq Stored(have[r])
      BY <1>0, <1>1, <1>4, DoneIsAuthored
    <2>3. \A d \in Docs : \A v \in Versions(shown'[r].versions, d) :
            v \in shown'[r].seen /\ op[v].doc = d
      BY <1>1, <1>4 DEF FoldMatchesHistory
    <2>4. \A d \in shown'[r].conflicts : Versions(shown'[r].versions, d) # {}
      <3>1. ~(Cardinality({}) >= 2)
        BY FS_EmptySet
      <3> QED BY <1>2, <1>4, <3>1
    <2> QED BY <1>3, <2>1, <2>2, <2>3, <2>4 DEF ShownIsStored, Stored, Versions
  <1>6. NoSilentLoss'
    <2>1. ASSUME NEW s \in Readers, NEW z \in shown'[s].seen
          PROVE  \E v \in Versions(shown'[s].versions, op[z].doc) : v = z \/ z \in op[v].past
      <3>1. CASE s = r
        BY <1>1, <1>4, <3>1 DEF FoldLosesNothing, HappensBefore
      <3>2. CASE s # r
        BY <1>0, <1>1, <1>4, <3>2 DEF NoSilentLoss, HappensBefore
      <3> QED BY <3>1, <3>2
    <2> QED BY <1>3, <2>1 DEF NoSilentLoss, HappensBefore, Versions
  <1> QED BY <1>5, <1>6 DEF Screen

\* Every step of a projection keeps the invariant.
LEMMA ProjectInv ==
  ASSUME Inv, NEW r \in Readers, Project(r)
  PROVE  Inv'
  <1>0. r \in Writers
    BY ConstantsAssumption
  <1>1. Logs' /\ UNCHANGED <<op, have, admitted, denials, epochAt>>
    BY <1>0, ProjectLogs DEF Inv
  <1>2. HistoryIsCausal' /\ ResolutionsNameTheirPast'
    BY <1>1 DEF Inv, HistoryIsCausal, ResolutionsNameTheirPast, Authored, HappensBefore
  <1>3. UNCHANGED shown => Screen'
    BY <1>1 DEF Inv, Screen, ShownIsStored, NoSilentLoss, Stored, Versions, HappensBefore
  <1>4. proj[r] \in Projection /\ FoldIsCausal
    BY <1>0 DEF Inv, Logs, TypeOK, Fold
  <1>5. CASE BeginProjection(r)
    <2> DEFINE p == [Idle EXCEPT !.phase = "load", !.left = Writers]
    <2>1. p \in Projection /\ p.done = {} /\ p.current = NoVersions
      BY IdleType DEF Projection
    <2>2. proj' = [proj EXCEPT ![r] = p] /\ UNCHANGED shown
      BY <1>5 DEF BeginProjection
    <2> HIDE DEF p
    <2> QED BY <1>1, <1>2, <1>3, <2>1, <2>2, FoldUntouched DEF Inv
  <1>6. ASSUME NEW w \in Writers, LoadLog(r, w) PROVE Inv'
    <2> DEFINE cut == [proj[r].cut EXCEPT ![w] = have[r][w]]
               left == proj[r].left \ {w}
               p == [proj[r] EXCEPT !.left = left, !.cut = cut]
    <2>1. cut \in Cut /\ left \in SUBSET Writers
      BY <1>0, <1>4 DEF Projection, Inv, Logs, TypeOK, Cut
    <2>2. p \in Projection /\ p.done = {} /\ p.current = NoVersions
      <3>1. proj[r].done = {} /\ proj[r].current = NoVersions
        BY <1>0, <1>4, <1>6 DEF LoadLog, FoldIsCausal
      <3> HIDE DEF cut, left
      <3> QED BY <1>4, <2>1, <3>1 DEF Projection
    <2>3. proj' = [proj EXCEPT ![r] = p] /\ UNCHANGED shown
      BY <1>6 DEF LoadLog
    <2> HIDE DEF p
    <2> QED BY <1>1, <1>2, <1>3, <2>2, <2>3, FoldUntouched DEF Inv
  <1>7. ASSUME NEW phase \in {"fold", "undecodable", "invalid"},
               proj' = [proj EXCEPT ![r] = [proj[r] EXCEPT !.phase = phase]],
               UNCHANGED shown
        PROVE  Inv'
    <2> DEFINE p == [proj[r] EXCEPT !.phase = phase]
    <2>1. /\ p \in Projection /\ p.done = proj[r].done /\ p.current = proj[r].current
          /\ p.cut = proj[r].cut /\ p.phase \notin {"idle", "load"}
      BY <1>4 DEF Projection
    <2>2. proj' = [proj EXCEPT ![r] = p]
      BY <1>7
    <2> HIDE DEF p
    <2> QED BY <1>1, <1>2, <1>3, <1>7, <2>1, <2>2, FoldUntouched DEF Inv
  <1>8. CASE DecodeEvents(r)
    <2>1. PICK phase \in {"fold", "undecodable"} :
            proj' = [proj EXCEPT ![r] = [proj[r] EXCEPT !.phase = phase]]
      <3> DEFINE phase == IF Tolerant \/ \A x \in Closed(proj[r].cut) : Decodable(r, x)
                          THEN "fold" ELSE "undecodable"
      <3>1. phase \in {"fold", "undecodable"}
        OBVIOUS
      <3>2. proj' = [proj EXCEPT ![r] = [proj[r] EXCEPT !.phase = phase]]
        BY <1>8 DEF DecodeEvents
      <3> HIDE DEF phase
      <3> QED BY <3>1, <3>2
    <2> QED BY <1>7, <1>8, <2>1 DEF DecodeEvents
  <1>9. ASSUME NEW x \in Id, FoldEvent(r, x) PROVE Inv'
    BY <1>1, <1>2, <1>3, <1>9, FoldEventInv DEF FoldEvent, Inv
  <1>10. ASSUME NEW x \in Id, FoldUndecodable(r, x) PROVE Inv'
    BY <1>1, <1>2, <1>3, <1>10, FoldUndecodableInv DEF FoldUndecodable, Inv
  <1>11. ASSUME NEW x \in Id, FailResolution(r, x) PROVE Inv'
    <2>1. proj' = [proj EXCEPT ![r] = [proj[r] EXCEPT !.phase = "invalid"]]
      BY <1>11 DEF FailResolution
    <2> QED BY <1>7, <1>11, <2>1 DEF FailResolution
  <1>12. CASE ReportFailure(r)
    BY <1>1, <1>2, <1>3, <1>12, IdleType, FoldUntouched DEF ReportFailure, Inv
  <1>13. CASE FinishProjection(r)
    <2>1. proj' = [proj EXCEPT ![r] = Idle]
      BY <1>13 DEF FinishProjection
    <2>2. Fold'
      BY <1>1, <2>1, IdleType, FoldUntouched
    <2> QED BY <1>1, <1>2, <1>13, <2>2, FinishScreen DEF Inv
  <1> QED
    BY <1>5, <1>6, <1>8, <1>9, <1>10, <1>11, <1>12, <1>13 DEF Project

\* Every step keeps the invariant: one case per action.
LEMMA StepInv == Inv /\ [Next]_vars => Inv'
  <1> SUFFICES ASSUME Inv, [Next]_vars PROVE Inv'
    OBVIOUS
  <1>1. ASSUME NEW r \in Writers, NEW d \in Docs, NEW body \in Contents \cup {Deleted},
               \/ AuthorPut(r, d, body)
               \/ AuthorDelete(r, d)
               \/ ResolveConflict(r, d, body)
        PROVE  Inv'
    BY <1>1, AuthorInv
  <1>2. ASSUME NEW r \in Writers, NEW w \in Writers,
               Accept(r, w) \/ AdmitWriter(r, w) \/ DenyWriter(r, w) \/ LearnEpoch(r)
        PROVE  Inv'
    BY <1>2, QuietInv
  <1>3. ASSUME NEW r \in Readers, Project(r) PROVE Inv'
    BY <1>3, ProjectInv
  <1>4. CASE UNCHANGED vars
    <2>1. Logs'
      BY <1>4, StepLogs DEF Inv
    <2>2. \A s, u \in Writers : have[s][u] <= have'[s][u]
      BY <1>4 DEF vars, Inv, Logs, TypeOK, Cut
    <2>3. Fold' /\ Screen'
      BY <1>4, <2>1, <2>2, GrowthInv DEF vars
    <2>4. HistoryIsCausal' /\ ResolutionsNameTheirPast'
      BY <1>4 DEF vars, Inv, HistoryIsCausal, ResolutionsNameTheirPast, Authored, HappensBefore
    <2> QED BY <2>1, <2>3, <2>4 DEF Inv
  <1> QED
    BY <1>1, <1>2, <1>3, <1>4 DEF Next

\* The inductive invariant holds throughout.
LEMMA Invariance == Spec => []Inv
  BY InitInv, StepInv, PTL DEF Spec

\* Whatever a replica had stored when it authored, parents and backlinks make
\* a causal order that extends every log.
THEOREM CausalOrder == Spec => []HistoryIsCausal
  <1>1. Inv => HistoryIsCausal
    BY DEF Inv
  <1> QED BY <1>1, Invariance, PTL

\* The fold gives the same versions in every causal order: the ones nothing
\* folded so far supersedes.
THEOREM FoldIsOrderIndependent == Spec => []FoldMatchesHistory
  <1>1. Inv => FoldMatchesHistory
    BY DEF Inv, Fold
  <1> QED BY <1>1, Invariance, PTL

\* Every edit a projection has read is shown, or one made after it is.
THEOREM NothingIsLost == Spec => []NoSilentLoss
  <1>1. Inv => NoSilentLoss
    BY DEF Inv, Screen
  <1> QED BY <1>1, Invariance, PTL

-----------------------------------------------------------------------------
(* Resolutions validate, and versions do not come back *)

\* What a step can do to a replica: a step of its own projection, or nothing
\* to it while its history and logs grow.
LEMMA Frame ==
  ASSUME Inv, [Next]_vars, NEW s \in Readers
  PROVE  /\ \A y \in Authored : op'[y] = op[y]
         /\ \A u \in Writers : have[s][u] <= have'[s][u]
         /\ epochAt[s] <= epochAt'[s]
         /\ \/ Project(s)
            \/ /\ proj'[s] = proj[s] /\ shown'[s] = shown[s]
               /\ epochAt'[s] = epochAt[s] \/ proj[s].phase = "idle"
  <1> DEFINE Goal == /\ \A y \in Authored : op'[y] = op[y]
                     /\ \A u \in Writers : have[s][u] <= have'[s][u]
                     /\ epochAt[s] <= epochAt'[s]
                     /\ \/ Project(s)
                        \/ /\ proj'[s] = proj[s] /\ shown'[s] = shown[s]
                           /\ epochAt'[s] = epochAt[s] \/ proj[s].phase = "idle"
  <1>0. s \in Writers /\ Readers \subseteq Writers
    BY ConstantsAssumption
  <1>1. /\ have[s] \in [Writers -> Nat] /\ epochAt[s] \in Nat
        /\ proj \in [Writers -> Projection] /\ shown \in [Writers -> Shown]
        /\ epochAt \in [Writers -> 1..MaxEpoch]
        /\ Logs /\ HistoryIsCausal
    BY <1>0, ConstantsAssumption DEF Inv, Logs, TypeOK, Cut
  <1>2. ASSUME NEW r \in Writers, NEW d \in Docs, NEW body \in Contents \cup {Deleted},
               \/ AuthorPut(r, d, body)
               \/ AuthorDelete(r, d)
               \/ ResolveConflict(r, d, body)
        PROVE  Goal
    <2>0. PICK e \in Event : \E kind, names : NewEvent(r, kind, d, names, e)
      BY <1>1, <1>2, AuthorLogs
    <2>1. PICK kind, names : NewEvent(r, kind, d, names, e)
      BY <2>0
    <2>2. \A y \in Authored : op'[y] = op[y]
      BY <1>1, <2>1, NewEventPast DEF Authored
    <2>3. UNCHANGED <<proj, shown, epochAt>>
      BY <2>1 DEF NewEvent
    <2>4. \A u \in Writers : have[s][u] <= have'[s][u]
      <3>1. \A u \in Writers : have'[s][u] = have[s][u] \/ have'[s][u] = have[s][u] + 1
        BY <1>0, <1>1, <2>1 DEF NewEvent, Logs, TypeOK, Cut
      <3> QED BY <1>1, <3>1
    <2> QED BY <1>1, <2>2, <2>3, <2>4
  <1>3. ASSUME NEW r \in Writers, NEW w \in Writers, Accept(r, w) PROVE Goal
    BY <1>0, <1>1, <1>3, AcceptLogs
  <1>4. ASSUME NEW r \in Writers, NEW w \in Writers,
               AdmitWriter(r, w) \/ DenyWriter(r, w) PROVE Goal
    BY <1>1, <1>4 DEF AdmitWriter, DenyWriter
  <1>5. ASSUME NEW r \in Writers, LearnEpoch(r) PROVE Goal
    BY <1>0, <1>1, <1>5 DEF LearnEpoch
  <1>6. ASSUME NEW r \in Readers, Project(r) PROVE Goal
    <2>1. UNCHANGED <<op, have, epochAt>>
      BY <1>0, <1>1, <1>6, ProjectLogs
    <2>2. CASE r = s
      BY <1>1, <1>6, <2>1, <2>2
    <2>3. CASE r # s
      <3>1. proj'[s] = proj[s] /\ shown'[s] = shown[s]
        BY <1>0, <1>1, <1>6, <2>3
           DEF Project, BeginProjection, LoadLog, DecodeEvents, FoldEvent, FoldUndecodable,
               FailResolution, ReportFailure, FinishProjection
      <3> QED BY <1>1, <2>1, <3>1
    <2> QED BY <2>2, <2>3
  <1>7. CASE UNCHANGED vars
    BY <1>1, <1>7 DEF vars
  <1> QED
    BY <1>2, <1>3, <1>4, <1>5, <1>6, <1>7 DEF Next

\* A fold that meets an invalid resolution has passed over the version it
\* names: nothing else can be wrong with it.
LEMMA StepValidate ==
  ASSUME Inv, [Next]_vars, ResolutionsValidate
  PROVE  ResolutionsValidate'
  <1> SUFFICES ASSUME NEW s \in Readers, proj'[s].phase = "invalid"
               PROVE  Decoded(s)' # proj'[s].done
    BY DEF ResolutionsValidate
  <1>0. s \in Writers
    BY ConstantsAssumption
  <1>1. /\ Logs /\ HistoryIsCausal /\ ResolutionsNameTheirPast /\ FoldIsCausal
        /\ proj \in [Writers -> Projection] /\ proj[s] \in Projection
    BY <1>0 DEF Inv, Fold, Logs, TypeOK
  <1>2. CASE proj'[s] = proj[s] /\ (epochAt'[s] = epochAt[s] \/ proj[s].phase = "idle")
    <2>1. epochAt'[s] = epochAt[s] /\ Decoded(s) # proj[s].done
      BY <1>2 DEF ResolutionsValidate
    <2>2. \A y \in proj[s].done : op'[y] = op[y]
      BY <1>0, <1>1, Frame, DoneIsAuthored
    <2> QED BY <1>2, <2>1, <2>2 DEF Decoded, Decodable
  <1>3. CASE Project(s)
    <2>1. PICK x \in Id : FailResolution(s, x)
      <3>1. ASSUME NEW w \in Writers, LoadLog(s, w) PROVE FALSE
        BY <1>0, <1>1, <3>1 DEF LoadLog, Projection
      <3>2. ASSUME NEW x \in Id, FoldEvent(s, x) PROVE FALSE
        <4>1. proj'[s].phase = proj[s].phase
          BY <1>0, <1>1, <3>2 DEF FoldEvent, Projection
        <4> QED BY <3>2, <4>1 DEF FoldEvent, Ready
      <3>3. ASSUME NEW x \in Id, FoldUndecodable(s, x) PROVE FALSE
        <4>1. proj'[s].phase = proj[s].phase
          BY <1>0, <1>1, <3>3 DEF FoldUndecodable, Projection
        <4> QED BY <3>3, <4>1 DEF FoldUndecodable, Ready
      <3>4. ASSUME BeginProjection(s) PROVE FALSE
        <4>1. [Idle EXCEPT !.phase = "load", !.left = Writers].phase = "load"
          BY IdleType DEF Projection
        <4> QED BY <1>0, <1>1, <3>4, <4>1 DEF BeginProjection
      <3>5. ASSUME DecodeEvents(s) PROVE FALSE
        <4>1. proj'[s].phase \in {"fold", "undecodable"}
          BY <1>0, <1>1, <3>5 DEF DecodeEvents, Projection
        <4> QED BY <4>1
      <3>6. ASSUME ReportFailure(s) \/ FinishProjection(s) PROVE FALSE
        <4>1. proj'[s] = Idle
          BY <1>0, <1>1, <3>6 DEF ReportFailure, FinishProjection
        <4> QED BY <4>1, IdleType
      <3> QED BY <1>3, <3>1, <3>2, <3>3, <3>4, <3>5, <3>6 DEF Project
    <2>2. /\ Ready(s, x) /\ op[x].kind = "resolve" /\ ~ValidResolution(s, x)
          /\ UNCHANGED <<op, epochAt>>
      BY <2>1 DEF FailResolution
    <2>3. proj'[s].done = proj[s].done
      BY <1>0, <1>1, <2>1 DEF FailResolution, Projection
    <2>4. x \in Authored
      BY <1>0, <1>1, <2>2, StoredIsAuthored DEF Ready, Closed
    <2>5. PICK t \in op[x].names : t \notin Decoded(s)
      BY <1>1, <2>2, <2>4 DEF ValidResolution, ResolutionsNameTheirPast
    <2>6. t \in proj[s].done
      BY <1>1, <2>2, <2>4, <2>5 DEF ResolutionsNameTheirPast, HappensBefore, Ready
    <2>7. Decoded(s)' = Decoded(s)
      BY <2>2, <2>3 DEF Decoded, Decodable
    <2> QED BY <2>3, <2>5, <2>6, <2>7
  <1> QED BY <1>2, <1>3, Frame

\* A resolution of a conflict the author was shown, however stale, is valid in
\* every replica that can decode its history.
THEOREM ResolutionsAreValid == Spec => []ResolutionsValidate
  <1>1. Init => ResolutionsValidate
    BY IdleType, ConstantsAssumption DEF Init, ResolutionsValidate
  <1>2. Inv /\ ResolutionsValidate /\ [Next]_vars => ResolutionsValidate'
    BY StepValidate
  <1> QED BY <1>1, <1>2, Invariance, PTL DEF Spec

\* What was shown is still stored, whole, and typed.
LEMMA SeenFacts ==
  ASSUME Inv, SeenIsReadAgain, NEW s \in Readers, NEW x \in shown[s].seen
  PROVE  /\ x \in Authored /\ op[x] \in Event
         /\ \A y \in {x} \cup op[x].past : /\ y \in Stored(have[s])
                                            /\ y[1] \in Writers /\ y[2] \in Nat
  <1>0. s \in Writers
    BY ConstantsAssumption
  <1>1. x \in Stored(have[s]) /\ x \in Authored
    BY <1>0, StoredIsAuthored DEF Inv, Screen, ShownIsStored
  <1>2. op[x].past \subseteq Stored(have[s])
    BY DEF SeenIsReadAgain
  <1>3. \A y \in Stored(have[s]) : y[1] \in Writers /\ y[2] \in Nat
    BY DEF Stored, Id
  <1> QED BY <1>1, <1>2, <1>3, AuthoredIsEvent DEF Inv, Logs

\* A projection that finishes has everything the last one showed.
LEMMA FinishSeesAll ==
  ASSUME Inv, SeenIsReadAgain, NEW s \in Readers, FinishProjection(s)
  PROVE  shown[s].seen \subseteq Decoded(s)
  <1> SUFFICES ASSUME NEW x \in shown[s].seen PROVE x \in Decoded(s)
    OBVIOUS
  <1>1. proj[s].phase = "fold" /\ proj[s].done = Closed(proj[s].cut)
    BY DEF FinishProjection
  <1>2. Decodable(s, x) /\ proj[s].left = {}
    BY <1>1 DEF SeenIsReadAgain
  <1>3. \A y \in {x} \cup op[x].past : y[2] <= proj[s].cut[y[1]]
    BY <1>1, <1>2 DEF SeenIsReadAgain
  <1>4. \A y \in {x} \cup op[x].past : y \in Id
    BY SeenFacts DEF Stored
  <1>5. x \in Closed(proj[s].cut)
    BY <1>3, <1>4 DEF Closed, Stored
  <1> QED BY <1>1, <1>2, <1>5 DEF Decoded

\* What was shown stays readable: one case per action.
LEMMA StepSeen ==
  ASSUME Inv, [Next]_vars, SeenIsReadAgain
  PROVE  SeenIsReadAgain'
  <1> DEFINE Read(p, y) == p.phase = "idle" \/ y[1] \in p.left \/ y[2] <= p.cut[y[1]]
             Again(s) == /\ proj'[s].phase \notin {"idle", "load"} => proj'[s].left = {}
                         /\ \A x \in shown'[s].seen :
                              /\ op'[x].epoch \in FirstEpoch[s]..epochAt'[s]
                              /\ op'[x].past \subseteq Stored(have'[s])
                              /\ \A y \in {x} \cup op'[x].past : Read(proj'[s], y)
  <1> SUFFICES ASSUME NEW s \in Readers PROVE Again(s)
    BY DEF SeenIsReadAgain, Decodable, Stored
  <1>0. s \in Writers
    BY ConstantsAssumption
  <1>1. /\ Logs /\ FoldIsCausal /\ proj \in [Writers -> Projection] /\ proj[s] \in Projection
        /\ shown \in [Writers -> Shown] /\ have[s] \in [Writers -> 0..MaxSeq]
        /\ epochAt[s] \in Nat /\ FirstEpoch[s] \in Nat /\ proj[s].cut \in [Writers -> 0..MaxSeq]
    BY <1>0, ConstantsAssumption DEF Inv, Fold, Logs, TypeOK, Projection, Cut
  <1>2. CASE /\ proj'[s] = proj[s] /\ shown'[s] = shown[s]
    <2>1. ASSUME NEW x \in shown[s].seen
          PROVE  /\ op'[x].epoch \in FirstEpoch[s]..epochAt'[s]
                 /\ op'[x].past \subseteq Stored(have'[s])
                 /\ \A y \in {x} \cup op'[x].past : Read(proj[s], y)
      <3>1. op'[x] = op[x] /\ op[x].epoch \in Nat
        BY SeenFacts, Frame, ConstantsAssumption DEF Event
      <3>2. op[x].epoch \in FirstEpoch[s]..epochAt[s]
        BY DEF SeenIsReadAgain, Decodable
      <3>3. epochAt'[s] \in Nat /\ epochAt[s] <= epochAt'[s]
        <4>1. Logs'
          BY <1>1, StepLogs
        <4> QED BY <1>0, <4>1, Frame, ConstantsAssumption DEF Logs, TypeOK
      <3>4. Stored(have[s]) \subseteq Stored(have'[s])
        <4>1. have'[s] \in [Writers -> 0..MaxSeq]
          BY <1>0, <1>1, StepLogs DEF Logs, TypeOK, Cut
        <4>2. \A y \in Id : y[1] \in Writers /\ y[2] \in Nat
          BY DEF Id
        <4>3. \A u \in Writers : have[s][u] \in Nat /\ have'[s][u] \in Nat
          BY <1>1, <4>1
        <4> QED BY <4>2, <4>3, Frame DEF Stored
      <3>5. \A y \in {x} \cup op[x].past : Read(proj[s], y)
        BY DEF SeenIsReadAgain
      <3> QED BY <1>1, <3>1, <3>2, <3>3, <3>4, <3>5, SeenFacts
    <2> QED BY <1>2, <2>1 DEF SeenIsReadAgain
  <1>3. CASE Project(s)
    <2>1. UNCHANGED <<op, have, epochAt>>
      BY <1>0, <1>1, <1>3, ProjectLogs
    <2>2. ASSUME UNCHANGED shown,
                 proj'[s].phase \notin {"idle", "load"} => proj'[s].left = {},
                 \A x \in shown[s].seen : \A y \in {x} \cup op[x].past : Read(proj'[s], y)
          PROVE  Again(s)
      BY <2>1, <2>2 DEF SeenIsReadAgain, Decodable, Stored
    <2>3. \A x \in shown[s].seen : \A y \in {x} \cup op[x].past : Read(proj[s], y)
      BY DEF SeenIsReadAgain
    <2>4. proj[s].phase \notin {"idle", "load"} => proj[s].left = {}
      BY DEF SeenIsReadAgain
    <2>5. CASE BeginProjection(s)
      <3>1. proj'[s].phase = "load" /\ proj'[s].left = Writers
        <4>1. /\ [Idle EXCEPT !.phase = "load", !.left = Writers].phase = "load"
              /\ [Idle EXCEPT !.phase = "load", !.left = Writers].left = Writers
          BY IdleType DEF Projection
        <4> QED BY <1>0, <1>1, <2>5, <4>1 DEF BeginProjection
      <3> QED BY <2>2, <2>5, <3>1, SeenFacts DEF BeginProjection
    <2>6. ASSUME NEW w \in Writers, LoadLog(s, w) PROVE Again(s)
      <3>1. /\ proj'[s].phase = "load" /\ proj[s].phase = "load"
            /\ proj'[s].left = proj[s].left \ {w}
            /\ proj'[s].cut = [proj[s].cut EXCEPT ![w] = have[s][w]]
        BY <1>0, <1>1, <2>6 DEF LoadLog, Projection
      <3>2. \A u \in Writers : proj'[s].cut[u] = IF u = w THEN have[s][u] ELSE proj[s].cut[u]
        BY <1>1, <3>1
      <3>3. ASSUME NEW x \in shown[s].seen, NEW y \in {x} \cup op[x].past
            PROVE  Read(proj'[s], y)
        <4>1. y[1] \in Writers /\ y[2] <= have[s][y[1]]
          BY SeenFacts DEF Stored
        <4>2. y[1] \in proj[s].left \/ y[2] <= proj[s].cut[y[1]]
          BY <2>3, <3>1
        <4> QED BY <3>1, <3>2, <4>1, <4>2
      <3> QED BY <2>2, <2>6, <3>1, <3>3 DEF LoadLog
    <2>7. ASSUME proj'[s].left = proj[s].left, proj'[s].cut = proj[s].cut,
                 proj[s].phase # "idle", proj[s].left = {}, UNCHANGED shown
          PROVE  Again(s)
      BY <2>2, <2>3, <2>7
    <2>8. CASE DecodeEvents(s)
      BY <1>0, <1>1, <2>7, <2>8 DEF DecodeEvents, Projection
    <2>9. ASSUME NEW x \in Id, FoldEvent(s, x) PROVE Again(s)
      <3>1. proj[s].phase = "fold" /\ UNCHANGED shown
        BY <2>9 DEF FoldEvent, Ready
      <3>2. proj'[s].left = proj[s].left /\ proj'[s].cut = proj[s].cut
        BY <1>0, <1>1, <2>9 DEF FoldEvent, Projection
      <3> QED BY <2>4, <2>7, <3>1, <3>2
    <2>10. ASSUME NEW x \in Id, FoldUndecodable(s, x) PROVE Again(s)
      <3>1. proj[s].phase = "fold" /\ UNCHANGED shown
        BY <2>10 DEF FoldUndecodable, Ready
      <3>2. proj'[s].left = proj[s].left /\ proj'[s].cut = proj[s].cut
        BY <1>0, <1>1, <2>10 DEF FoldUndecodable, Projection
      <3> QED BY <2>4, <2>7, <3>1, <3>2
    <2>11. ASSUME NEW x \in Id, FailResolution(s, x) PROVE Again(s)
      <3>1. proj[s].phase = "fold" /\ UNCHANGED shown
        BY <2>11 DEF FailResolution, Ready
      <3>2. proj'[s].left = proj[s].left /\ proj'[s].cut = proj[s].cut
        BY <1>0, <1>1, <2>11 DEF FailResolution, Projection
      <3> QED BY <2>4, <2>7, <3>1, <3>2
    <2>12. CASE ReportFailure(s)
      <3>1. proj'[s].phase = "idle" /\ UNCHANGED shown
        BY <1>0, <1>1, <2>12, IdleType DEF ReportFailure
      <3> QED BY <2>2, <3>1
    <2>13. CASE FinishProjection(s)
      <3>1. proj'[s].phase = "idle"
        BY <1>0, <1>1, <2>13, IdleType DEF FinishProjection
      <3>2. shown'[s].seen = Decoded(s)
        BY <1>0, <1>1, <2>13 DEF FinishProjection
      <3>3. ASSUME NEW x \in Decoded(s)
            PROVE  op[x].epoch \in FirstEpoch[s]..epochAt[s] /\ op[x].past \subseteq Stored(have[s])
        <4>1. x \in Closed(proj[s].cut) /\ Decodable(s, x)
          BY <1>0, <1>1 DEF Decoded, FoldIsCausal
        <4> QED BY <1>0, <1>1, <4>1, StoredIsAuthored DEF Closed, Decodable
      <3> QED BY <2>1, <3>1, <3>2, <3>3 DEF Stored
    <2> QED BY <1>3, <2>5, <2>6, <2>8, <2>9, <2>10, <2>11, <2>12, <2>13 DEF Project
  <1> QED BY <1>2, <1>3, Frame

\* What is shown stays what the events it was computed from leave.
LEMMA StepScreen ==
  ASSUME Inv, [Next]_vars, SeenIsReadAgain, ShownMatchesHistory
  PROVE  ShownMatchesHistory'
  <1> SUFFICES ASSUME NEW s \in Readers, NEW d \in Docs
               PROVE  Versions(shown'[s].versions, d) =
                        {x \in shown'[s].seen : op'[x].doc = d
                           /\ \A y \in shown'[s].seen : ~Supersedes(y, x)'}
    BY DEF ShownMatchesHistory, Versions
  <1>0. s \in Writers
    BY ConstantsAssumption
  <1>1. /\ Logs /\ FoldMatchesHistory
        /\ proj \in [Writers -> Projection] /\ shown \in [Writers -> Shown]
    BY DEF Inv, Fold, Logs, TypeOK
  <1>2. CASE shown'[s] = shown[s]
    <2>1. \A x \in shown[s].seen : op'[x] = op[x]
      BY SeenFacts, Frame
    <2>2. \A x, y \in shown[s].seen : Supersedes(y, x)' <=> Supersedes(y, x)
      BY <2>1 DEF Supersedes, HappensBefore
    <2> QED BY <1>2, <2>1, <2>2 DEF ShownMatchesHistory
  <1>3. CASE FinishProjection(s)
    <2>1. /\ shown'[s].seen = Decoded(s) /\ shown'[s].versions = proj[s].current
          /\ UNCHANGED op
      BY <1>0, <1>1, <1>3 DEF FinishProjection
    <2> QED BY <1>1, <2>1 DEF FoldMatchesHistory, Supersedes, HappensBefore
  <1>4. CASE Project(s) /\ ~FinishProjection(s)
    <2>1. UNCHANGED shown
      BY <1>4 DEF Project, BeginProjection, LoadLog, DecodeEvents, FoldEvent,
                  FoldUndecodable, FailResolution, ReportFailure
    <2> QED BY <1>2, <2>1
  <1> QED BY <1>2, <1>3, <1>4, Frame

\* What one step does to what a replica shows.
LEMMA StepForward ==
  ASSUME Inv, [Next]_vars, SeenIsReadAgain, ShownMatchesHistory, NEW s \in Readers
  PROVE  /\ shown[s].seen \subseteq shown'[s].seen
         /\ \A d \in Docs : shown[s].seen \cap Versions(shown'[s].versions, d)
                              \subseteq Versions(shown[s].versions, d)
  <1>0. s \in Writers
    BY ConstantsAssumption
  <1>1. /\ Logs /\ FoldMatchesHistory
        /\ proj \in [Writers -> Projection] /\ shown \in [Writers -> Shown]
    BY DEF Inv, Fold, Logs, TypeOK
  <1>2. CASE shown'[s] = shown[s]
    BY <1>2
  <1>3. CASE FinishProjection(s)
    <2>1. shown'[s].seen = Decoded(s) /\ shown'[s].versions = proj[s].current
      BY <1>0, <1>1, <1>3 DEF FinishProjection
    <2>2. shown[s].seen \subseteq Decoded(s)
      BY <1>3, FinishSeesAll
    <2>3. ASSUME NEW d \in Docs, NEW v \in shown[s].seen \cap Versions(proj[s].current, d)
          PROVE  v \in Versions(shown[s].versions, d)
      <3>1. op[v].doc = d /\ \A y \in Decoded(s) : ~Supersedes(y, v)
        BY <1>1 DEF FoldMatchesHistory
      <3> QED BY <2>2, <3>1 DEF ShownMatchesHistory
    <2> QED BY <2>1, <2>2, <2>3
  <1>4. CASE Project(s) /\ ~FinishProjection(s)
    <2>1. UNCHANGED shown
      BY <1>4 DEF Project, BeginProjection, LoadLog, DecodeEvents, FoldEvent,
                  FoldUndecodable, FailResolution, ReportFailure
    <2> QED BY <1>2, <2>1
  <1> QED BY <1>2, <1>3, <1>4, Frame

\* A projection never knows less than the one before it, and a version once
\* superseded stays superseded.
THEOREM VersionsDoNotComeBack == Spec => NoResurrection
  <1> DEFINE Forward == \A r \in Readers :
               /\ shown[r].seen \subseteq shown'[r].seen
               /\ \A d \in Docs :
                    shown[r].seen \cap Versions(shown'[r].versions, d)
                      \subseteq Versions(shown[r].versions, d)
             Kept == SeenIsReadAgain /\ ShownMatchesHistory
  <1>1. Init => Kept
    <2> SUFFICES ASSUME Init PROVE Kept
      OBVIOUS
    <2>1. \A r \in Readers : /\ shown[r] = NothingShown /\ proj[r] = Idle
      BY ConstantsAssumption DEF Init
    <2>2. \A d \in Docs : Versions(NoVersions, d) = {}
      <3>1. \A x \in Id : x[1] \in Writers /\ x[2] # 0
        BY DEF Id
      <3> QED BY <3>1 DEF Versions, NoVersions, NothingStored
    <2> QED BY <2>1, <2>2, IdleType DEF SeenIsReadAgain, ShownMatchesHistory, NothingShown
  <1>2. Inv /\ Kept /\ [Next]_vars => Kept'
    BY StepSeen, StepScreen
  <1>3. Inv /\ Kept /\ [Next]_vars => [Forward]_vars
    BY StepForward
  <1>4. Spec => [][Forward]_vars
    <2> HIDE DEF Kept, Forward
    <2> QED BY <1>1, <1>2, <1>3, Invariance, PTL DEF Spec
  <1> QED BY <1>4 DEF NoResurrection

=============================================================================
