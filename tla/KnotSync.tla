------------------------------ MODULE KnotSync ------------------------------
(***************************************************************************)
(* The replicated vault of Knot (crates/knot-editor/src/sync.rs).          *)
(*                                                                         *)
(* Every writer keeps a signed log of its own events and a replica of the  *)
(* other writers' logs.  An event names the heads its author had stored    *)
(* (KnotSyncExt::parents), so the events form a causal graph.  A replica   *)
(* takes the events of admitted writers, in the order of each log but in   *)
(* any order across logs, and folds those whose whole causal history it    *)
(* has stored into document versions: Put and Delete replace what they     *)
(* observed, Resolve replaces what it names, concurrent versions stay      *)
(* side by side.                                                           *)
(*                                                                         *)
(* The fold is one action per event, so TLC and the proofs see every       *)
(* causal order it may be done in.  What is read without the mutation gate *)
(* (the logs, one after the other) is read in steps of its own; what runs  *)
(* under the gate (authoring, accepting) is one action.                    *)
(***************************************************************************)
EXTENDS Naturals, FiniteSets

CONSTANTS
  Writers,      \* the devices, each the author of one log and one replica
  Readers,      \* bound: the replicas whose projections are followed
  Docs,         \* document ids
  Contents,     \* what a document can say: one-line texts
  Deleted,      \* the tombstone of Delete
  MaxSeq,       \* bound: events in one log
  MaxOps,       \* bound: events in all logs together
  MaxDenials,   \* bound: how often writers are denied
  MaxParents,   \* KNOT_CAUSAL_LIMITS.max_parents
  MaxEpoch,     \* bound: data-key epochs
  FirstEpoch,   \* FirstEpoch[r]: the oldest epoch whose key r was ever given
  Tolerant      \* KnotProjectionStrictness::Tolerant instead of Strict

ASSUME ConstantsAssumption ==
  /\ IsFiniteSet(Writers) /\ Readers \subseteq Writers
  /\ Deleted \notin Contents
  /\ {MaxSeq, MaxOps, MaxDenials, MaxParents, MaxEpoch} \subseteq Nat
  /\ FirstEpoch \in [Writers -> 1..MaxEpoch]
  /\ Tolerant \in BOOLEAN

VARIABLES
  op,        \* op[x]: event x = <<writer, sequence number>>, once authored
  have,      \* have[r][w]: how much of w's log replica r has stored
  admitted,  \* admitted[r]: the writers r's policy admits
  denials,   \* denials so far
  epochAt,   \* epochAt[r]: the newest epoch whose key r holds
  proj,      \* proj[r]: the projection r is computing
  shown      \* shown[r]: the last projection r finished

vars == <<op, have, admitted, denials, epochAt, proj, shown>>

-----------------------------------------------------------------------------
(* Events and the causal graph *)

Id == Writers \X (1..MaxSeq)

\* The part of a KnotSyncEvent, its header and its sealed body that the
\* document fold looks at.  Put and Delete differ in the body only.  past is
\* what CausalIndex::happens_before answers from: everything reachable over
\* parents and backlinks.
Event == [kind  : {"put", "resolve"},
          doc   : Docs,
          body  : Contents \cup {Deleted},
          names : SUBSET Id,
          past  : SUBSET Id,
          epoch : 1..MaxEpoch]

NoEvent == [kind |-> "none"]

HappensBefore(x, y) == x \in op[y].past

\* The events of a cut: so much of every log.
Stored(cut) == {x \in Id : x[2] <= cut[x[1]]}

\* Mutant of Closed: the last event of every log is left out.
ClosedWithoutHeads(cut) ==
  {x \in Stored(cut) : op[x].past \subseteq Stored(cut) /\ x[2] < cut[x[1]]}

\* causal_projection: the events whose whole history is in the cut.
Closed(cut) == {x \in Stored(cut) : op[x].past \subseteq Stored(cut)}

\* Mutants of Frontier: the author's own log, or everybody else's.
OwnHead(r) == {x \in Id : x[2] = have[r][x[1]] /\ x[1] = r}

OtherHeads(r) == {x \in Id : x[2] = have[r][x[1]] /\ x[1] # r}

\* observed_frontier: the head of every log that has one, closed or not.
Frontier(r) == {x \in Id : x[2] = have[r][x[1]]}

NothingStored == [w \in Writers |-> 0]

-----------------------------------------------------------------------------
(* Versions: current[d][w] is the sequence number of w's version of d *)

Versions(current, d) == {x \in Id : current[d][x[1]] = x[2]}

NoVersions == [d \in Docs |-> NothingStored]

\* Mutant of Decodable: only the newest key is tried.
DecodableByNewestKey(r, x) == op[x].epoch = epochAt[r]

\* Keys: a reader that joined in FirstEpoch never gets the older ones.
Decodable(r, x) == op[x].epoch \in FirstEpoch[r]..epochAt[r]

\* The events of the fold so far that were decoded.
Decoded(r) == {x \in proj[r].done : Decodable(r, x)}

-----------------------------------------------------------------------------
(* automatic_text_merge, on one-line texts *)

\* merge_scalar, and merge_text_lines where both sides edit the same line.
MergeScalar(base, left, right) ==
  IF left = right THEN {left}
  ELSE IF left = base THEN {right}
  ELSE IF right = base THEN {left}
  ELSE {}

\* The base is the event for d before both versions that comes last in the
\* order of the fold: one of the maximal ones, whichever the order puts last.
MergeBases(decoded, d, pair) ==
  LET common == {b \in decoded : /\ op[b].doc = d
                                 /\ op[b].body # Deleted
                                 /\ \A v \in pair : HappensBefore(b, v)}
  IN {b \in common : \A c \in common : ~HappensBefore(b, c)}

\* May the document be settled without its writers, from some base?
MayMerge(decoded, d, versions) ==
  /\ Cardinality(versions) = 2
  /\ \A v \in versions : op[v].body # Deleted
  /\ \E b \in MergeBases(decoded, d, versions) :
       \E v, w \in versions :
         /\ v # w
         /\ MergeScalar(op[b].body, op[v].body, op[w].body) # {}

\* May it be left as a conflict, from some base or because there is none?
MayConflict(decoded, d, versions) ==
  /\ Cardinality(versions) >= 2
  /\ \/ Cardinality(versions) > 2
     \/ \E v \in versions : op[v].body = Deleted
     \/ MergeBases(decoded, d, versions) = {}
     \/ \E b \in MergeBases(decoded, d, versions) :
          \E v, w \in versions :
            /\ v # w
            /\ MergeScalar(op[b].body, op[v].body, op[w].body) = {}

-----------------------------------------------------------------------------
Idle == [phase |-> "idle", left |-> {}, cut |-> NothingStored,
         done |-> {}, current |-> NoVersions]

NothingShown == [versions |-> NoVersions, conflicts |-> {}, seen |-> {}]

Init ==
  /\ op = [x \in Id |-> NoEvent]
  /\ have = [r \in Writers |-> NothingStored]
  /\ admitted = [r \in Writers |-> Writers]
  /\ denials = 0
  /\ epochAt = FirstEpoch
  /\ proj = [r \in Writers |-> Idle]
  /\ shown = [r \in Writers |-> NothingShown]

-----------------------------------------------------------------------------
(* Authoring, under the mutation gate *)

Authored == {x \in Id : op[x] # NoEvent}

\* Mutant of Author: sealed under the epoch before the newest.
AuthorUnderOldKey(r, kind, d, body, names) ==
  LET x == <<r, have[r][r] + 1>>
      parents == Frontier(r)
  IN /\ have[r][r] < MaxSeq
     /\ Cardinality(Authored) < MaxOps
     /\ op' = [op EXCEPT ![x] =
                 [kind |-> kind, doc |-> d, body |-> body, names |-> names,
                  past |-> UNION {{p} \cup op[p].past : p \in parents},
                  epoch |-> epochAt[r] - 1]]
     /\ have' = [have EXCEPT ![r][r] = @ + 1]
     /\ UNCHANGED <<admitted, denials, epochAt, proj, shown>>

\* author_under_gate: the event follows the writer's own head and names every
\* head the replica has stored; accept_under_gate puts it through the same
\* policy as a received one, so a writer this replica denies cannot author.
Author(r, kind, d, body, names) ==
  LET x == <<r, have[r][r] + 1>>
      parents == Frontier(r)
  IN /\ have[r][r] < MaxSeq
     /\ Cardinality(Authored) < MaxOps
     /\ Cardinality(parents) <= MaxParents
     /\ r \in admitted[r]
     /\ op' = [op EXCEPT ![x] =
                 [kind |-> kind, doc |-> d, body |-> body, names |-> names,
                  past |-> UNION {{p} \cup op[p].past : p \in parents},
                  epoch |-> epochAt[r]]]
     /\ have' = [have EXCEPT ![r][r] = @ + 1]
     /\ UNCHANGED <<admitted, denials, epochAt, proj, shown>>

AuthorPut(r, d, body) == body # Deleted /\ Author(r, "put", d, body, {})

AuthorDelete(r, d) == Author(r, "put", d, Deleted, {})

\* resolve_conflict: the conflict is one this replica was shown, however many
\* events it has authored or accepted since.
ResolveConflict(r, d, body) ==
  /\ d \in shown[r].conflicts
  /\ Author(r, "resolve", d, body, Versions(shown[r].versions, d))

-----------------------------------------------------------------------------
(* Replication and admission *)

\* accept: the next event of w's log, from a replica that has it.  A repeated
\* event, one out of the log's order and one of a writer that is not admitted
\* change nothing.
Accept(r, w) ==
  /\ w \in admitted[r]
  /\ \E s \in Writers : have[s][w] > have[r][w]
  /\ have' = [have EXCEPT ![r][w] = @ + 1]
  /\ UNCHANGED <<op, admitted, denials, epochAt, proj, shown>>

\* admit_writer, and a replace_admitted_writers that adds w.
AdmitWriter(r, w) ==
  /\ w \notin admitted[r]
  /\ admitted' = [admitted EXCEPT ![r] = @ \cup {w}]
  /\ UNCHANGED <<op, have, denials, epochAt, proj, shown>>

\* deny_writer, and a replace_admitted_writers that drops w: what is stored
\* stays.
DenyWriter(r, w) ==
  /\ w \in admitted[r]
  /\ denials < MaxDenials
  /\ admitted' = [admitted EXCEPT ![r] = @ \ {w}]
  /\ denials' = denials + 1
  /\ UNCHANGED <<op, have, epochAt, proj, shown>>

\* The next data-key epoch reaches r.  A projection borrows the keyring, so
\* it does not change under one.
LearnEpoch(r) ==
  /\ epochAt[r] < MaxEpoch
  /\ proj[r].phase = "idle"
  /\ epochAt' = [epochAt EXCEPT ![r] = @ + 1]
  /\ UNCHANGED <<op, have, admitted, denials, proj, shown>>

-----------------------------------------------------------------------------
(* Projecting, outside the mutation gate *)

BeginProjection(r) ==
  /\ proj[r].phase = "idle"
  /\ proj' = [proj EXCEPT ![r] = [Idle EXCEPT !.phase = "load", !.left = Writers]]
  /\ UNCHANGED <<op, have, admitted, denials, epochAt, shown>>

\* Mutant of LoadLog: a read that may miss the newest events.
LoadLogShort(r, w) ==
  /\ proj[r].phase = "load"
  /\ w \in proj[r].left
  /\ \E n \in 0..have[r][w] :
       proj' = [proj EXCEPT ![r].left = @ \ {w}, ![r].cut[w] = n]
  /\ UNCHANGED <<op, have, admitted, denials, epochAt, shown>>

\* load_operations reads one log after the other, and events are accepted
\* meanwhile: the cut need not be one the store ever was in.
LoadLog(r, w) ==
  /\ proj[r].phase = "load"
  /\ w \in proj[r].left
  /\ LET p == proj[r] IN
     proj' = [proj EXCEPT ![r] = [p EXCEPT !.left = p.left \ {w},
                                           !.cut = [p.cut EXCEPT ![w] = have[r][w]]]]
  /\ UNCHANGED <<op, have, admitted, denials, epochAt, shown>>

\* All bodies are decoded before the fold starts; Strict fails on the first it
\* cannot decode, and the caller keeps what it was shown before.
DecodeEvents(r) ==
  /\ proj[r].phase = "load"
  /\ proj[r].left = {}
  /\ proj' = [proj EXCEPT ![r].phase =
                IF Tolerant \/ \A x \in Closed(proj[r].cut) : Decodable(r, x)
                THEN "fold" ELSE "undecodable"]
  /\ UNCHANGED <<op, have, admitted, denials, epochAt, shown>>

\* Mutant of Ready: events in any order.
ReadyInAnyOrder(r, x) ==
  /\ proj[r].phase = "fold"
  /\ x \in Closed(proj[r].cut) \ proj[r].done

\* causal_projection's order: any event whose history has been folded.
Ready(r, x) ==
  /\ proj[r].phase = "fold"
  /\ x \in Closed(proj[r].cut) \ proj[r].done
  /\ op[x].past \subseteq proj[r].done

\* validate_resolution: the versions are distinct (names is a set), of this
\* document, known to the fold, and before the resolution.
ValidResolution(r, x) ==
  /\ op[x].names # {}
  /\ Cardinality(op[x].names) <= MaxParents
  /\ \A t \in op[x].names : /\ t \in Decoded(r)
                            /\ op[t].doc = op[x].doc
                            /\ HappensBefore(t, x)

\* Mutant of Retained: the new version replaces all others.
RetainedNone(r, x) == [w \in Writers |-> IF w = x[1] THEN x[2] ELSE 0]

\* The versions of x's document that x leaves in place: retain(), then
\* insert() under the writer's key.
Retained(r, x) ==
  LET cur == proj[r].current[op[x].doc]
      drops(v) == IF op[x].kind = "put" THEN HappensBefore(v, x)
                                        ELSE v \in op[x].names
  IN [w \in Writers |-> IF w = x[1] THEN x[2]
                        ELSE IF cur[w] # 0 /\ drops(<<w, cur[w]>>) THEN 0
                        ELSE cur[w]]

\* One turn of the fold.  An event that was not decoded is passed over; an
\* invalid resolution ends the whole projection.
FoldEvent(r, x) ==
  /\ Ready(r, x)
  /\ Decodable(r, x)
  /\ op[x].kind = "resolve" => ValidResolution(r, x)
  /\ LET p == proj[r] IN
     proj' = [proj EXCEPT ![r] =
                [p EXCEPT !.done = p.done \cup {x},
                          !.current = [p.current EXCEPT ![op[x].doc] = Retained(r, x)]]]
  /\ UNCHANGED <<op, have, admitted, denials, epochAt, shown>>

FoldUndecodable(r, x) ==
  /\ Ready(r, x)
  /\ ~Decodable(r, x)
  /\ proj' = [proj EXCEPT ![r].done = @ \cup {x}]
  /\ UNCHANGED <<op, have, admitted, denials, epochAt, shown>>

FailResolution(r, x) ==
  /\ Ready(r, x)
  /\ Decodable(r, x)
  /\ op[x].kind = "resolve" /\ ~ValidResolution(r, x)
  /\ proj' = [proj EXCEPT ![r].phase = "invalid"]
  /\ UNCHANGED <<op, have, admitted, denials, epochAt, shown>>

\* The caller of a failed projection gets the error and may ask again.
ReportFailure(r) ==
  /\ proj[r].phase \in {"undecodable", "invalid"}
  /\ proj' = [proj EXCEPT ![r] = Idle]
  /\ UNCHANGED <<op, have, admitted, denials, epochAt, shown>>

\* The current versions become documents, automatic merges and conflicts.
FinishProjection(r) ==
  /\ proj[r].phase = "fold"
  /\ proj[r].done = Closed(proj[r].cut)
  /\ \E conflicts \in SUBSET Docs :
       /\ \A d \in Docs :
            LET vs == Versions(proj[r].current, d) IN
            IF d \in conflicts THEN MayConflict(Decoded(r), d, vs)
            ELSE Cardinality(vs) <= 1 \/ MayMerge(Decoded(r), d, vs)
       /\ shown' = [shown EXCEPT ![r] = [versions  |-> proj[r].current,
                                         conflicts |-> conflicts,
                                         seen      |-> Decoded(r)]]
  /\ proj' = [proj EXCEPT ![r] = Idle]
  /\ UNCHANGED <<op, have, admitted, denials, epochAt>>

-----------------------------------------------------------------------------
Project(r) ==
  \/ BeginProjection(r)
  \/ \E w \in Writers : LoadLog(r, w)
  \/ DecodeEvents(r)
  \/ \E x \in Id : FoldEvent(r, x) \/ FoldUndecodable(r, x) \/ FailResolution(r, x)
  \/ ReportFailure(r)
  \/ FinishProjection(r)

Next ==
  \/ \E r \in Writers, d \in Docs :
       \/ \E body \in Contents : AuthorPut(r, d, body)
       \/ AuthorDelete(r, d)
       \/ \E body \in Contents \cup {Deleted} : ResolveConflict(r, d, body)
  \/ \E r, w \in Writers : Accept(r, w) \/ AdmitWriter(r, w) \/ DenyWriter(r, w)
  \/ \E r \in Writers : LearnEpoch(r)
  \/ \E r \in Readers : Project(r)

Spec == Init /\ [][Next]_vars

\* LogSync keeps offering what a peer lacks, and the application projects again
\* after every change (DocumentsChanged): both keep being tried.  Nobody has to
\* author, deny, admit or rotate.
FairSpec ==
  /\ Spec
  /\ \A r, w \in Writers : WF_vars(Accept(r, w))
  /\ \A r \in Readers : WF_vars(Project(r))

-----------------------------------------------------------------------------
(* Correctness *)

Cut == [Writers -> 0..MaxSeq]

Current == [Docs -> Cut]

Projection == [phase : {"idle", "load", "fold", "undecodable", "invalid"},
               left : SUBSET Writers, cut : Cut,
               done : SUBSET Id, current : Current]

Shown == [versions : Current, conflicts : SUBSET Docs, seen : SUBSET Id]

\* Type invariant: logs, replicas, keys, folds and screens stay in their bounds,
\* and every stored event is sealed under a key epoch that exists.
TypeOK ==
  /\ op \in [Id -> Event \cup {NoEvent}]
  /\ have \in [Writers -> Cut]
  /\ admitted \in [Writers -> SUBSET Writers]
  /\ denials \in 0..MaxDenials
  /\ epochAt \in [Writers -> 1..MaxEpoch]
  /\ proj \in [Writers -> Projection]
  /\ shown \in [Writers -> Shown]

\* The events form a causal order that extends every log: parents and
\* backlinks make an event follow its writer's earlier events and everything
\* those followed, and never itself, whatever the replica had stored, pending
\* events included.
HistoryIsCausal ==
  \A x \in Authored :
    /\ x \notin op[x].past
    /\ \A n \in 1..(x[2] - 1) : <<x[1], n>> \in op[x].past
    /\ \A y \in op[x].past : y \in Authored /\ op[y].past \subseteq op[x].past

\* y takes the place of x.
Supersedes(y, x) ==
  /\ HappensBefore(x, y)
  /\ op[x].doc = op[y].doc
  /\ op[y].kind = "put" \/ x \in op[y].names \/ x[1] = y[1]

\* Whatever causal order the events are folded in, and whatever was accepted
\* while the logs were being read, the fold holds exactly the versions nothing
\* folded so far supersedes: two replicas with the same events project the
\* same documents.
FoldMatchesHistory ==
  \A r \in Readers, d \in Docs :
    Versions(proj[r].current, d) =
      {x \in Decoded(r) : op[x].doc = d /\ \A y \in Decoded(r) : ~Supersedes(y, x)}

\* No edit disappears: every version a projection has read is shown, or a
\* shown version was written after it by someone who had it.
NoSilentLoss ==
  \A r \in Readers : \A x \in shown[r].seen :
    \E v \in Versions(shown[r].versions, op[x].doc) : v = x \/ HappensBefore(x, v)

\* One bad resolution fails the whole projection, and authoring does not
\* validate it: still, a conflict a replica was shown, resolved however late,
\* passes validate_resolution in every replica that can decode its history.
ResolutionsValidate ==
  \A r \in Readers : proj[r].phase = "invalid" => Decoded(r) # proj[r].done

\* A later projection never knows less, and a version that was superseded
\* never comes back, even when logs are read while they grow, writers are
\* denied and keys arrive late.
NoResurrection ==
  [][\A r \in Readers :
       /\ shown[r].seen \subseteq shown'[r].seen
       /\ \A d \in Docs :
            shown[r].seen \cap Versions(shown'[r].versions, d)
              \subseteq Versions(shown[r].versions, d)]_vars

\* Once nobody is denied any more, every event reaches every projection,
\* pending or not when it first arrived.
EventuallySeen ==
  (<>[](\A r \in Writers : admitted[r] = Writers)) =>
    \A r \in Readers, x \in Id : (op[x] # NoEvent) ~> (x \in shown[r].seen)

-----------------------------------------------------------------------------
(* The inductive invariant behind them *)

\* A replica has a prefix of what each writer authored, a projection one of
\* what its replica has.
LogsArePrefixes ==
  /\ \A r, w \in Writers : have[r][w] <= have[w][w]
  /\ \A r, w \in Writers : proj[r].cut[w] <= have[r][w]
  /\ \A x \in Id : op[x] # NoEvent <=> x[2] <= have[x[1]][x[1]]

\* A resolution names earlier versions of its own document, as many as its
\* author had stored logs at most.
ResolutionsNameTheirPast ==
  \A x \in Authored : op[x].kind = "resolve" =>
    /\ op[x].names # {}
    /\ Cardinality(op[x].names) <= MaxParents
    /\ \A t \in op[x].names : HappensBefore(t, x) /\ op[t].doc = op[x].doc

\* A projection folds the closed part of what it read, in causal order.
FoldIsCausal ==
  \A r \in Writers :
    /\ proj[r].done \subseteq Closed(proj[r].cut)
    /\ \A x \in proj[r].done : op[x].past \subseteq proj[r].done
    /\ proj[r].phase \in {"idle", "load"} => proj[r].done = {} /\ proj[r].current = NoVersions

\* The same of the fold as it goes.
FoldLosesNothing ==
  \A r \in Readers : \A x \in Decoded(r) :
    \E v \in Versions(proj[r].current, op[x].doc) : v = x \/ HappensBefore(x, v)

\* What is shown was stored, and every version shown is a version of its
\* document.
ShownIsStored ==
  \A r \in Writers :
    /\ shown[r].seen \subseteq Stored(have[r])
    /\ \A d \in Docs : \A v \in Versions(shown[r].versions, d) :
         v \in shown[r].seen /\ op[v].doc = d
    /\ \A d \in shown[r].conflicts : Versions(shown[r].versions, d) # {}

\* What was shown can be read again: it is stored with its whole history, its
\* key is held, and a projection has read it from the logs it got to.
SeenIsReadAgain ==
  \A r \in Readers :
    /\ proj[r].phase \notin {"idle", "load"} => proj[r].left = {}
    /\ \A x \in shown[r].seen :
         /\ Decodable(r, x)
         /\ op[x].past \subseteq Stored(have[r])
         /\ \A y \in {x} \cup op[x].past :
              \/ proj[r].phase = "idle"
              \/ y[1] \in proj[r].left
              \/ y[2] <= proj[r].cut[y[1]]

\* FoldMatchesHistory, of the screen.
ShownMatchesHistory ==
  \A r \in Readers, d \in Docs :
    Versions(shown[r].versions, d) =
      {x \in shown[r].seen : op[x].doc = d /\ \A y \in shown[r].seen : ~Supersedes(y, x)}

-----------------------------------------------------------------------------
(* What the documentation says and the code does otherwise *)

\* sync.rs:176: "Replace the named causal document versions with one chosen
\* value": a version that only a resolution not naming it came after is kept.
ResolutionReplacesOnlyNamed ==
  \A r \in Readers, x \in Id :
    /\ x \in Decoded(r)
    /\ \A y \in Decoded(r) :
         Supersedes(y, x) => op[y].kind = "resolve" /\ x \notin op[y].names
    => x \in Versions(proj[r].current, op[x].doc)

\* sync.rs:1050: "Under Tolerant an undecodable closed event is reported, not
\* fatal".
TolerantProjects ==
  Tolerant => \A r \in Readers : proj[r].phase \notin {"undecodable", "invalid"}

=============================================================================
