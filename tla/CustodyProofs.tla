---------------------------- MODULE CustodyProofs ----------------------------
(***************************************************************************)
(* What is proved of Custody, for every set of logs and every bound.       *)
(***************************************************************************)
EXTENDS Custody, TLAPS

-----------------------------------------------------------------------------
(* The inductive invariant.  The history is a parameter, so that the same   *)
(* operators speak of the state before and after a step.                    *)

\* The history w has the operations the frontier h counts.
Within(w, h) == \A l \in Logs : h[l] <= Len(w[l])

\* Build, from the history w.
BuiltFrom(w, h) ==
  [heads |-> h,
   pending |-> Places(h) \ {p \in Places(h) : \A l \in Logs : w[p[1]][p[2]].seen[l] <= h[l]},
   snapshot |-> TRUE]

\* The checkpoint, if there is one, covers no more than the file holds.
Covered(f) ==
  f.checkpoint.value # None => \A l \in Logs : f.checkpoint.value.heads[l] <= f.held[l]

\* What the marker says of the protected records of f.
RecordsTrue(w, f) ==
  /\ f.checkpoint.sealed /\ f.keyring.sealed /\ Covered(f)
  /\ f.checkpoint.value # None =>
       /\ f.checkpoint.value = BuiltFrom(w, f.checkpoint.value.heads)
       /\ f.keyring.value # None

\* A file that may be at the store's path.
Sound(w, f) == f \in File /\ Within(w, f.held) /\ (f.marker => RecordsTrue(w, f))

\* Nothing unflushed is ever in place, neither now nor after a power cut.
DiskSound ==
  /\ disk.flushed /\ disk.file # Torn
  /\ disk.file # NoFile => Sound(written, disk.file)
  /\ disk.before # NoFile => Sound(written, disk.before)

\* A process that has begun has a file; where it made the file itself, the
\* records are as the marker would say although it may not be set yet.
HandleSound ==
  /\ host.stage # "down" => disk.file # NoFile
  /\ host.fresh => disk.file # NoFile /\ RecordsTrue(written, disk.file)
  /\ host.stage = "created" => disk.file = Empty

\* The repair replaces the file it has read by what that file gives, whole and flushed.
RepairSound ==
  /\ host.stage \in {"prepared", "copied", "verified", "synced"} =>
       /\ host.next = Saved(disk.file, host.keys)
       /\ Matches(disk.file, host.keys) /\ Covered(disk.file)
  /\ host.stage \in {"verified", "synced"} => host.good
  /\ host.stage = "synced" => host.flushed

Inv == TypeOK /\ DiskSound /\ HandleSound /\ RepairSound

-----------------------------------------------------------------------------
(* The operators *)

\* Build reads only the history and the frontier.
LEMMA BuildIs == \A h : Build(h) = BuiltFrom(written, h)
  BY DEF Build, BuiltFrom, Closed, Op

\* The same after a step.
LEMMA BuildIsNext == \A h : Build(h)' = BuiltFrom(written', h)
  BY DEF Build, BuiltFrom, Closed, Op

\* A checkpoint has its type, whatever the history.
LEMMA BuiltType ==
  ASSUME NEW w, NEW h \in Frontier
  PROVE  BuiltFrom(w, h) \in Checkpoints /\ BuiltFrom(w, h).heads = h
  BY DEF BuiltFrom, Places, Checkpoints

\* The history w2 has everything w1 has.
Grows(w1, w2) ==
  \A l \in Logs : /\ Len(w1[l]) <= Len(w2[l])
                  /\ \A n \in 1..Len(w1[l]) : w2[l][n] = w1[l][n]

\* Both histories have the same document at h.
SameBuilt(w1, w2, h) == BuiltFrom(w1, h) = BuiltFrom(w2, h)

\* What was built from the operations of a file stays so when others arrive.
LEMMA BuiltStays ==
  ASSUME NEW w1 \in [Logs -> Seq(Operation)], NEW w2 \in [Logs -> Seq(Operation)],
         Grows(w1, w2), NEW h \in Frontier, Within(w1, h)
  PROVE  Within(w2, h) /\ SameBuilt(w1, w2, h)
  <1>1. \A l \in Logs : Len(w1[l]) \in Nat /\ Len(w2[l]) \in Nat /\ h[l] \in Nat
    BY CustodyAssumption DEF Frontier
  <1>2. Within(w2, h)
    BY <1>1 DEF Within, Grows
  <1>3. ASSUME NEW p \in Places(h) PROVE w1[p[1]][p[2]] = w2[p[1]][p[2]]
    <2>1. p[1] \in Logs /\ p[2] \in Nat /\ 1 <= p[2] /\ p[2] <= h[p[1]]
      BY CustodyAssumption DEF Places
    <2>2. p[2] \in 1..Len(w1[p[1]])
      BY <1>1, <2>1 DEF Within
    <2> QED
      BY <2>1, <2>2 DEF Grows
  <1>4. SameBuilt(w1, w2, h)
    BY <1>3 DEF SameBuilt, BuiltFrom
  <1> QED
    BY <1>2, <1>4

\* A sound file stays sound when operations arrive.
LEMMA SoundStays ==
  ASSUME NEW w1 \in [Logs -> Seq(Operation)], NEW w2 \in [Logs -> Seq(Operation)],
         Grows(w1, w2), NEW f, Sound(w1, f)
  PROVE  Sound(w2, f) /\ (RecordsTrue(w1, f) => RecordsTrue(w2, f))
  <1>1. f \in File /\ f.held \in Frontier /\ Within(w1, f.held)
    BY DEF Sound, File
  <1>2. Within(w2, f.held)
    BY <1>1, BuiltStays
  <1>3. ASSUME RecordsTrue(w1, f), f.checkpoint.value # None
        PROVE  f.checkpoint.value = BuiltFrom(w2, f.checkpoint.value.heads)
    <2> DEFINE heads == f.checkpoint.value.heads
    <2>1. f.checkpoint.value \in Checkpoints /\ heads \in Frontier
      BY <1>1, <1>3 DEF File, Checkpoints
    <2>2. Within(w1, heads)
      <3> SUFFICES ASSUME NEW l \in Logs PROVE heads[l] <= Len(w1[l])
        BY DEF Within
      <3>1. heads[l] <= f.held[l] /\ f.held[l] <= Len(w1[l])
        BY <1>1, <1>3 DEF RecordsTrue, Covered, Within
      <3>2. heads[l] \in Nat /\ f.held[l] \in Nat /\ Len(w1[l]) \in Nat
        BY <1>1, <2>1, CustodyAssumption DEF Frontier
      <3> QED
        BY <3>1, <3>2
    <2>3. BuiltFrom(w1, heads) = BuiltFrom(w2, heads)
      <3>1. SameBuilt(w1, w2, heads)
        BY <2>1, <2>2, BuiltStays
      <3> QED
        BY <3>1 DEF SameBuilt
    <2>4. f.checkpoint.value = BuiltFrom(w1, heads)
      BY <1>3 DEF RecordsTrue
    <2> QED
      BY <2>3, <2>4
  <1>4. RecordsTrue(w1, f) => RecordsTrue(w2, f)
    BY <1>3 DEF RecordsTrue
  <1> QED
    BY <1>1, <1>2, <1>4 DEF Sound

\* A saved checkpoint is sound whatever the file was, and keeps what it holds.
LEMMA SavedSound ==
  ASSUME NEW f \in File, Within(written, f.held), NEW keys \in SUBSET Epochs
  PROVE  /\ Sound(written, Saved(f, keys)) /\ RecordsTrue(written, Saved(f, keys))
         /\ Saved(f, keys).held = f.held
         /\ Saved(f, keys).checkpoint.value = BuiltFrom(written, f.held)
         /\ Saved(f, keys).keyring.value = keys
  <1> DEFINE s == Saved(f, keys)
             b == BuiltFrom(written, f.held)
  <1>1. f.held \in Frontier
    BY DEF File
  <1>2. b \in Checkpoints /\ b.heads = f.held
    BY <1>1, BuiltType
  <1>3. s = [f EXCEPT !.checkpoint = Record(b, TRUE), !.marker = TRUE, !.keyring = Record(keys, TRUE)]
    BY BuildIs DEF Saved
  <1> HIDE DEF b
  <1>4. s \in File
    <2>1. /\ Record(b, TRUE) \in [value : Checkpoints \cup {None}, sealed : BOOLEAN]
          /\ Record(keys, TRUE) \in [value : (SUBSET Epochs) \cup {None}, sealed : BOOLEAN]
      BY <1>2 DEF Record
    <2> QED
      BY <1>3, <2>1 DEF File
  <1>5. s.held = f.held /\ s.checkpoint = Record(b, TRUE) /\ s.keyring = Record(keys, TRUE)
    BY <1>3 DEF File
  <1>6. keys # None
    BY SortsAssumption
  <1> HIDE DEF s
  <1>7. \A l \in Logs : f.held[l] <= f.held[l]
    BY <1>1, CustodyAssumption DEF Frontier
  <1>8. RecordsTrue(written, s)
    BY <1>2, <1>5, <1>6, <1>7 DEF RecordsTrue, Covered, Record, b
  <1>9. Sound(written, s)
    BY <1>4, <1>5, <1>8 DEF Sound
  <1> QED
    BY <1>5, <1>8, <1>9 DEF s, b, Record

\* The file a process makes has nothing to be wrong about.
LEMMA EmptySound ==
  ASSUME TypeOK
  PROVE  Sound(written, Empty) /\ RecordsTrue(written, Empty)
  <1>1. Nothing \in Frontier
    BY CustodyAssumption DEF Nothing, Frontier
  <1>2. Empty \in File
    BY <1>1 DEF Empty, NoRecord, Record, File
  <1>3. \A l \in Logs : Nothing[l] = 0 /\ Len(written[l]) \in Nat
    BY DEF Nothing, TypeOK
  <1>4. Within(written, Empty.held)
    BY <1>3 DEF Within, Empty
  <1>5. RecordsTrue(written, Empty)
    BY DEF RecordsTrue, Covered, Empty, NoRecord, Record
  <1> QED
    BY <1>2, <1>4, <1>5 DEF Sound

\* What is at the store's path is a file, no file, or half a file, and only one of them.
LEMMA DiskShape ==
  ASSUME Inv
  PROVE  /\ disk.file = NoFile \/ disk.file \in File
         /\ disk.before = NoFile \/ disk.before \in File
         /\ \A f \in File : f # NoFile /\ f # Torn
         /\ NoFile # Torn
         /\ disk.flushed = TRUE
         /\ disk = [file |-> disk.file, before |-> disk.before, flushed |-> disk.flushed]
  BY SortsAssumption, CustodyAssumption DEF Inv, TypeOK, Disk, DiskSound

-----------------------------------------------------------------------------
(* The steps *)

\* The invariant holds initially, on every file an older release may have left.
LEMMA InitInv == Init => Inv
  <1> SUFFICES ASSUME Init PROVE Inv
    OBVIOUS
  <1>1. Nothing \in Frontier /\ 1 \in Epochs
    BY CustodyAssumption DEF Nothing, Frontier, Epochs
  <1> DEFINE op == [epoch |-> 1, capture |-> FALSE, seen |-> Nothing]
  <1>2. op \in Operation
    BY <1>1 DEF Operation
  <1>3. \A l \in Logs : written[l] \in Seq(Operation) /\ Len(written[l]) <= MaxOps
    <2> SUFFICES ASSUME NEW l \in Logs
                 PROVE  written[l] \in Seq(Operation) /\ Len(written[l]) <= MaxOps
      OBVIOUS
    <2>1. written[l] \in {<<>>, <<op>>}
      BY DEF Init
    <2>2. <<op>> \in Seq(Operation) /\ Len(<<op>>) = 1
      BY <1>2
    <2>3. <<>> \in Seq(Operation) /\ Len(<<>>) = 0
      OBVIOUS
    <2>4. 0 <= MaxOps /\ 1 <= MaxOps
      BY CustodyAssumption
    <2>5. CASE written[l] = <<>>
      BY <2>3, <2>4, <2>5
    <2>6. CASE written[l] = <<op>>
      <3> HIDE DEF op
      <3> QED
        BY <2>2, <2>4, <2>6
    <2> QED
      BY <2>1, <2>5, <2>6
  <1>4. written \in [Logs -> Seq(Operation)]
    BY <1>3 DEF Init
  <1>5. PICK file \in Older \cup {NoFile} :
          disk = [file |-> file, before |-> NoFile, flushed |-> TRUE]
    BY DEF Init
  <1>6. ASSUME file # NoFile PROVE file \in File /\ Sound(written, file)
    <2>0. file \in Older
      BY <1>5, <1>6
    <2>1. PICK held \in HeldByNow, keyring \in {None, {1}},
               checkpoint \in {None} \cup {[Build(h) EXCEPT !.snapshot = FALSE] : h \in HeldByNow} :
                 file = OlderFile(held, checkpoint, keyring)
      BY <2>0 DEF Older
    <2>10. held \in Frontier /\ \A l \in Logs : held[l] <= Len(written[l])
      BY DEF HeldByNow
    <2>2. file = [held |-> held, marker |-> FALSE,
                  checkpoint |-> Record(checkpoint, checkpoint = None),
                  keyring |-> Record(keyring, keyring = None), erased |-> {}]
      BY <2>1 DEF OlderFile, Empty
    <2>3. checkpoint \in Checkpoints \cup {None}
      <3> SUFFICES ASSUME NEW h \in Frontier, checkpoint = [Build(h) EXCEPT !.snapshot = FALSE]
                   PROVE  checkpoint \in Checkpoints
        BY <2>1 DEF HeldByNow
      <3>1. Build(h) \in Checkpoints
        BY BuildIs, BuiltType
      <3> QED
        BY <3>1 DEF Checkpoints
    <2>4. keyring \in (SUBSET Epochs) \cup {None}
      BY <1>1, <2>1
    <2>5. /\ Record(checkpoint, checkpoint = None) \in [value : Checkpoints \cup {None}, sealed : BOOLEAN]
          /\ Record(keyring, keyring = None) \in [value : (SUBSET Epochs) \cup {None}, sealed : BOOLEAN]
      BY <2>3, <2>4 DEF Record
    <2>6. file \in File
      BY <2>2, <2>5, <2>10 DEF File
    <2>7. Within(written, file.held) /\ ~file.marker
      BY <2>2, <2>10 DEF Within
    <2> QED
      BY <2>6, <2>7 DEF Sound
  <1>7. disk \in Disk /\ DiskSound
    BY <1>5, <1>6, SortsAssumption, CustodyAssumption DEF Disk, DiskSound
  <1>8. host \in Host /\ host.stage = "down" /\ host.next = NoFile /\ ~host.fresh
    BY DEF Init, Down, Host
  <1>9. review \in Review
    BY <1>1 DEF Init, NoReview, Review
  <1>10. used \in [stops : 0..MaxStops, saves : 0..MaxSaves, handoffs : 0..MaxSaves]
    BY CustodyAssumption DEF Init
  <1>11. TypeOK
    BY <1>3, <1>4, <1>7, <1>8, <1>9, <1>10 DEF TypeOK
  <1>12. HandleSound /\ RepairSound
    BY <1>8 DEF HandleSound, RepairSound
  <1> QED
    BY <1>7, <1>11, <1>12 DEF Inv

\* A file written by an open handle, whatever has arrived meanwhile.
LEMMA OpenWrite ==
  ASSUME Inv, IsOpen, NEW f, Write(f), Sound(written', f),
         host.fresh => RecordsTrue(written', f),
         written' \in [Logs -> Seq(Operation)], Grows(written, written'), host' = host
  PROVE  disk' \in Disk /\ DiskSound' /\ HandleSound' /\ RepairSound'
  <1>1. f \in File /\ f # NoFile /\ f # Torn
    BY SortsAssumption DEF Sound
  <1>2. disk' = [file |-> f, before |-> disk.before, flushed |-> TRUE]
    BY DiskShape DEF Write
  <1>3. disk.before # NoFile => Sound(written', disk.before)
    BY SoundStays DEF Inv, TypeOK, DiskSound
  <1>4. disk' \in Disk
    BY <1>1, <1>2, DiskShape DEF Disk
  <1>5. DiskSound'
    BY <1>1, <1>2, <1>3 DEF DiskSound
  <1>6. HandleSound'
    BY <1>1, <1>2 DEF HandleSound, IsOpen
  <1>7. RepairSound'
    BY DEF RepairSound, IsOpen
  <1> QED
    BY <1>4, <1>5, <1>6, <1>7

\* An operation arrives or is authored.
LEMMA AcceptInv ==
  ASSUME Inv, NEW l \in Logs, Accept(l)
  PROVE  Inv'
  <1> DEFINE f == [disk.file EXCEPT !.held[l] = @ + 1]
  <1>1. disk.file \in File /\ Sound(written, disk.file) /\ IsOpen
    BY DiskShape DEF Inv, DiskSound, HandleSound, Accept, IsOpen
  <1>2. /\ written \in [Logs -> Seq(Operation)]
        /\ \A m \in Logs : Len(written[m]) \in Nat /\ Len(written[m]) <= MaxOps
        /\ disk.file.held \in Frontier
        /\ \A m \in Logs : disk.file.held[m] \in Nat /\ disk.file.held[m] <= Len(written[m])
    BY <1>1, CustodyAssumption DEF Inv, TypeOK, File, Frontier, Sound, Within
  <1>3. /\ written' \in [Logs -> Seq(Operation)] /\ Grows(written, written')
        /\ \A m \in Logs : Len(written'[m]) <= MaxOps
        /\ disk.file.held[l] + 1 <= Len(written'[l])
    <2>1. CASE written' = written
      <3>1. disk.file.held[l] < Len(written[l])
        <4>1. SUFFICES ASSUME ~(disk.file.held[l] < Len(written[l])) PROVE FALSE
          BY <1>2
        <4>2. PICK op \in Signed(l) : written' = [written EXCEPT ![l] = Append(@, op)]
          BY <4>1 DEF Accept
        <4>3. op \in Operation
          BY DEF Signed
        <4>4. Len(written'[l]) = Len(written[l]) + 1
          BY <1>2, <4>2, <4>3
        <4> QED
          BY <1>2, <2>1, <4>4
      <3> QED
        BY <1>2, <2>1, <3>1 DEF Grows
    <2>2. CASE written' # written
      <3>1. PICK op \in Signed(l) : written' = [written EXCEPT ![l] = Append(@, op)]
        BY <2>2 DEF Accept
      <3>2. ~(disk.file.held[l] < Len(written[l])) /\ disk.file.held[l] < MaxOps
        BY <2>2 DEF Accept
      <3>3. op \in Operation
        BY DEF Signed
      <3>4. /\ written'[l] = Append(written[l], op)
            /\ \A m \in Logs \ {l} : written'[m] = written[m]
            /\ written' \in [Logs -> Seq(Operation)]
        BY <1>2, <3>1, <3>3
      <3>5. Len(written'[l]) = Len(written[l]) + 1
            /\ \A n \in 1..Len(written[l]) : written'[l][n] = written[l][n]
        BY <1>2, <3>3, <3>4
      <3>6. disk.file.held[l] = Len(written[l])
        BY <1>2, <3>2
      <3>7. ASSUME NEW m \in Logs
            PROVE  /\ Len(written[m]) <= Len(written'[m]) /\ Len(written'[m]) <= MaxOps
                   /\ \A n \in 1..Len(written[m]) : written'[m][n] = written[m][n]
        <4>1. CASE m = l
          <5>1. MaxOps \in Nat
            BY CustodyAssumption
          <5> QED
            BY <1>2, <3>2, <3>5, <3>6, <4>1, <5>1
        <4>2. CASE m # l
          BY <1>2, <3>4, <4>2
        <4> QED
          BY <4>1, <4>2
      <3>8. Grows(written, written')
        BY <3>7 DEF Grows
      <3> QED
        BY <1>2, <3>4, <3>5, <3>6, <3>7, <3>8
    <2> QED
      BY <2>1, <2>2
  <1>4. f \in File /\ f.held = [disk.file.held EXCEPT ![l] = @ + 1]
        /\ f.marker = disk.file.marker /\ f.checkpoint = disk.file.checkpoint
        /\ f.keyring = disk.file.keyring
    <2>1. disk.file.held[l] + 1 \in 0..MaxOps
      <3>1. disk.file.held[l] < MaxOps
        BY DEF Accept
      <3> QED
        BY <1>2, <3>1, CustodyAssumption
    <2>2. [disk.file.held EXCEPT ![l] = @ + 1] \in Frontier
      BY <1>2, <2>1 DEF Frontier
    <2> QED
      BY <1>1, <2>2 DEF File
  <1> HIDE DEF f
  <1>5. Sound(written', disk.file)
        /\ (RecordsTrue(written, disk.file) => RecordsTrue(written', disk.file))
    BY <1>1, <1>2, <1>3, SoundStays
  <1>6. Within(written', f.held) /\ \A m \in Logs : disk.file.held[m] <= f.held[m]
    BY <1>2, <1>3, <1>4, <1>5 DEF Within, Sound, Frontier
  <1>7. RecordsTrue(written', disk.file) => RecordsTrue(written', f)
    <2> SUFFICES ASSUME Covered(disk.file) PROVE Covered(f)
      BY <1>4 DEF RecordsTrue
    <2> SUFFICES ASSUME f.checkpoint.value # None, NEW m \in Logs
                 PROVE  f.checkpoint.value.heads[m] <= f.held[m]
      BY DEF Covered
    <2>1. f.checkpoint.value \in Checkpoints
      BY <1>4 DEF File
    <2>2. f.checkpoint.value.heads[m] \in Nat /\ f.held[m] \in Nat
      BY <1>4, <2>1, CustodyAssumption DEF Checkpoints, File, Frontier
    <2>3. f.checkpoint.value.heads[m] <= disk.file.held[m]
      BY <1>4 DEF Covered
    <2> QED
      BY <1>2, <1>6, <2>2, <2>3
  <1>8. Sound(written', f)
    BY <1>4, <1>5, <1>6, <1>7 DEF Sound
  <1>9. host.fresh => RecordsTrue(written', f)
    BY <1>5, <1>7 DEF Inv, HandleSound
  <1>10. Write(f) /\ host' = host /\ review' = review /\ used' = used
    BY DEF Accept, f
  <1>11. disk' \in Disk /\ DiskSound' /\ HandleSound' /\ RepairSound'
    BY <1>1, <1>3, <1>8, <1>9, <1>10, OpenWrite
  <1>12. TypeOK'
    BY <1>3, <1>10, <1>11 DEF Inv, TypeOK
  <1> QED
    BY <1>11, <1>12 DEF Inv

\* What is written while nothing arrives.
LEMMA WriteInv ==
  ASSUME Inv, IsOpen, NEW f, Write(f), Sound(written, f),
         host.fresh => RecordsTrue(written, f), UNCHANGED <<written, host>>,
         review' \in Review,
         used' \in [stops : 0..MaxStops, saves : 0..MaxSaves, handoffs : 0..MaxSaves]
  PROVE  Inv'
  <1>1. written' \in [Logs -> Seq(Operation)] /\ Grows(written, written')
    <2>1. written \in [Logs -> Seq(Operation)]
      BY DEF Inv, TypeOK
    <2>2. \A l \in Logs : Len(written[l]) \in Nat
      BY <2>1
    <2> QED
      BY <2>1, <2>2 DEF Grows
  <1>2. disk' \in Disk /\ DiskSound' /\ HandleSound' /\ RepairSound'
    BY <1>1, OpenWrite
  <1>3. TypeOK'
    BY <1>2 DEF Inv, TypeOK
  <1> QED
    BY <1>2, <1>3 DEF Inv

\* save_communal_checkpoint.
LEMMA SaveInv ==
  ASSUME Inv, NEW keys \in Keyrings, Save(keys)
  PROVE  Inv'
  <1> DEFINE f == Saved(disk.file, keys)
  <1>1. disk.file \in File /\ Sound(written, disk.file) /\ IsOpen
    BY DiskShape DEF Inv, DiskSound, HandleSound, Save, IsOpen
  <1>2. keys \in SUBSET Epochs
    BY DEF Keyrings
  <1>3. Sound(written, f) /\ RecordsTrue(written, f)
    BY <1>1, <1>2, SavedSound DEF Sound
  <1>4. used' \in [stops : 0..MaxStops, saves : 0..MaxSaves, handoffs : 0..MaxSaves]
    BY CustodyAssumption DEF Save, Inv, TypeOK
  <1>5. Write(f) /\ UNCHANGED <<written, host>> /\ review' \in Review
    BY DEF Save, Inv, TypeOK
  <1> QED
    BY <1>1, <1>3, <1>4, <1>5, WriteInv

\* An open handle that may write records has a file whose records are true.
LEMMA CleanIsTrue ==
  ASSUME Inv, IsOpen, Clean(disk.file, host.fresh)
  PROVE  disk.file \in File /\ Sound(written, disk.file) /\ RecordsTrue(written, disk.file)
  BY DiskShape DEF Inv, DiskSound, HandleSound, IsOpen, Clean, Sound

\* Writing the marker with another keyring keeps the records true.
LEMMA KeyringWrite ==
  ASSUME NEW g \in File, Sound(written, g), RecordsTrue(written, g),
         NEW keys \in SUBSET Epochs, NEW erased \in SUBSET Epochs, NEW f,
         f = [g EXCEPT !.keyring = Record(keys, TRUE), !.marker = TRUE, !.erased = erased]
  PROVE  Sound(written, f) /\ RecordsTrue(written, f)
  <1>1. /\ f.held = g.held /\ f.checkpoint = g.checkpoint /\ f.keyring = Record(keys, TRUE)
        /\ f \in File
    <2>1. Record(keys, TRUE) \in [value : (SUBSET Epochs) \cup {None}, sealed : BOOLEAN]
      BY DEF Record
    <2> QED
      BY <2>1 DEF File
  <1>2. keys # None
    BY SortsAssumption
  <1>3. RecordsTrue(written, f)
    BY <1>1, <1>2 DEF RecordsTrue, Covered, Record
  <1> QED
    BY <1>1, <1>3 DEF Sound

\* persist_communal_keyring.
LEMMA HandoffInv ==
  ASSUME Inv, NEW keys \in Keyrings, Handoff(keys)
  PROVE  Inv'
  <1> DEFINE f == [disk.file EXCEPT !.marker = TRUE, !.keyring = Record(keys, TRUE)]
  <1>1. /\ IsOpen /\ Write(f) /\ UNCHANGED <<written, host>> /\ review' \in Review
        /\ Clean(disk.file, host.fresh)
    BY DEF Handoff, Inv, TypeOK
  <1>2. disk.file \in File /\ Sound(written, disk.file) /\ RecordsTrue(written, disk.file)
    BY <1>1, CleanIsTrue
  <1>3. f = [disk.file EXCEPT !.keyring = Record(keys, TRUE), !.marker = TRUE,
                              !.erased = disk.file.erased]
    BY <1>2 DEF File
  <1>4. keys \in SUBSET Epochs /\ disk.file.erased \in SUBSET Epochs
    BY <1>2 DEF Keyrings, File
  <1>5. Sound(written, f) /\ RecordsTrue(written, f)
    BY <1>2, <1>3, <1>4, KeyringWrite
  <1>6. used' \in [stops : 0..MaxStops, saves : 0..MaxSaves, handoffs : 0..MaxSaves]
    BY CustodyAssumption DEF Handoff, Inv, TypeOK
  <1> QED
    BY <1>1, <1>5, <1>6, WriteInv

\* execute_communal_epoch_pruning.
LEMMA ExecuteInv ==
  ASSUME Inv, NEW keys \in Keyrings, NEW asked, Execute(keys, asked)
  PROVE  Inv'
  <1> DEFINE forget == review.proposal.forget
             f == [disk.file EXCEPT !.keyring = Record(keys \ forget, TRUE), !.marker = TRUE,
                                    !.erased = forget]
  <1>1. /\ IsOpen /\ Write(f) /\ UNCHANGED <<written, host, used>> /\ review' = NoReview
        /\ Clean(disk.file, host.fresh)
    BY DEF Execute, Confirmed
  <1>2. disk.file \in File /\ Sound(written, disk.file) /\ RecordsTrue(written, disk.file)
    BY <1>1, CleanIsTrue
  <1>3. review.proposal.forget \subseteq keys
    <2>1. review.proposal = Proposal(disk.file, disk.file.held, keys, asked)
      BY DEF Execute, Confirmed
    <2> QED
      BY <2>1 DEF Proposal, Forgettable
  <1>4. keys \ forget \in SUBSET Epochs /\ forget \in SUBSET Epochs
    BY <1>3 DEF Keyrings
  <1>5. Sound(written, f) /\ RecordsTrue(written, f)
    BY <1>2, <1>4, KeyringWrite
  <1>6. NoReview \in Review
    BY CustodyAssumption DEF NoReview, Review, Nothing, Frontier
  <1>7. used' \in [stops : 0..MaxStops, saves : 0..MaxSaves, handoffs : 0..MaxSaves]
    BY <1>1 DEF Inv, TypeOK
  <1> QED
    BY <1>1, <1>5, <1>6, <1>7, WriteInv

\* The review of a proposal touches neither the file nor the process.
LEMMA ReviewInv ==
  ASSUME Inv, UNCHANGED <<written, disk, host, used>>, review' \in Review
  PROVE  Inv'
  <1>1. TypeOK' /\ DiskSound' /\ HandleSound'
    BY DEF Inv, TypeOK, DiskSound, HandleSound
  <1>2. Saved(disk.file, host.keys)' = Saved(disk.file, host.keys)
    BY DEF Saved, Build, Closed, Op
  <1>3. Matches(disk.file, host.keys)' = Matches(disk.file, host.keys)
        /\ Covered(disk.file)' = Covered(disk.file)
    BY DEF Matches, Covered
  <1>4. RepairSound'
    BY <1>2, <1>3 DEF Inv, RepairSound
  <1> QED
    BY <1>1, <1>4 DEF Inv

\* A review is dropped.
LEMMA NoReviewType == NoReview \in Review
  BY CustodyAssumption DEF NoReview, Review, Nothing, Frontier

\* communal_epoch_pruning_proposal and what becomes of it.
LEMMA ProposalInv ==
  ASSUME Inv,
         \/ \E keys \in Keyrings, asked \in {{}, {1}} : StartProposal(keys, asked)
         \/ FinishProposal \/ DropReview
  PROVE  Inv'
  <1>1. ASSUME NEW keys \in Keyrings, NEW asked \in {{}, {1}}, StartProposal(keys, asked)
        PROVE  Inv'
    <2>1. disk.file \in File /\ UNCHANGED <<written, disk, host, used>>
      BY <1>1, DiskShape DEF Inv, HandleSound, DiskSound, StartProposal, IsOpen
    <2>2. /\ keys \in SUBSET Epochs /\ asked \in SUBSET Epochs /\ disk.file.held \in Frontier
      BY <2>1, CustodyAssumption DEF Keyrings, Epochs, File
    <2>3. review' \in Review
      BY <1>1, <2>2 DEF StartProposal, NoReview, Review
    <2> QED
      BY <2>1, <2>3, ReviewInv
  <1>2. ASSUME FinishProposal PROVE Inv'
    <2> DEFINE p == Proposal(disk.file, review.records, review.keys, review.asked)
               held == Holds(disk.file.checkpoint.value, review.records, disk.file.held)
                         \cup review.asked
    <2>1. disk.file \in File /\ UNCHANGED <<written, disk, host, used>>
      BY <1>2, DiskShape DEF Inv, HandleSound, DiskSound, FinishProposal, IsOpen
    <2>2. review \in Review /\ review.keys \in SUBSET Epochs
      BY DEF Inv, TypeOK, Review
    <2>3. disk.file.checkpoint.value \in Checkpoints \cup {None}
      BY <2>1 DEF File
    <2>4. Forgettable(review.keys, held) \in SUBSET Epochs /\ held \cap review.keys \in SUBSET Epochs
      BY <2>2 DEF Forgettable
    <2>5. p = [keys |-> review.keys, held |-> held \cap review.keys,
               forget |-> Forgettable(review.keys, held), checkpoint |-> disk.file.checkpoint.value,
               ready |-> disk.file.checkpoint.value # None
                           /\ disk.file.checkpoint.value = Build(disk.file.held)]
      BY DEF Proposal
    <2> HIDE DEF held
    <2>6. p \in Proposals
      BY <2>2, <2>3, <2>4, <2>5 DEF Proposals
    <2> HIDE DEF p
    <2>7. review' = [review EXCEPT !.stage = "done", !.proposal = p] \/ review' = NoReview
      BY <1>2 DEF FinishProposal, p
    <2>8. review' \in Review
      BY <2>2, <2>6, <2>7, NoReviewType DEF Review
    <2> QED
      BY <2>1, <2>8, ReviewInv
  <1>3. ASSUME DropReview PROVE Inv'
    BY <1>3, NoReviewType, ReviewInv DEF DropReview
  <1> QED
    BY <1>1, <1>2, <1>3

\* What the handle becomes is typed.
LEMMA HandleTypes ==
  ASSUME NEW fresh \in BOOLEAN
  PROVE  /\ Down \in Host /\ Down.stage = "down" /\ Down.next = NoFile /\ Down.fresh = FALSE
         /\ Opened(fresh) \in Host /\ Opened(fresh).stage = "open"
         /\ Opened(fresh).next = NoFile /\ Opened(fresh).fresh = fresh
  BY DEF Down, Opened, Host

\* A process begins or ends while nothing arrives and no review changes its type.
LEMMA HandleInv ==
  ASSUME Inv, written' = written, disk' \in Disk, DiskSound',
         host' \in Host, host'.stage \in {"down", "open"}, host'.next = NoFile,
         host'.stage = "open" => disk'.file # NoFile,
         host'.fresh => disk'.file # NoFile /\ RecordsTrue(written, disk'.file),
         review' \in Review,
         used' \in [stops : 0..MaxStops, saves : 0..MaxSaves, handoffs : 0..MaxSaves]
  PROVE  Inv'
  <1>1. TypeOK'
    BY DEF Inv, TypeOK
  <1>2. HandleSound'
    BY DEF HandleSound
  <1>3. RepairSound'
    BY DEF RepairSound
  <1> QED
    BY <1>1, <1>2, <1>3 DEF Inv

\* A file that is made is empty, and it is on the disk as whole as any.
LEMMA Created ==
  ASSUME Inv, Write(Empty), written' = written
  PROVE  disk' \in Disk /\ DiskSound' /\ disk'.file = Empty /\ Empty # NoFile
  <1>1. Sound(written, Empty) /\ Empty \in File
    BY EmptySound DEF Inv, Sound
  <1>2. disk' = [file |-> Empty, before |-> disk.before, flushed |-> TRUE]
    BY DiskShape DEF Write
  <1>3. Empty # NoFile /\ Empty # Torn
    BY <1>1, SortsAssumption
  <1>4. disk' \in Disk
    BY <1>1, <1>2, DiskShape DEF Disk
  <1>5. DiskSound'
    BY <1>1, <1>2, <1>3 DEF Inv, DiskSound
  <1> QED
    BY <1>2, <1>3, <1>4, <1>5

\* open_commons.
LEMMA OpenInv ==
  ASSUME Inv, OpenCommons
  PROVE  Inv'
  <1>1. /\ UNCHANGED <<written, review, used>> /\ host' = Opened(disk.file = NoFile)
        /\ review' \in Review
        /\ used' \in [stops : 0..MaxStops, saves : 0..MaxSaves, handoffs : 0..MaxSaves]
    BY DEF OpenCommons, Inv, TypeOK
  <1>2. CASE disk.file = NoFile
    <2>1. Write(Empty) /\ host' = Opened(TRUE)
      BY <1>1, <1>2 DEF OpenCommons
    <2> QED
      BY <1>1, <2>1, Created, HandleTypes, EmptySound, HandleInv DEF Inv
  <1>3. CASE disk.file # NoFile
    <2>1. disk' = disk /\ host' = Opened(FALSE)
      BY <1>1, <1>3 DEF OpenCommons
    <2>2. disk' \in Disk /\ DiskSound'
      BY <1>1, <2>1 DEF Inv, TypeOK, DiskSound
    <2> QED
      BY <1>1, <1>3, <2>1, <2>2, HandleTypes, HandleInv
  <1> QED
    BY <1>2, <1>3

\* open_with_checkpoint_repair where there is no file, and its first checkpoint.
LEMMA CreateInv ==
  ASSUME Inv, (\E keys \in Keyrings : CreateStore(keys)) \/ FirstCheckpoint
  PROVE  Inv'
  <1>1. ASSUME NEW keys \in Keyrings, CreateStore(keys) PROVE Inv'
    <2>1. /\ Write(Empty) /\ UNCHANGED <<written, review, used>>
          /\ host' = [Down EXCEPT !.stage = "created", !.fresh = TRUE, !.keys = keys]
      BY <1>1 DEF CreateStore
    <2>2. disk' \in Disk /\ DiskSound' /\ disk'.file = Empty /\ Empty # NoFile
      BY <2>1, Created
    <2>3. keys \in SUBSET Epochs
      BY DEF Keyrings
    <2>4. host' \in Host /\ host'.stage = "created" /\ host'.next = NoFile
      BY <2>1, <2>3 DEF Down, Host
    <2>5. TypeOK'
      BY <2>1, <2>2, <2>4 DEF Inv, TypeOK
    <2>6. HandleSound'
      BY <2>1, <2>2, <2>4, EmptySound DEF Inv, HandleSound
    <2>7. RepairSound'
      BY <2>4 DEF RepairSound
    <2> QED
      BY <2>2, <2>5, <2>6, <2>7 DEF Inv
  <1>2. ASSUME FirstCheckpoint PROVE Inv'
    <2> DEFINE f == Saved(disk.file, host.keys)
    <2>1. /\ disk.file \in File /\ Sound(written, disk.file) /\ host.keys \in SUBSET Epochs
          /\ Write(f) /\ UNCHANGED <<written, review, used>> /\ host' = Opened(TRUE)
      BY <1>2, DiskShape DEF Inv, TypeOK, Host, HandleSound, DiskSound, FirstCheckpoint
    <2>2. Sound(written, f) /\ RecordsTrue(written, f)
      BY <2>1, SavedSound DEF Sound
    <2> HIDE DEF f
    <2>3. f \in File /\ f # NoFile /\ f # Torn
      BY <2>2, SortsAssumption DEF Sound
    <2>4. disk' = [file |-> f, before |-> disk.before, flushed |-> TRUE]
      BY <2>1, DiskShape DEF Write
    <2>5. disk' \in Disk
      BY <2>3, <2>4, DiskShape DEF Disk
    <2>6. DiskSound'
      BY <2>1, <2>2, <2>3, <2>4 DEF Inv, DiskSound
    <2>7. review' \in Review
          /\ used' \in [stops : 0..MaxStops, saves : 0..MaxSaves, handoffs : 0..MaxSaves]
      BY <2>1 DEF Inv, TypeOK
    <2> QED
      BY <2>1, <2>2, <2>3, <2>4, <2>5, <2>6, <2>7, HandleTypes, HandleInv
  <1> QED
    BY <1>1, <1>2

\* A repair goes on without touching the file.
LEMMA RepairStepInv ==
  ASSUME Inv, UNCHANGED <<written, disk, review>>, host' \in Host,
         host'.stage \in {"prepared", "copied", "verified", "synced"},
         disk.file # NoFile, host'.fresh => host.fresh,
         host'.next = Saved(disk.file, host'.keys),
         Matches(disk.file, host'.keys), Covered(disk.file),
         host'.stage \in {"verified", "synced"} => host'.good,
         host'.stage = "synced" => host'.flushed,
         used' \in [stops : 0..MaxStops, saves : 0..MaxSaves, handoffs : 0..MaxSaves]
  PROVE  Inv'
  <1>1. disk.file \in File /\ Sound(written, disk.file)
    BY DiskShape DEF Inv, DiskSound
  <1>2. host'.keys \in SUBSET Epochs
    BY DEF Host
  <1>3. Saved(disk.file, host'.keys) \in File
    BY <1>1, <1>2, SavedSound DEF Sound
  <1>4. TypeOK'
    BY <1>3, SortsAssumption DEF Inv, TypeOK
  <1>5. DiskSound' /\ HandleSound'
    BY DEF Inv, DiskSound, HandleSound
  <1>6. Saved(disk.file, host.keys)' = Saved(disk.file, host'.keys)
    BY DEF Saved, Build, Closed, Op
  <1>7. Matches(disk.file, host.keys)' /\ Covered(disk.file)'
    BY DEF Matches, Covered
  <1>8. RepairSound'
    BY <1>6, <1>7 DEF RepairSound
  <1> QED
    BY <1>4, <1>5, <1>8 DEF Inv

\* The repair up to the rename: prepare, copy, verify, flush.
LEMMA StagingInv ==
  ASSUME Inv, (\E keys \in Keyrings : Prepare(keys)) \/ Copy \/ Verify \/ SyncStage
  PROVE  Inv'
  <1>0. used \in [stops : 0..MaxStops, saves : 0..MaxSaves, handoffs : 0..MaxSaves]
    BY DEF Inv, TypeOK
  <1>1. ASSUME NEW keys \in Keyrings, Prepare(keys) PROVE Inv'
    <2>1. disk.file \in File /\ disk.file # NoFile /\ Sound(written, disk.file)
          /\ UNCHANGED <<written, disk, review, used>> /\ keys \in SUBSET Epochs
      BY <1>1, DiskShape DEF Inv, DiskSound, Prepare, Keyrings
    <2>2. CASE Current(disk.file)
      <3>1. host' = Opened(FALSE)
        BY <1>1, <2>2 DEF Prepare
      <3>2. disk' \in Disk /\ DiskSound' /\ review' \in Review
        BY <2>1 DEF Inv, TypeOK, DiskSound
      <3> QED
        BY <1>0, <2>1, <3>1, <3>2, HandleTypes, HandleInv
    <2>3. CASE ~Current(disk.file)
      <3> DEFINE f == Saved(disk.file, keys)
      <3>1. /\ host' = [Down EXCEPT !.stage = "prepared", !.keys = keys, !.next = f]
            /\ Matches(disk.file, keys) /\ Covered(disk.file)
        BY <1>1, <2>3 DEF Prepare, Regenerable, Regenerated, Covered
      <3>2. f \in File
        BY <2>1, SavedSound DEF Sound
      <3> HIDE DEF f
      <3>3. /\ host' \in Host /\ host'.stage = "prepared" /\ host'.keys = keys /\ host'.next = f
            /\ host'.fresh = FALSE
        BY <2>1, <3>1, <3>2 DEF Down, Host
      <3> QED
        BY <1>0, <2>1, <3>1, <3>3, RepairStepInv DEF f
    <2> QED
      BY <2>2, <2>3
  <1>2. ASSUME host.stage \in {"prepared", "copied", "verified"},
               UNCHANGED <<written, disk, review>>,
               host' \in Host, host'.stage \in {"copied", "verified", "synced"},
               host'.fresh = host.fresh, host'.next = host.next, host'.keys = host.keys,
               host'.stage \in {"verified", "synced"} => host'.good,
               host'.stage = "synced" => host'.flushed,
               used' \in [stops : 0..MaxStops, saves : 0..MaxSaves, handoffs : 0..MaxSaves]
        PROVE  Inv'
    <2>1. disk.file # NoFile
      BY <1>2 DEF Inv, HandleSound
    <2>2. /\ host'.next = Saved(disk.file, host'.keys)
          /\ Matches(disk.file, host'.keys) /\ Covered(disk.file)
      BY <1>2 DEF Inv, RepairSound
    <2> QED
      BY <1>2, <2>1, <2>2, RepairStepInv
  <1>3. host \in Host
    BY DEF Inv, TypeOK
  <1>4. ASSUME Copy PROVE Inv'
    <2>1. PICK good \in BOOLEAN :
            /\ ~good => used.stops < MaxStops
            /\ host' = [host EXCEPT !.stage = "copied", !.good = good]
            /\ used' = [used EXCEPT !.stops = IF good THEN @ ELSE @ + 1]
      BY <1>4 DEF Copy
    <2>2. used' \in [stops : 0..MaxStops, saves : 0..MaxSaves, handoffs : 0..MaxSaves]
      BY <1>0, <2>1, CustodyAssumption
    <2>3. host' \in Host /\ host'.stage = "copied" /\ host'.fresh = host.fresh
          /\ host'.next = host.next /\ host'.keys = host.keys
      BY <1>3, <2>1 DEF Host
    <2> QED
      BY <1>2, <1>4, <2>2, <2>3 DEF Copy
  <1>5. ASSUME Verify PROVE Inv'
    <2>1. host' \in Host /\ host'.stage = "verified" /\ host'.fresh = host.fresh
          /\ host'.next = host.next /\ host'.keys = host.keys /\ host'.good
      BY <1>3, <1>5 DEF Host, Verify
    <2> QED
      BY <1>0, <1>2, <1>5, <2>1 DEF Verify
  <1>6. ASSUME SyncStage PROVE Inv'
    <2>1. host' \in Host /\ host'.stage = "synced" /\ host'.fresh = host.fresh
          /\ host'.next = host.next /\ host'.keys = host.keys /\ host'.flushed
      BY <1>3, <1>6 DEF Host, SyncStage
    <2>2. host'.good
      BY <1>3, <1>6 DEF Host, SyncStage, Inv, RepairSound
    <2> QED
      BY <1>0, <1>2, <1>6, <2>1, <2>2 DEF SyncStage
  <1> QED
    BY <1>1, <1>4, <1>5, <1>6

\* The rename.
LEMMA ReplaceInv ==
  ASSUME Inv, Replace
  PROVE  Inv'
  <1>1. /\ host \in Host /\ host.stage = "synced" /\ host.good /\ host.flushed = TRUE
        /\ host.next = Saved(disk.file, host.keys)
        /\ disk.file \in File /\ Sound(written, disk.file) /\ host.keys \in SUBSET Epochs
    BY DiskShape DEF Replace, Inv, TypeOK, Host, DiskSound, HandleSound, RepairSound
  <1>2. Sound(written, host.next) /\ RecordsTrue(written, host.next)
    BY <1>1, SavedSound DEF Sound
  <1>3. host.next \in File /\ host.next # NoFile /\ host.next # Torn
    BY <1>2, SortsAssumption DEF Sound
  <1>4. /\ disk' = [file |-> host.next, before |-> disk.file, flushed |-> TRUE]
        /\ host' = [host EXCEPT !.stage = "replaced"]
        /\ UNCHANGED <<written, review, used>>
    BY <1>1 DEF Replace
  <1>5. host' \in Host /\ host'.stage = "replaced" /\ host'.next = host.next
    BY <1>1, <1>4 DEF Host
  <1>6. disk' \in Disk /\ DiskSound'
    BY <1>1, <1>2, <1>3, <1>4 DEF Disk, DiskSound
  <1>7. TypeOK'
    BY <1>3, <1>4, <1>5, <1>6 DEF Inv, TypeOK
  <1>8. HandleSound' /\ RepairSound'
    BY <1>2, <1>3, <1>4, <1>5 DEF HandleSound, RepairSound
  <1> QED
    BY <1>6, <1>7, <1>8 DEF Inv

\* The rename reaches the medium, asked for or not.
LEMMA SettleInv ==
  ASSUME Inv, Settle \/ SyncDirectory
  PROVE  Inv'
  <1>1. /\ disk' = [file |-> disk.file, before |-> NoFile, flushed |-> TRUE]
        /\ UNCHANGED <<written, review, used>>
    BY DiskShape DEF Settle, SyncDirectory
  <1>2. disk' \in Disk /\ DiskSound' /\ disk'.file = disk.file
    BY <1>1 DEF Inv, TypeOK, Disk, DiskSound
  <1>3. CASE Settle
    <2>1. host' = host
      BY <1>3 DEF Settle
    <2>2. TypeOK' /\ HandleSound'
      BY <1>1, <1>2, <2>1 DEF Inv, TypeOK, HandleSound
    <2>3. Saved(disk.file, host.keys)' = Saved(disk.file, host.keys)
      BY <1>1, <1>2, <2>1 DEF Saved, Build, Closed, Op
    <2>4. Matches(disk.file, host.keys)' = Matches(disk.file, host.keys)
          /\ Covered(disk.file)' = Covered(disk.file)
      BY <1>1, <1>2, <2>1 DEF Matches, Covered
    <2>5. RepairSound'
      BY <1>1, <2>1, <2>3, <2>4 DEF Inv, RepairSound
    <2> QED
      BY <1>2, <2>2, <2>5 DEF Inv
  <1>4. CASE SyncDirectory
    <2>1. host' = Opened(FALSE) /\ disk.file # NoFile
      BY <1>4 DEF SyncDirectory, Inv, HandleSound
    <2>2. review' \in Review
          /\ used' \in [stops : 0..MaxStops, saves : 0..MaxSaves, handoffs : 0..MaxSaves]
      BY <1>1 DEF Inv, TypeOK
    <2> QED
      BY <1>1, <1>2, <2>1, <2>2, HandleTypes, HandleInv
  <1> QED
    BY <1>3, <1>4

\* An error in the repair, or the end of the process with or without the power.
LEMMA StopInv ==
  ASSUME Inv, RepairFails \/ \E power \in BOOLEAN : Stop(power)
  PROVE  Inv'
  <1>1. /\ written' = written /\ host' = Down
        /\ used' = [used EXCEPT !.stops = @ + 1] /\ used.stops < MaxStops
        /\ review' = review \/ review' = NoReview
        /\ \/ disk' = disk
           \/ \E file \in {IF disk.flushed THEN disk.file ELSE Torn} \cup ({disk.before} \ {NoFile}) :
                disk' = [file |-> file, before |-> NoFile, flushed |-> TRUE]
    BY DEF RepairFails, Stop
  <1>2. used' \in [stops : 0..MaxStops, saves : 0..MaxSaves, handoffs : 0..MaxSaves]
    BY <1>1, CustodyAssumption DEF Inv, TypeOK
  <1>3. review' \in Review
    BY <1>1, NoReviewType DEF Inv, TypeOK
  <1>4. disk' \in Disk /\ DiskSound'
    <2>1. CASE disk' = disk
      BY <1>1, <2>1 DEF Inv, TypeOK, DiskSound
    <2>2. CASE disk' # disk
      <3>1. PICK file \in {disk.file} \cup ({disk.before} \ {NoFile}) :
              disk' = [file |-> file, before |-> NoFile, flushed |-> TRUE]
        BY <1>1, <2>2, DiskShape
      <3>2. file # Torn /\ (file # NoFile => Sound(written, file)) /\ file \in File \cup {NoFile}
        BY <3>1, DiskShape DEF Inv, DiskSound
      <3> QED
        BY <1>1, <3>1, <3>2 DEF Disk, DiskSound
    <2> QED
      BY <2>1, <2>2
  <1> QED
    BY <1>1, <1>2, <1>3, <1>4, HandleTypes, HandleInv

\* Every step keeps the invariant.
LEMMA NextInv == Inv /\ [Next]_vars => Inv'
  <1> SUFFICES ASSUME Inv, [Next]_vars PROVE Inv'
    OBVIOUS
  <1>1. CASE UNCHANGED vars
    <2>1. review' \in Review
      BY <1>1 DEF vars, Inv, TypeOK
    <2> QED
      BY <1>1, <2>1, ReviewInv DEF vars
  <1>2. CASE HistoryStep
    BY <1>2, AcceptInv DEF HistoryStep
  <1>3. CASE CustodyStep
    BY <1>3, SaveInv, HandoffInv DEF CustodyStep
  <1>4. CASE PruningStep
    BY <1>4, ExecuteInv, ProposalInv DEF PruningStep
  <1>5. CASE OpeningStep
    BY <1>5, OpenInv, CreateInv, StagingInv, ReplaceInv, SettleInv, StopInv DEF OpeningStep
  <1> QED
    BY <1>1, <1>2, <1>3, <1>4, <1>5 DEF Next

-----------------------------------------------------------------------------
(* The theorems *)

\* The inductive invariant.
LEMMA InvHolds == Spec => []Inv
  BY InitInv, NextInv, PTL DEF Spec

\* The variables keep their types (the store's file, handle, review and repair).
THEOREM TypeCorrect == Spec => []TypeOK
  <1>1. Inv => TypeOK
    BY DEF Inv
  <1> QED
    BY <1>1, InvHolds, PTL

\* What the marker says of a file is true, and the file is whole, wherever the
\* process or the power stopped (open_with_checkpoint_repair, save_communal_checkpoint).
THEOREM MarkerTold == Spec => []MarkerIsTrue
  <1>1. Inv => MarkerIsTrue
    BY DiskShape, BuildIs DEF Inv, DiskSound, Sound, RecordsTrue, Covered, MarkerIsTrue
  <1> QED
    BY <1>1, InvHolds, PTL

\* Pruning erases only what the checkpoint on disk has taken over
\* (communal_epoch_pruning_proposal and execute_communal_epoch_pruning).
THEOREM PruningCovered == Spec => PrunedIsCovered
  <1> DEFINE Kept(keys, asked) ==
               LET checkpoint == disk.file.checkpoint.value
                   closed == Closed(disk.file.held)
                   gone == disk.file.keyring.value \ disk'.file.keyring.value
               IN  /\ gone \cap asked = {}
                   /\ \A p \in Places(disk.file.held) : Op(p).epoch \in gone =>
                        /\ p \in Places(checkpoint.heads) \ checkpoint.pending
                        /\ p \in closed /\ ~CaptureMaterial(closed)
  <1>1. ASSUME Inv, NEW keys \in Keyrings, NEW asked, Execute(keys, asked)
        PROVE  Kept(keys, asked)
    <2> DEFINE file == disk.file
               held == file.held
               closed == Closed(held)
               checkpoint == file.checkpoint.value
               holds == Holds(checkpoint, held, held)
               gone == file.keyring.value \ disk'.file.keyring.value
    <2>1. /\ file \in File /\ RecordsTrue(written, file)
          /\ Matches(file, keys) /\ review.proposal = Proposal(file, held, keys, asked)
          /\ review.proposal.ready
      BY <1>1, CleanIsTrue DEF Execute, Confirmed
    <2>2. checkpoint # None /\ checkpoint = Build(held)
      <3>1. Proposal(file, held, keys, asked).ready
              = (checkpoint # None /\ checkpoint = Build(held))
        BY DEF Proposal
      <3> QED
        BY <2>1, <3>1
    <2>3. file.keyring.value = keys
      BY <2>1, <2>2 DEF RecordsTrue, Matches
    <2>4. disk'.file.keyring.value = keys \ Forgettable(keys, holds \cup asked)
      <3>1. review.proposal.forget = Forgettable(keys, holds \cup asked)
        BY <2>1 DEF Proposal
      <3>2. disk' = [disk EXCEPT !.file = [file EXCEPT
                       !.keyring = Record(keys \ review.proposal.forget, TRUE),
                       !.marker = TRUE, !.erased = review.proposal.forget]]
        BY <1>1 DEF Execute, Write
      <3>3. disk'.file.keyring = Record(keys \ review.proposal.forget, TRUE)
        BY <1>1, <2>1, <3>2, DiskShape DEF File
      <3> QED
        BY <3>1, <3>3 DEF Record
    <2>5. gone \cap (holds \cup asked) = {}
      BY <2>3, <2>4 DEF Forgettable
    <2>6. checkpoint.heads = held /\ checkpoint.pending = Places(held) \ closed
      BY <2>2 DEF Build
    <2>7. /\ EpochsOf(Places(held) \ closed) \subseteq holds
          /\ CaptureMaterial(closed) => EpochsOf(closed) \subseteq holds
      BY <2>2, <2>6 DEF Holds, EpochsOf
    <2>8. ASSUME NEW p \in Places(held), Op(p).epoch \in gone
          PROVE  p \in closed /\ ~CaptureMaterial(closed)
      <3>1. p \in closed
        BY <2>5, <2>7, <2>8 DEF EpochsOf
      <3> QED
        BY <2>5, <2>7, <2>8, <3>1 DEF EpochsOf
    <2> QED
      BY <2>5, <2>6, <2>8
  <1> DEFINE Good == \A keys \in Keyrings, asked \in {{}, {1}} : Execute(keys, asked) => Kept(keys, asked)
  <1>2. Inv /\ [Next]_vars => [Good]_vars
    BY <1>1
  <1>3. Spec => [][Good]_vars
    BY <1>2, InvHolds, PTL DEF Spec
  <1> QED
    BY <1>3 DEF PrunedIsCovered

\* History, checkpoint and keyring of is, which follows was at the store's path.
Further(was, is) ==
  /\ \A l \in Logs : was.held[l] <= is.held[l]
  /\ was.checkpoint.value # None =>
       /\ is.checkpoint.value # None
       /\ \A l \in Logs : was.checkpoint.value.heads[l] <= is.checkpoint.value.heads[l]

NotMore(was, is) ==
  was.keyring.value # None => is.keyring.value \subseteq was.keyring.value

\* What leaves history and checkpoint alone goes no way back.
LEMMA StaysFurther ==
  ASSUME NEW was \in File, NEW is, is.held = was.held, is.checkpoint = was.checkpoint
  PROVE  Further(was, is)
  <1>1. \A l \in Logs : was.held[l] <= was.held[l]
    BY CustodyAssumption DEF File, Frontier
  <1>2. ASSUME was.checkpoint.value # None, NEW l \in Logs
        PROVE  was.checkpoint.value.heads[l] <= was.checkpoint.value.heads[l]
    <2>1. was.checkpoint.value \in Checkpoints
      BY <1>2 DEF File
    <2> QED
      BY <2>1, CustodyAssumption DEF Checkpoints, Frontier
  <1> QED
    BY <1>1, <1>2 DEF Further

\* A checkpoint of all that is held is at least as far as a covered one.
LEMMA SavedFurther ==
  ASSUME NEW was \in File, Within(written, was.held), Covered(was),
         NEW keys \in SUBSET Epochs, Matches(was, keys)
  PROVE  Further(was, Saved(was, keys)) /\ NotMore(was, Saved(was, keys))
  <1> DEFINE is == Saved(was, keys)
  <1>1. /\ is.held = was.held /\ is.checkpoint.value = BuiltFrom(written, was.held)
        /\ is.keyring.value = keys
    BY SavedSound
  <1>2. was.held \in Frontier /\ \A l \in Logs : was.held[l] <= was.held[l]
    BY CustodyAssumption DEF File, Frontier
  <1>3. is.checkpoint.value \in Checkpoints /\ is.checkpoint.value.heads = was.held
    BY <1>1, <1>2, BuiltType
  <1>4. is.checkpoint.value # None
    BY <1>3, SortsAssumption
  <1> HIDE DEF is
  <1>5. Further(was, is)
    BY <1>1, <1>2, <1>3, <1>4 DEF Further, Covered
  <1>6. NotMore(was, is)
    BY <1>1 DEF NotMore, Matches
  <1> QED
    BY <1>5, <1>6 DEF is

\* Custody only goes on, but for the membership handoff and a power cut that
\* undoes a rename (accept_under_gate, save_communal_checkpoint,
\* persist_communal_keyring, execute_communal_epoch_pruning, the repair).
THEOREM NeverBack == Spec => CustodyNeverGoesBack
  <1> DEFINE Goes ==
               Whole(disk.file) /\ Whole(disk'.file) /\ disk.before = NoFile =>
                 LET was == disk.file  is == disk'.file
                 IN  /\ \A l \in Logs : was.held[l] <= is.held[l]
                     /\ was.checkpoint.value # None =>
                          /\ is.checkpoint.value # None
                          /\ \A l \in Logs :
                               was.checkpoint.value.heads[l] <= is.checkpoint.value.heads[l]
                     /\ was.keyring.value # None =>
                          \/ is.keyring.value \subseteq was.keyring.value
                          \/ \E keys \in Keyrings : Handoff(keys)
  <1>1. ASSUME Inv, Next PROVE Goes
    <2> SUFFICES ASSUME disk.file # NoFile, disk.before = NoFile
                 PROVE  /\ Further(disk.file, disk'.file)
                        /\ NotMore(disk.file, disk'.file) \/ \E keys \in Keyrings : Handoff(keys)
      BY DEF Whole, Further, NotMore
    <2>1. disk.file \in File /\ Within(written, disk.file.held)
      BY <1>1, DiskShape DEF Inv, DiskSound, Sound
    <2>2. ASSUME disk'.file = disk.file
          PROVE  Further(disk.file, disk'.file) /\ NotMore(disk.file, disk'.file)
      BY <2>1, <2>2, StaysFurther DEF NotMore
    <2>3. ASSUME NEW f, Write(f) PROVE disk'.file = f
      BY <1>1, <2>3, DiskShape DEF Write
    <2>4. ASSUME NEW l \in Logs, Accept(l)
          PROVE  Further(disk.file, disk'.file) /\ NotMore(disk.file, disk'.file)
      <3> DEFINE f == [disk.file EXCEPT !.held[l] = @ + 1]
      <3>1. disk'.file = f
        BY <2>3, <2>4 DEF Accept
      <3>2. /\ f.held = [disk.file.held EXCEPT ![l] = @ + 1]
            /\ f.checkpoint = disk.file.checkpoint /\ f.keyring = disk.file.keyring
        BY <2>1 DEF File
      <3> HIDE DEF f
      <3>3. \A m \in Logs : disk.file.held[m] <= f.held[m]
        BY <2>1, <3>2, CustodyAssumption DEF File, Frontier
      <3>4. Further(disk.file, disk.file)
        BY <2>1, StaysFurther
      <3>5. Further(disk.file, f)
        BY <3>2, <3>3, <3>4 DEF Further
      <3> QED
        BY <3>1, <3>2, <3>5 DEF NotMore
    <2>5. ASSUME NEW keys \in Keyrings, Save(keys)
          PROVE  Further(disk.file, disk'.file) /\ NotMore(disk.file, disk'.file)
      <3>1. /\ disk'.file = Saved(disk.file, keys) /\ Matches(disk.file, keys)
            /\ IsOpen /\ Clean(disk.file, host.fresh) /\ keys \in SUBSET Epochs
        BY <2>3, <2>5 DEF Save, Keyrings
      <3>2. Covered(disk.file)
        BY <1>1, <3>1, CleanIsTrue DEF RecordsTrue
      <3> QED
        BY <2>1, <3>1, <3>2, SavedFurther
    <2>6. ASSUME NEW keys \in Keyrings, Handoff(keys)
          PROVE  Further(disk.file, disk'.file)
      <3>1. disk'.file = [disk.file EXCEPT !.marker = TRUE, !.keyring = Record(keys, TRUE)]
        BY <2>3, <2>6 DEF Handoff
      <3> QED
        BY <2>1, <3>1, StaysFurther DEF File
    <2>7. ASSUME NEW keys \in Keyrings, NEW asked, Execute(keys, asked)
          PROVE  Further(disk.file, disk'.file) /\ NotMore(disk.file, disk'.file)
      <3> DEFINE left == keys \ review.proposal.forget
      <3>1. /\ disk'.file = [disk.file EXCEPT !.keyring = Record(left, TRUE),
                               !.marker = TRUE, !.erased = review.proposal.forget]
            /\ Matches(disk.file, keys)
        BY <2>3, <2>7 DEF Execute, Confirmed
      <3>2. /\ disk'.file.held = disk.file.held /\ disk'.file.checkpoint = disk.file.checkpoint
            /\ disk'.file.keyring.value = left
        BY <2>1, <3>1 DEF File, Record
      <3>3. NotMore(disk.file, disk'.file)
        BY <3>1, <3>2 DEF NotMore, Matches
      <3> QED
        BY <2>1, <3>2, <3>3, StaysFurther
    <2>8. ASSUME FirstCheckpoint
          PROVE  Further(disk.file, disk'.file) /\ NotMore(disk.file, disk'.file)
      <3>1. /\ disk'.file = Saved(disk.file, host.keys) /\ disk.file = Empty
            /\ host.keys \in SUBSET Epochs
        BY <1>1, <2>3, <2>8 DEF FirstCheckpoint, Inv, HandleSound, TypeOK, Host
      <3>2. Covered(disk.file) /\ Matches(disk.file, host.keys)
        BY <3>1 DEF Covered, Matches, Empty, NoRecord, Record
      <3> QED
        BY <2>1, <3>1, <3>2, SavedFurther
    <2>9. ASSUME Replace
          PROVE  Further(disk.file, disk'.file) /\ NotMore(disk.file, disk'.file)
      <3>1. /\ disk'.file = Saved(disk.file, host.keys) /\ host.keys \in SUBSET Epochs
            /\ Covered(disk.file) /\ Matches(disk.file, host.keys)
        BY <1>1, <2>9 DEF Replace, Inv, TypeOK, Host, RepairSound
      <3> QED
        BY <2>1, <3>1, SavedFurther
    <2>10. ASSUME NEW power \in BOOLEAN, Stop(power) PROVE disk'.file = disk.file
      BY <1>1, <2>10, DiskShape DEF Stop
    <2>11. CASE HistoryStep
      BY <2>4, <2>11 DEF HistoryStep
    <2>12. CASE CustodyStep
      BY <2>5, <2>6, <2>12 DEF CustodyStep
    <2>13. CASE PruningStep
      <3>1. CASE \E keys \in Keyrings, asked \in {{}, {1}} : Execute(keys, asked)
        BY <2>7, <3>1
      <3>2. CASE disk' = disk
        BY <2>2, <3>2
      <3> QED
        BY <2>13, <3>1, <3>2 DEF PruningStep, StartProposal, FinishProposal, DropReview
    <2>14. CASE OpeningStep
      <3>1. CASE FirstCheckpoint \/ Replace \/ \E power \in BOOLEAN : Stop(power)
        BY <2>2, <2>8, <2>9, <2>10, <3>1
      <3>2. CASE Settle \/ SyncDirectory
        <4>1. disk'.file = disk.file
          BY <1>1, <3>2, DiskShape DEF Settle, SyncDirectory
        <4> QED
          BY <2>2, <4>1
      <3>3. CASE disk' = disk
        BY <2>2, <3>3
      <3> QED
        BY <2>14, <3>1, <3>2, <3>3
           DEF OpeningStep, OpenCommons, CreateStore, Prepare, Copy, Verify, SyncStage, RepairFails
    <2> QED
      BY <1>1, <2>11, <2>12, <2>13, <2>14 DEF Next
  <1>2. Inv /\ [Next]_vars => [Goes]_vars
    BY <1>1
  <1>3. Spec => [][Goes]_vars
    BY <1>2, InvHolds, PTL DEF Spec
  <1> QED
    BY <1>3 DEF CustodyNeverGoesBack

=============================================================================
