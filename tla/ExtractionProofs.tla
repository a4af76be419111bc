--------------------------- MODULE ExtractionProofs ---------------------------
(***************************************************************************)
(* What TLAPS proves about delta extractions that share a files database,  *)
(* for every set of processes, images, destinations and paths, across      *)
(* failures, kills and retries.                                            *)
(*                                                                         *)
(* The argument: only the holder of the database's lock is past "open",    *)
(* and the destination it extracts to was not tracked when it opened the   *)
(* database; so everything recorded under that destination is its own, and *)
(* it wrote those paths before (they are in seenPaths).                    *)
(*                                                                         *)
(* The second part is about content, where no two paths that an extraction *)
(* writes are one file (CleanSpec): then only its own writes change what   *)
(* is at a path, and of the paths it has seen each has the image's content *)
(* but those whose file is still to be fetched or copied (BatchPlaced).    *)
(***************************************************************************)
EXTENDS Extraction, TLAPS

FDP == INSTANCE FileDBProofs

-----------------------------------------------------------------------------
(* The inductive invariant *)

\* Past the check of the destination, and not ended.
Holding == {"layer", "fetch", "copy", "stale", "failing"}

Active(p) == pc[p] \in Holding /\ job[p].delta

\* The layers above the n-th have been seen: what seenPaths then holds.
SeenAbove(p, n) ==
  {rel \in Rel : \E i \in n + 1 .. Len(job[p].image) : job[p].image[i].files[rel] # NoDigest}

\* What process p knows of the lock and of its layers.
Progress(p) ==
  /\ Active(p) => holder = p
  /\ pc[p] \in {"open", "fetch", "copy", "stale"} => job[p].delta
  /\ pc[p] \in {"idle", "open"} => seen[p] = {}
  /\ pc[p] \in {"idle", "open"} \/ ~job[p].delta => kept[p] = NoBatch
  /\ pc[p] = "open" => left[p] = Len(job[p].image)
  /\ pc[p] = "layer" => left[p] \in 0 .. Len(job[p].image)
  /\ pc[p] \in {"fetch", "copy"} => left[p] \in 1 .. Len(job[p].image)
  /\ pc[p] = "fetch" => \A rel \in missing[p] : batch[p][rel] # NoDigest

\* How the records of p's destination relate to what p did: they are all that p
\* recorded, at paths it has seen, and the batch at hand is not among them.
Records(p) ==
  /\ Active(p) =>
       /\ relPaths[job[p].root] = kept[p]
       /\ \A rel \in Rel : kept[p][rel] # NoDigest => rel \in seen[p]
  /\ pc[p] \in {"fetch", "copy"} =>
       \A rel \in Rel : batch[p][rel] # NoDigest => rel \in seen[p] /\ kept[p][rel] = NoDigest
  /\ pc[p] = "done" /\ kept[p] # NoBatch => relPaths[job[p].root] = kept[p]

\* A finished extraction that recorded something keeps others out.
Alone ==
  \A p, q \in Proc :
     p # q /\ Active(q) /\ pc[p] = "done" /\ job[p].root = job[q].root => kept[p] = NoBatch

UntrackedEmpty == \A root \in Root \ rootBkts : relPaths[root] = NoBatch

\* FailuresForgotten, for processes that are past the check of the destination.
Witnessed ==
  \A root \in rootBkts : \E p \in Proc :
     /\ job[p].delta /\ job[p].root = root
     /\ pc[p] \in Holding \cup {"done", "crashed", "unclean"}

IInv ==
  /\ TypeOK
  /\ \A p \in Proc : Progress(p) /\ Records(p)
  /\ Alone /\ UntrackedEmpty /\ Witnessed

-----------------------------------------------------------------------------
(* The database: what module FileDBProofs shows of its transactions *)

\* A transaction keeps the database well typed.
LEMMA DBTyped ==
  ASSUME DB!TypeOK, DB!Next
  PROVE  DB!TypeOK'
<1>1. FDP!TypeOK
  BY DEF DB!TypeOK, FDP!TypeOK, DB!Batch, FDP!Batch
<1>2. ASSUME NEW root \in Root, DB!RemoveRoot(root) PROVE FDP!RemoveRoot(root)
  BY <1>2 DEF DB!RemoveRoot, FDP!RemoveRoot, DB!Facts, FDP!Facts, DB!Left, FDP!Left,
              DB!Emptied, FDP!Emptied, DB!vars, FDP!vars
<1>3. ASSUME NEW root \in Root, NEW b \in DB!Batch, DB!RecordAll(root, b)
      PROVE  b \in FDP!Batch /\ FDP!RecordAll(root, b)
  BY <1>3 DEF DB!RecordAll, FDP!RecordAll, DB!NewKeys, FDP!NewKeys, DB!Latest, FDP!Latest,
              DB!Batch, FDP!Batch
<1>4. FDP!Next
  BY <1>2, <1>3 DEF DB!Next, FDP!Next
<1>5. FDP!TypeOK'
  BY <1>1, <1>4, JoinAssumption, NoDigestAssumption, FDP!StepTypeOK
<1> QED BY <1>5 DEF DB!TypeOK, FDP!TypeOK, DB!Batch, FDP!Batch

\* RecordAll writes under one root: the batch over what was there.
LEMMA RecordEffect ==
  ASSUME DB!TypeOK, NEW root \in Root, NEW b \in DB!Batch, DB!RecordAll(root, b)
  PROVE  /\ rootBkts' = rootBkts \cup {root}
         /\ \A r \in Root \ {root} : relPaths'[r] = relPaths[r]
         /\ \A rel \in Rel : relPaths'[root][rel] =
                               IF b[rel] # NoDigest THEN b[rel] ELSE relPaths[root][rel]
BY DEF DB!RecordAll, DB!TypeOK, DB!Latest

\* RemoveRoot leaves a root untracked and empty, and the others as they are.
LEMMA RemoveEffect ==
  ASSUME DB!TypeOK, UntrackedEmpty, NEW root \in Root, DB!RemoveRoot(root)
  PROVE  /\ rootBkts' = rootBkts \ {root}
         /\ \A r \in Root \ {root} : relPaths'[r] = relPaths[r]
         /\ relPaths'[root] = NoBatch
<1>1. CASE root \notin rootBkts
  <2>1. relPaths' = relPaths /\ rootBkts' = rootBkts
    BY <1>1 DEF DB!RemoveRoot, DB!vars
  <2> QED BY <1>1, <2>1 DEF UntrackedEmpty
<1>2. CASE root \in rootBkts
  BY <1>2 DEF DB!RemoveRoot, DB!TypeOK, NoBatch
<1> QED BY <1>1, <1>2

-----------------------------------------------------------------------------
(* Typing *)

\* The arguments of a process.
LEMMA JobTyped ==
  ASSUME TypeOK, NEW p \in Proc
  PROVE  /\ job[p] \in Job /\ job[p].image \in Image /\ job[p].root \in Root
         /\ job[p].delta \in BOOLEAN
         /\ job[p].root \in IF job[p].delta THEN DeltaRoot ELSE PlainRoot
<1>1. job[p] \in Job
  BY DEF TypeOK
<1> QED BY <1>1, RootsAssumption DEF Job

\* The layers of an image.
LEMMA ImageTyped ==
  ASSUME NEW image \in Image
  PROVE  /\ Len(image) \in Nat /\ DOMAIN image = 1 .. Len(image)
         /\ \A i \in 1 .. Len(image) : image[i].files \in DB!Batch
<1> DEFINE LayerSet == [toc : BOOLEAN, files : [Rel -> Digest \cup {NoDigest}]]
<1>1. image \in Seq(LayerSet)
  BY ImageAssumption
<1>2. \A l \in LayerSet : l.files \in DB!Batch
  BY DEF DB!Batch
<1> HIDE DEF LayerSet
<1> QED BY <1>1, <1>2

\* The layer at hand is one of the image's.
LEMMA LayerTyped ==
  ASSUME TypeOK, NEW p \in Proc, left[p] \in 1 .. Len(job[p].image)
  PROVE  /\ Layer(p).files \in DB!Batch
         /\ Fresh(p) \subseteq Rel
         /\ \A rel \in Fresh(p) : Layer(p).files[rel] \in Digest
<1>1. Layer(p).files \in DB!Batch
  BY JobTyped, ImageTyped DEF Layer
<1> QED BY <1>1 DEF Fresh, DB!Batch

\* A process's paths.
LEMMA TargetTyped ==
  ASSUME TypeOK, NEW p \in Proc
  PROVE  \A rel \in Rel : Target(p, rel) \in Abs
BY JobTyped, JoinAssumption DEF Target

\* Each way of writing leaves contents and links on the disk.
LEMMA CreateTyped ==
  ASSUME TypeOK, NEW p, NEW S, NEW content \in [S -> Content], Create(p, content)
  PROVE  disk' \in [Abs -> Content] /\ same' \in [Abs -> SUBSET Abs]
<1>1. ASSUME NEW a \in Abs, \E rel \in S : Target(p, rel) = a
      PROVE  content[CHOOSE rel \in S : Target(p, rel) = a] \in Content
  BY <1>1
<1>2. DOMAIN content = S
  OBVIOUS
<1>3. disk' \in [Abs -> Content]
  BY <1>1, <1>2 DEF Create, TypeOK
<1>4. same' \in [Abs -> SUBSET Abs]
  BY DEF Create, Unlinked, TypeOK
<1> QED BY <1>3, <1>4

LEMMA CopyTyped ==
  ASSUME TypeOK, NEW from \in Abs, NEW to \in Abs, Copy(from, to) \/ CopyFails(from, to)
  PROVE  disk' \in [Abs -> Content] /\ same' \in [Abs -> SUBSET Abs]
<1>1. disk[from] \in Content /\ Torn \in Content /\ NoFile \in Content
  BY DEF TypeOK, Content
<1>2. ASSUME NEW c \in Content, Overwrite(to, c)
      PROVE  disk' \in [Abs -> Content] /\ same' \in [Abs -> SUBSET Abs]
  BY <1>2 DEF Overwrite, TypeOK
<1>3. CASE Copy(from, to)
  <2>1. (IF from \in same[to] THEN Torn ELSE disk[from]) \in Content
    BY <1>1
  <2> QED BY <1>2, <1>3, <2>1 DEF Copy
<1>4. CASE CopyFails(from, to)
  <2>1. CASE UNCHANGED files
    BY <2>1 DEF files, TypeOK
  <2>2. CASE Overwrite(to, Torn)
    BY <1>1, <1>2, <2>2
  <2>3. CASE /\ disk' = [b \in Abs |-> IF b = to THEN NoFile
                                      ELSE IF b \in same[to] THEN Torn ELSE disk[b]]
             /\ same' = Unlinked({to})
    BY <1>1, <2>3 DEF TypeOK, Unlinked
  <2> QED BY <1>4, <2>1, <2>2, <2>3 DEF CopyFails
<1> QED BY <1>3, <1>4

LEMMA LinkedTyped ==
  ASSUME TypeOK, NEW p \in Proc, NEW S, NEW link \in [S -> Rel], Linked(p, link)
  PROVE  disk' \in [Abs -> Content] /\ same' \in [Abs -> SUBSET Abs]
<1> DEFINE Source(b) == IF \E rel \in DOMAIN link : Target(p, rel) = b
                          THEN Target(p, link[CHOOSE rel \in DOMAIN link : Target(p, rel) = b])
                          ELSE b
<1>1. /\ disk' = [b \in Abs |-> disk[Source(b)]]
      /\ same' = [b \in Abs |-> {c \in Abs : Source(c) \in same[Source(b)]}]
  BY DEF Linked
<1>2. ASSUME NEW b \in Abs PROVE Source(b) \in Abs
  <2>1. CASE \E rel \in DOMAIN link : Target(p, rel) = b
    <3>1. (CHOOSE rel \in DOMAIN link : Target(p, rel) = b) \in S
      BY <2>1
    <3> QED BY <2>1, <3>1, TargetTyped
  <2> QED BY <2>1
<1> HIDE DEF Source
<1> QED BY <1>1, <1>2 DEF TypeOK

-----------------------------------------------------------------------------
(* What a step of p leaves to the others *)

Others(p) ==
  \A q \in Proc \ {p} :
     /\ pc'[q] = pc[q] /\ job'[q] = job[q] /\ left'[q] = left[q]
     /\ seen'[q] = seen[q] /\ batch'[q] = batch[q] /\ missing'[q] = missing[q]
     /\ hits'[q] = hits[q] /\ current'[q] = current[q] /\ kept'[q] = kept[q]

\* The lock stays, or is taken when free, or is released by a process that ended;
\* only who is past the check writes to the database, below its destination.
Polite(p) ==
  /\ holder' = holder \/ holder = Nobody \/ (holder = p /\ ~Active(p))
  /\ UNCHANGED db \/ /\ Active(p)
                     /\ \A root \in Root \ {job[p].root} : relPaths'[root] = relPaths[root]

\* Nobody is past the check beside the holder of the lock.
LEMMA OneActive ==
  ASSUME IInv, NEW p \in Proc, NEW q \in Proc, Active(p), Active(q)
  PROVE  p = q
BY DEF IInv, Progress

\* What holds of another process is not disturbed: it is not past the check
\* if p is, and if it is done its records are not where p writes.
LEMMA OthersKept ==
  ASSUME IInv, NEW p \in Proc, NEW q \in Proc \ {p}, Others(p), Polite(p)
  PROVE  Progress(q)' /\ Records(q)'
<1>0. /\ Progress(q) /\ Records(q)
      /\ pc'[q] = pc[q] /\ job'[q] = job[q] /\ left'[q] = left[q]
      /\ seen'[q] = seen[q] /\ batch'[q] = batch[q] /\ kept'[q] = kept[q]
      /\ missing'[q] = missing[q]
  BY DEF IInv, Others
<1>1. Active(q)' <=> Active(q)
  BY <1>0 DEF Active
<1>2. ASSUME Active(q) PROVE UNCHANGED db /\ holder' = holder
  <2>1. holder = q /\ ~Active(p) /\ q # Nobody
    BY <1>0, <1>2, OneActive, NobodyAssumption DEF Progress
  <2> QED BY <2>1 DEF Polite
<1>3. Progress(q)'
  BY <1>0, <1>1, <1>2 DEF Progress
<1>4. ASSUME Active(q) PROVE Records(q)'
  <2>1. relPaths' = relPaths
    BY <1>2, <1>4 DEF db
  <2> QED BY <1>0, <1>1, <2>1 DEF Records
<1>5. ASSUME ~Active(q) PROVE Records(q)'
  <2>1. CASE pc[q] = "done" /\ job[q].delta
    <3>1. CASE UNCHANGED db
      BY <1>0, <1>1, <1>5, <2>1, <3>1 DEF Records, db
    <3>2. CASE Active(p) /\ job[q].root = job[p].root
      <4>1. kept[q] = NoBatch
        BY <2>1, <3>2 DEF IInv, Alone
      <4> QED BY <1>0, <1>1, <1>5, <2>1, <4>1 DEF Records, NoBatch
    <3>3. CASE Active(p) /\ job[q].root # job[p].root /\ ~UNCHANGED db
      <4>1. relPaths'[job[q].root] = relPaths[job[q].root]
        BY <3>3, JobTyped DEF Polite, IInv
      <4> QED BY <1>0, <1>1, <1>5, <2>1, <4>1 DEF Records
    <3> QED BY <3>1, <3>2, <3>3 DEF Polite
  <2>2. CASE ~job[q].delta
    <3>1. kept[q] = NoBatch
      BY <1>0, <2>2 DEF Progress
    <3> QED BY <1>0, <1>1, <1>5, <2>2, <3>1 DEF Records, NoBatch
  <2>3. CASE pc[q] # "done" /\ job[q].delta
    <3>1. pc[q] \notin {"fetch", "copy"}
      BY <1>5, <2>3 DEF Active, Holding
    <3> QED BY <1>0, <1>1, <1>5, <2>3, <3>1 DEF Records
  <2> QED BY <2>1, <2>2, <2>3
<1> QED BY <1>3, <1>4, <1>5

\* Alone survives a step by which nobody passes the check or succeeds.
LEMMA AloneKept ==
  ASSUME IInv, NEW p \in Proc, Others(p),
         Active(p)' => Active(p) /\ job'[p] = job[p],
         pc'[p] = "done" => pc[p] = "done" /\ job'[p] = job[p] /\ kept'[p] = kept[p]
  PROVE  Alone'
<1> SUFFICES ASSUME NEW a \in Proc, NEW b \in Proc, a # b,
                    Active(b)', pc'[a] = "done", job'[a].root = job'[b].root
             PROVE  kept'[a] = NoBatch
  BY DEF Alone
<1>1. Active(b) /\ job'[b] = job[b]
  BY DEF Others, Active
<1>2. pc[a] = "done" /\ job'[a] = job[a] /\ kept'[a] = kept[a]
  BY DEF Others
<1> QED BY <1>1, <1>2 DEF IInv, Alone

\* The process is the reason why its destination is tracked.
Tracks(p, root) ==
  /\ job[p].delta /\ job[p].root = root
  /\ pc[p] \in Holding \cup {"done", "crashed", "unclean"}

\* A tracked destination keeps its witness, or p is one afterwards.
LEMMA WitnessKept ==
  ASSUME IInv, NEW p \in Proc, Others(p),
         \A root \in rootBkts' : \/ Tracks(p, root)'
                                 \/ root \in rootBkts /\ ~Tracks(p, root)
  PROVE  Witnessed'
<1> SUFFICES ASSUME NEW root \in rootBkts' PROVE \E q \in Proc : Tracks(q, root)'
  BY DEF Witnessed, Tracks
<1>1. CASE Tracks(p, root)'
  BY <1>1
<1>2. CASE root \in rootBkts /\ ~Tracks(p, root)
  <2>1. PICK q \in Proc : Tracks(q, root)
    BY <1>2 DEF IInv, Witnessed, Tracks
  <2>2. q # p
    BY <1>2, <2>1
  <2>3. Tracks(q, root)'
    BY <2>1, <2>2 DEF Others, Tracks
  <2> QED BY <2>3
<1> QED BY <1>1, <1>2

\* A step that leaves the database alone keeps the invariant if it keeps what
\* holds of the process itself.
LEMMA QuietStep ==
  ASSUME IInv, NEW p \in Proc, Others(p), UNCHANGED db,
         holder' = holder \/ holder = Nobody \/ (holder = p /\ ~Active(p)),
         TypeOK', Progress(p)', Records(p)', Alone',
         \A root \in Root : Tracks(p, root) => Tracks(p, root)'
  PROVE  IInv'
<1>1. \A q \in Proc : Progress(q)' /\ Records(q)'
  BY OthersKept DEF Polite
<1>2. rootBkts' = rootBkts /\ relPaths' = relPaths /\ rootBkts \subseteq Root
  BY DEF db, IInv, TypeOK, DB!TypeOK
<1>3. UntrackedEmpty'
  BY <1>2 DEF IInv, UntrackedEmpty
<1>4. Witnessed'
  BY <1>2, WitnessKept
<1> QED BY <1>1, <1>3, <1>4 DEF IInv

-----------------------------------------------------------------------------
(* One lemma per action *)

\* A process that starts is not past the check, whatever its arguments.
LEMMA StartKeeps ==
  ASSUME IInv, NEW p \in Proc, Start(p)
  PROVE  IInv'
<1>0. TypeOK /\ Progress(p) /\ pc[p] = "idle"
  BY DEF IInv, Start
<1>1. PICK j \in Job :
        /\ job' = [job EXCEPT ![p] = j]
        /\ left' = [left EXCEPT ![p] = Len(j.image)]
        /\ Goto(p, IF j.delta THEN "open" ELSE "layer") \/ Goto(p, "failed")
  BY DEF Start
<1>2. UNCHANGED <<db, holder, files, seen, todo, kept>>
  BY DEF Start
<1>3. Len(j.image) \in Nat /\ j.delta \in BOOLEAN
  BY ImageTyped DEF Job
<1>4. TypeOK'
  BY <1>0, <1>1, <1>2, <1>3 DEF TypeOK, DB!TypeOK, db, files, todo, Goto, Running, Ended
<1>5. /\ job'[p] = j /\ left'[p] = Len(j.image)
      /\ pc'[p] = "failed" \/ pc'[p] = IF j.delta THEN "open" ELSE "layer"
      /\ seen'[p] = {} /\ kept'[p] = NoBatch
  BY <1>0, <1>1, <1>2 DEF TypeOK, Goto, Progress
<1>6. Others(p)
  BY <1>0, <1>1, <1>2 DEF Others, TypeOK, Goto, todo
<1>7. Progress(p)'
  BY <1>3, <1>5 DEF Progress, Active, Holding
<1>8. Records(p)'
  BY <1>3, <1>5 DEF Records, Active, Holding, NoBatch
<1>9. Alone'
  BY <1>3, <1>5, <1>6, AloneKept DEF Active, Holding
<1>10. \A root \in Root : ~Tracks(p, root)
  BY <1>0 DEF Tracks, Holding
<1> QED BY <1>2, <1>4, <1>6, <1>7, <1>8, <1>9, <1>10, QuietStep

\* Who opens the database and passes the check finds its destination without
\* records, and no finished extraction that recorded something there.
LEMMA OpenKeeps ==
  ASSUME IInv, NEW p \in Proc, Open(p)
  PROVE  IInv'
<1>0. TypeOK /\ Progress(p) /\ pc[p] = "open" /\ job[p].delta /\ holder = Nobody
  BY DEF IInv, Open, Progress
<1>1. /\ holder' = p /\ pc' = [pc EXCEPT ![p] = Opened(p)]
      /\ UNCHANGED <<db, files, job, left, seen, todo, kept>>
  BY DEF Open, Goto
<1>2. Opened(p) \in {"refused", "layer"}
  BY DEF Opened
<1>3. TypeOK'
  BY <1>0, <1>1, <1>2 DEF TypeOK, DB!TypeOK, db, files, todo, Running, Ended
<1>4. Others(p) /\ pc'[p] = Opened(p)
  BY <1>0, <1>1 DEF Others, TypeOK, todo
<1>5. job[p].root \in Root /\ Len(job[p].image) \in Nat
  BY <1>0, JobTyped, ImageTyped
<1>6. Progress(p)'
  BY <1>0, <1>1, <1>2, <1>4, <1>5 DEF Progress
<1>7. Opened(p) = "layer" => relPaths[job[p].root] = NoBatch
  BY <1>5 DEF Opened, DB!RootExists, IInv, UntrackedEmpty
<1>8. kept[p] = NoBatch /\ seen[p] = {}
  BY <1>0 DEF Progress
<1>9. Records(p)'
  <2>1. relPaths' = relPaths /\ kept' = kept /\ seen' = seen /\ job' = job
    BY <1>1 DEF db
  <2>2. Active(p)' => Opened(p) = "layer"
    BY <1>2, <1>4 DEF Active, Holding
  <2> QED BY <1>2, <1>4, <1>7, <1>8, <2>1, <2>2 DEF Records, NoBatch
<1>10. Alone'
  <2> SUFFICES ASSUME NEW a \in Proc, NEW b \in Proc, a # b,
                      Active(b)', pc'[a] = "done", job'[a].root = job'[b].root
               PROVE  kept'[a] = NoBatch
    BY DEF Alone
  <2>1. a # p /\ pc[a] = "done" /\ job' = job /\ kept' = kept
    BY <1>1, <1>2, <1>4 DEF Others
  <2>2. CASE b = p
    <3>1. relPaths[job[a].root] = NoBatch
      BY <1>2, <1>4, <1>7, <2>1, <2>2 DEF Active, Holding
    <3> QED BY <2>1, <3>1 DEF IInv, Records
  <2>3. CASE b # p
    BY <1>4, <2>1, <2>3 DEF Others, Active, IInv, Alone
  <2> QED BY <2>2, <2>3
<1>11. \A root \in Root : ~Tracks(p, root)
  BY <1>0 DEF Tracks, Holding
<1> QED BY <1>0, <1>1, <1>3, <1>4, <1>6, <1>9, <1>10, <1>11, QuietStep

\* Where a process between two layers goes, and how many layers it has left.
LEMMA NextLayerEffect ==
  ASSUME TypeOK, NEW p \in Proc, left[p] \in 1 .. Len(job[p].image), NEW d, NextLayer(p, d)
  PROVE  /\ pc' \in [Proc -> {"idle"} \cup Running \cup Ended]
         /\ left' \in [Proc -> Nat]
         /\ \A q \in Proc \ {p} : pc'[q] = pc[q] /\ left'[q] = left[q]
         /\ \/ pc'[p] = "layer" /\ left'[p] = left[p] - 1 /\ d
            \/ pc'[p] = "failing" /\ left'[p] = left[p]
<1>1. left[p] - 1 \in Nat
  BY JobTyped, ImageTyped
<1>2. /\ pc \in [Proc -> {"idle"} \cup Running \cup Ended] /\ left \in [Proc -> Nat]
      /\ {"layer", "failing"} \subseteq Running
  BY DEF TypeOK, Running
<1>3. CASE /\ d /\ pc' = [pc EXCEPT ![p] = "layer"]
           /\ left' = [left EXCEPT ![p] = left[p] - 1]
  BY <1>1, <1>2, <1>3
<1>4. CASE pc' = [pc EXCEPT ![p] = "failing"] /\ UNCHANGED left
  BY <1>2, <1>4
<1> QED BY <1>3, <1>4 DEF NextLayer, Goto

\* Files of a layer without table of contents are seen, not recorded.
LEMMA ApplyLayerKeeps ==
  ASSUME IInv, NEW p \in Proc, ApplyLayer(p)
  PROVE  IInv'
<1>0. /\ TypeOK /\ Progress(p) /\ Records(p)
      /\ pc[p] = "layer" /\ left[p] \in 1 .. Len(job[p].image)
      /\ Len(job[p].image) \in Nat
  BY JobTyped, ImageTyped DEF IInv, ApplyLayer, Progress
<1>1. /\ seen' = [seen EXCEPT ![p] = @ \cup Fresh(p)]
      /\ UNCHANGED <<db, holder, job, todo, kept>>
  BY DEF ApplyLayer
<1>2. Fresh(p) \subseteq Rel /\ \A rel \in Fresh(p) : Layer(p).files[rel] \in Content
  BY <1>0, LayerTyped DEF Content
<1>3. PICK got \in SUBSET Fresh(p) :
        \E content \in [got -> Content] : Create(p, content) /\ \E d : NextLayer(p, d)
  <2>1. PICK got \in SUBSET Fresh(p) :
          \/ /\ Create(p, [rel \in got |-> Layer(p).files[rel]])
             /\ NextLayer(p, got = Fresh(p))
          \/ /\ \E cut \in got : Create(p, [rel \in got |-> IF rel = cut THEN Torn
                                                              ELSE Layer(p).files[rel]])
             /\ NextLayer(p, FALSE)
    BY DEF ApplyLayer
  <2>2. CASE /\ Create(p, [rel \in got |-> Layer(p).files[rel]])
             /\ NextLayer(p, got = Fresh(p))
    <3>1. [rel \in got |-> Layer(p).files[rel]] \in [got -> Content]
      BY <1>2
    <3> QED BY <2>2, <3>1
  <2>3. CASE /\ \E cut \in got : Create(p, [rel \in got |-> IF rel = cut THEN Torn
                                                              ELSE Layer(p).files[rel]])
             /\ NextLayer(p, FALSE)
    <3>1. PICK cut \in got : Create(p, [rel \in got |-> IF rel = cut THEN Torn
                                                         ELSE Layer(p).files[rel]])
      BY <2>3
    <3>2. [rel \in got |-> IF rel = cut THEN Torn ELSE Layer(p).files[rel]] \in [got -> Content]
      BY <1>2 DEF Content
    <3> QED BY <2>3, <3>1, <3>2
  <2> QED BY <2>1, <2>2, <2>3
<1>4. disk' \in [Abs -> Content] /\ same' \in [Abs -> SUBSET Abs]
  BY <1>0, <1>3, CreateTyped
<1>5. /\ pc' \in [Proc -> {"idle"} \cup Running \cup Ended]
      /\ left' \in [Proc -> Nat]
      /\ \A q \in Proc \ {p} : pc'[q] = pc[q] /\ left'[q] = left[q]
      /\ \/ pc'[p] = "layer" /\ left'[p] = left[p] - 1
         \/ pc'[p] = "failing" /\ left'[p] = left[p]
  BY <1>0, <1>3, NextLayerEffect
<1>6. TypeOK'
  BY <1>0, <1>1, <1>2, <1>4, <1>5 DEF TypeOK, DB!TypeOK, db, todo
<1>7. Others(p)
  BY <1>0, <1>1, <1>5 DEF Others, TypeOK, todo
<1>8. /\ job'[p] = job[p] /\ kept'[p] = kept[p] /\ seen'[p] = seen[p] \cup Fresh(p)
      /\ holder' = holder /\ relPaths' = relPaths
  BY <1>0, <1>1 DEF TypeOK, db
<1>9. Progress(p)'
  BY <1>0, <1>5, <1>8 DEF Progress, Active, Holding
<1>10. Records(p)'
  BY <1>0, <1>5, <1>8 DEF Records, Active, Holding
<1>11. Alone'
  BY <1>0, <1>5, <1>7, <1>8, AloneKept DEF Active, Holding
<1>12. \A root \in Root : Tracks(p, root) => Tracks(p, root)'
  BY <1>5, <1>8 DEF Tracks, Holding
<1> QED BY <1>1, <1>6, <1>7, <1>9, <1>10, <1>11, <1>12, QuietStep

\* A layer's batch has only paths that no upper layer gave, so none recorded.
LEMMA ProcessTOCKeeps ==
  ASSUME IInv, NEW p \in Proc, ProcessTOC(p)
  PROVE  IInv'
<1>0. /\ TypeOK /\ Progress(p) /\ Records(p) /\ job[p].delta
      /\ pc[p] = "layer" /\ left[p] \in 1 .. Len(job[p].image)
  BY JobTyped, ImageTyped DEF IInv, ProcessTOC, Progress
<1>1. /\ seen' = [seen EXCEPT ![p] = @ \cup Fresh(p)]
      /\ batch' = [batch EXCEPT ![p] = Planned(p)]
      /\ Goto(p, "fetch") \/ Goto(p, "failing")
      /\ UNCHANGED <<db, holder, files, job, left, current, kept>>
  BY DEF ProcessTOC
<1>2. /\ hits' \in [Proc -> [Rel -> SUBSET Abs]]
      /\ \A q \in Proc \ {p} : hits'[q] = hits[q]
  BY <1>0 DEF ProcessTOC, TypeOK, DB!PathsForChecksum
<1>3. /\ missing' \in [Proc -> SUBSET Rel] /\ missing'[p] \subseteq Fresh(p)
      /\ \A q \in Proc \ {p} : missing'[q] = missing[q]
  BY <1>0 DEF ProcessTOC, TypeOK, Fresh
<1>4. /\ Fresh(p) \subseteq Rel \ seen[p]
      /\ \A rel \in Fresh(p) : Layer(p).files[rel] \in Digest
  BY <1>0, LayerTyped DEF Fresh
<1>5. Planned(p) \in DB!Batch /\ \A rel \in Rel : Planned(p)[rel] # NoDigest <=> rel \in Fresh(p)
  BY <1>4, NoDigestAssumption DEF Planned, DB!Batch
<1>6. TypeOK'
  BY <1>0, <1>1, <1>2, <1>3, <1>4, <1>5 DEF TypeOK, DB!TypeOK, db, files, Goto, Running
<1>7. Others(p)
  BY <1>0, <1>1, <1>2, <1>3 DEF Others, TypeOK, Goto
<1>8. /\ pc'[p] \in {"fetch", "failing"} /\ job'[p] = job[p] /\ left'[p] = left[p]
      /\ holder' = holder /\ kept'[p] = kept[p] /\ relPaths' = relPaths
      /\ batch'[p] = Planned(p) /\ seen'[p] = seen[p] \cup Fresh(p)
  BY <1>0, <1>1 DEF TypeOK, db, Goto
<1>9. Progress(p)'
  BY <1>0, <1>3, <1>4, <1>5, <1>8 DEF Progress, Active, Holding
<1>10. Records(p)'
  <2>1. /\ relPaths[job[p].root] = kept[p]
        /\ \A rel \in Rel : kept[p][rel] # NoDigest => rel \in seen[p]
    BY <1>0 DEF Records, Active, Holding
  <2> QED BY <1>4, <1>5, <1>8, <2>1 DEF Records
<1>11. Alone'
  BY <1>0, <1>7, <1>8, AloneKept DEF Active, Holding
<1>12. \A root \in Root : Tracks(p, root) => Tracks(p, root)'
  BY <1>8 DEF Tracks, Holding
<1> QED BY <1>1, <1>6, <1>7, <1>9, <1>10, <1>11, <1>12, QuietStep

\* Fetching and copying change files only, and what is still to be done.
LEMMA PlacingKeeps ==
  ASSUME IInv, NEW p \in Proc, pc[p] \in {"fetch", "copy"},
         pc' \in [Proc -> {"idle"} \cup Running \cup Ended],
         pc'[p] \in {"fetch", "copy", "stale", "failing"}, pc'[p] = "fetch" => pc[p] = "fetch",
         disk' \in [Abs -> Content], same' \in [Abs -> SUBSET Abs],
         missing' \in [Proc -> SUBSET Rel], hits' \in [Proc -> [Rel -> SUBSET Abs]],
         missing'[p] \subseteq missing[p],
         current' \in [Proc -> SUBSET Rel], Others(p),
         UNCHANGED <<db, holder, job, left, seen, batch, kept>>
  PROVE  IInv'
<1>0. TypeOK /\ Progress(p) /\ Records(p) /\ job[p].delta
  BY DEF IInv, Progress
<1>1. TypeOK'
  BY <1>0 DEF TypeOK, DB!TypeOK, db
<1>2. Progress(p)'
  BY <1>0 DEF Progress, Active, Holding
<1>3. Records(p)'
  BY <1>0 DEF Records, Active, Holding, db
<1>4. Alone'
  BY <1>0, AloneKept DEF Active, Holding
<1>5. \A root \in Root : Tracks(p, root) => Tracks(p, root)'
  BY DEF Tracks, Holding
<1> QED BY <1>1, <1>2, <1>3, <1>4, <1>5, QuietStep

\* A file leaves the list when it is fetched or duplicated.
LEMMA FetchMissingKeeps ==
  ASSUME IInv, NEW p \in Proc, FetchMissing(p)
  PROVE  IInv'
<1>0. TypeOK /\ pc[p] = "fetch" /\ \A rel \in missing[p] : rel \in Rel /\ batch[p][rel] # NoDigest
  BY DEF IInv, Progress, FetchMissing, TypeOK
<1>1. PICK rel \in missing[p] :
        /\ \/ Create(p, [r \in {rel} |-> batch[p][rel]]) /\ UNCHANGED pc
           \/ /\ UNCHANGED files \/ Create(p, [r \in {rel} |-> Torn])
              /\ Goto(p, "failing")
        /\ missing' = [missing EXCEPT ![p] = @ \ {rel}]
        /\ current' = [current EXCEPT ![p] = {rel}]
  BY DEF FetchMissing
<1>2. UNCHANGED <<db, holder, job, left, seen, batch, hits, kept>>
  BY DEF FetchMissing
<1>3. rel \in Rel /\ batch[p][rel] \in Content /\ Torn \in Content
  BY <1>0 DEF TypeOK, DB!Batch, Content
<1>4. disk' \in [Abs -> Content] /\ same' \in [Abs -> SUBSET Abs]
  <2>1. ASSUME NEW c \in Content, Create(p, [r \in {rel} |-> c])
        PROVE  disk' \in [Abs -> Content] /\ same' \in [Abs -> SUBSET Abs]
    <3>1. [r \in {rel} |-> c] \in [{rel} -> Content]
      OBVIOUS
    <3> QED BY <1>0, <2>1, <3>1, CreateTyped
  <2>2. CASE UNCHANGED files
    BY <1>0, <2>2 DEF files, TypeOK
  <2> QED BY <1>1, <1>3, <2>1, <2>2
<1>5. /\ pc' \in [Proc -> {"idle"} \cup Running \cup Ended]
      /\ pc'[p] \in {"fetch", "failing"} /\ \A q \in Proc \ {p} : pc'[q] = pc[q]
  BY <1>0, <1>1 DEF TypeOK, Goto, Running
<1>6. /\ missing' \in [Proc -> SUBSET Rel] /\ missing'[p] \subseteq missing[p]
      /\ current' \in [Proc -> SUBSET Rel] /\ hits' \in [Proc -> [Rel -> SUBSET Abs]]
  BY <1>0, <1>1, <1>2, <1>3 DEF TypeOK
<1>7. Others(p)
  BY <1>0, <1>1, <1>2, <1>5 DEF Others, TypeOK
<1> QED BY <1>0, <1>2, <1>4, <1>5, <1>6, <1>7, PlacingKeeps

LEMMA CopyDuplicateKeeps ==
  ASSUME IInv, NEW p \in Proc, CopyDuplicate(p)
  PROVE  IInv'
<1>0. TypeOK /\ pc[p] = "fetch"
  BY DEF IInv, CopyDuplicate
<1>1. PICK first \in current[p], rel \in missing[p] :
        /\ \/ Copy(Target(p, first), Target(p, rel)) /\ UNCHANGED pc
           \/ CopyFails(Target(p, first), Target(p, rel)) /\ Goto(p, "failing")
        /\ missing' = [missing EXCEPT ![p] = @ \ {rel}]
  BY DEF CopyDuplicate
<1>2. UNCHANGED <<db, holder, job, left, seen, batch, hits, current, kept>>
  BY DEF CopyDuplicate
<1>3. first \in Rel /\ rel \in Rel
  BY <1>0 DEF TypeOK
<1>4. disk' \in [Abs -> Content] /\ same' \in [Abs -> SUBSET Abs]
  BY <1>0, <1>1, <1>3, TargetTyped, CopyTyped
<1>5. /\ pc' \in [Proc -> {"idle"} \cup Running \cup Ended]
      /\ pc'[p] \in {"fetch", "failing"} /\ \A q \in Proc \ {p} : pc'[q] = pc[q]
  BY <1>0, <1>1 DEF TypeOK, Goto, Running
<1>6. /\ missing' \in [Proc -> SUBSET Rel] /\ missing'[p] \subseteq missing[p]
      /\ current' \in [Proc -> SUBSET Rel] /\ hits' \in [Proc -> [Rel -> SUBSET Abs]]
  BY <1>0, <1>1, <1>2 DEF TypeOK
<1>7. Others(p)
  BY <1>0, <1>1, <1>2, <1>5 DEF Others, TypeOK
<1> QED BY <1>0, <1>2, <1>4, <1>5, <1>6, <1>7, PlacingKeeps

LEMMA EndFetchKeeps ==
  ASSUME IInv, NEW p \in Proc, EndFetch(p)
  PROVE  IInv'
<1>0. TypeOK /\ pc[p] = "fetch"
  BY DEF IInv, EndFetch
<1>1. /\ pc' = [pc EXCEPT ![p] = "copy"] /\ current' = [current EXCEPT ![p] = {}]
      /\ UNCHANGED <<db, holder, files, job, left, seen, batch, missing, hits, kept>>
  BY DEF EndFetch, Goto
<1>2. /\ pc' \in [Proc -> {"idle"} \cup Running \cup Ended] /\ pc'[p] = "copy"
      /\ disk' \in [Abs -> Content] /\ same' \in [Abs -> SUBSET Abs]
      /\ missing' \in [Proc -> SUBSET Rel] /\ missing'[p] \subseteq missing[p]
      /\ current' \in [Proc -> SUBSET Rel] /\ hits' \in [Proc -> [Rel -> SUBSET Abs]]
  BY <1>0, <1>1 DEF TypeOK, files, Running
<1>3. Others(p)
  BY <1>0, <1>1 DEF Others, TypeOK
<1> QED BY <1>0, <1>1, <1>2, <1>3, PlacingKeeps

\* A cached path leaves the list when it was tried.
LEMMA CopyCachedKeeps ==
  ASSUME IInv, NEW p \in Proc, CopyCached(p)
  PROVE  IInv'
<1>0. TypeOK /\ pc[p] = "copy"
  BY DEF IInv, CopyCached
<1>1. PICK rel \in Rel : \E a \in hits[p][rel] :
        /\ Copy(a, Target(p, rel)) \/ CopyFails(a, Target(p, rel))
        /\ UNCHANGED pc \/ GiveUp(p, a)
        /\ hits' = [hits EXCEPT ![p][rel] = @ \ {a}]
        /\ \E c \in SUBSET Rel : current' = [current EXCEPT ![p] = c]
  <2>1. PICK rel \in Rel : \E a \in hits[p][rel] :
          LET last == hits[p][rel] = {a}
          IN /\ \/ Copy(a, Target(p, rel)) /\ UNCHANGED pc
                \/ /\ CopyFails(a, Target(p, rel))
                   /\ IF last THEN GiveUp(p, a) ELSE UNCHANGED pc
             /\ hits' = [hits EXCEPT ![p][rel] = @ \ {a}]
             /\ current' = [current EXCEPT ![p] = IF last THEN {} ELSE {rel}]
    BY DEF CopyCached
  <2>2. PICK a \in hits[p][rel] :
          LET last == hits[p][rel] = {a}
          IN /\ \/ Copy(a, Target(p, rel)) /\ UNCHANGED pc
                \/ /\ CopyFails(a, Target(p, rel))
                   /\ IF last THEN GiveUp(p, a) ELSE UNCHANGED pc
             /\ hits' = [hits EXCEPT ![p][rel] = @ \ {a}]
             /\ current' = [current EXCEPT ![p] = IF last THEN {} ELSE {rel}]
    BY <2>1
  <2>3. (IF hits[p][rel] = {a} THEN {} ELSE {rel}) \in SUBSET Rel
    OBVIOUS
  <2> QED BY <2>2, <2>3
<1>2. PICK a \in hits[p][rel] :
        /\ Copy(a, Target(p, rel)) \/ CopyFails(a, Target(p, rel))
        /\ UNCHANGED pc \/ GiveUp(p, a)
        /\ hits' = [hits EXCEPT ![p][rel] = @ \ {a}]
        /\ \E c \in SUBSET Rel : current' = [current EXCEPT ![p] = c]
  BY <1>1
<1>3. UNCHANGED <<db, holder, job, left, seen, batch, missing, kept>>
  BY DEF CopyCached
<1>4. a \in Abs
  BY <1>0 DEF TypeOK
<1>5. disk' \in [Abs -> Content] /\ same' \in [Abs -> SUBSET Abs]
  BY <1>0, <1>2, <1>4, TargetTyped, CopyTyped
<1>6. hits' \in [Proc -> [Rel -> SUBSET Abs]] /\ \A q \in Proc \ {p} : hits'[q] = hits[q]
  <2> DEFINE h == [hits[p] EXCEPT ![rel] = @ \ {a}]
  <2>1. hits' = [hits EXCEPT ![p] = h]
    BY <1>2
  <2>2. h \in [Rel -> SUBSET Abs] /\ hits \in [Proc -> [Rel -> SUBSET Abs]]
    BY <1>0 DEF TypeOK
  <2> HIDE DEF h
  <2> QED BY <2>1, <2>2
<1>7. /\ pc' \in [Proc -> {"idle"} \cup Running \cup Ended]
      /\ pc'[p] \in {"copy", "stale", "failing"} /\ \A q \in Proc \ {p} : pc'[q] = pc[q]
  BY <1>0, <1>2 DEF TypeOK, GiveUp, Goto, Running
<1>8. /\ missing' \in [Proc -> SUBSET Rel] /\ missing'[p] \subseteq missing[p]
      /\ current' \in [Proc -> SUBSET Rel] /\ \A q \in Proc \ {p} : current'[q] = current[q]
  BY <1>0, <1>2, <1>3 DEF TypeOK
<1>9. Others(p)
  BY <1>3, <1>6, <1>7, <1>8 DEF Others
<1> QED BY <1>0, <1>3, <1>5, <1>6, <1>7, <1>8, <1>9, PlacingKeeps

\* Recording a batch makes it part of what the process recorded.
LEMMA RecordKeeps ==
  ASSUME IInv, NEW p \in Proc, Record(p)
  PROVE  IInv'
<1>0. /\ TypeOK /\ DB!TypeOK /\ Progress(p) /\ Records(p) /\ pc[p] = "copy"
      /\ job[p].delta /\ job[p].root \in Root /\ batch[p] \in DB!Batch
      /\ left[p] \in 1 .. Len(job[p].image) /\ Len(job[p].image) \in Nat
  BY JobTyped, ImageTyped DEF IInv, Record, Progress, TypeOK
<1>1. UNCHANGED <<holder, files, job, seen, todo>>
  BY DEF Record
<1> DEFINE both == [rel \in Rel |-> IF batch[p][rel] # NoDigest THEN batch[p][rel] ELSE kept[p][rel]]
<1>2. CASE /\ DB!RecordAll(job[p].root, batch[p]) /\ NextLayer(p, TRUE)
           /\ kept' = [kept EXCEPT ![p] = both]
  <2>1. /\ rootBkts' = rootBkts \cup {job[p].root}
        /\ \A r \in Root \ {job[p].root} : relPaths'[r] = relPaths[r]
        /\ \A rel \in Rel : relPaths'[job[p].root][rel] =
             IF batch[p][rel] # NoDigest THEN batch[p][rel] ELSE relPaths[job[p].root][rel]
    BY <1>0, <1>2, RecordEffect
  <2>2. DB!TypeOK'
    BY <1>0, <1>2, DBTyped DEF DB!Next
  <2>3. /\ pc' \in [Proc -> {"idle"} \cup Running \cup Ended]
        /\ left' \in [Proc -> Nat]
        /\ \A q \in Proc \ {p} : pc'[q] = pc[q] /\ left'[q] = left[q]
        /\ \/ pc'[p] = "layer" /\ left'[p] = left[p] - 1
           \/ pc'[p] = "failing" /\ left'[p] = left[p]
    BY <1>0, <1>2, NextLayerEffect
  <2>4. both \in DB!Batch /\ kept' \in [Proc -> DB!Batch] /\ kept'[p] = both
    BY <1>0, <1>2 DEF TypeOK, DB!Batch
  <2>14. TypeOK'
    BY <1>0, <1>1, <2>2, <2>3, <2>4 DEF TypeOK, files, todo
  <2>5. Others(p) /\ Polite(p)
    BY <1>0, <1>1, <1>2, <2>1, <2>3 DEF Others, Polite, Active, Holding, TypeOK, todo
  <2>6. Progress(p)'
    BY <1>0, <1>1, <1>2, <2>3, <2>4 DEF Progress, Active, Holding
  <2>7. Records(p)'
    <3>1. /\ relPaths[job[p].root] = kept[p]
          /\ \A rel \in Rel : kept[p][rel] # NoDigest => rel \in seen[p]
          /\ \A rel \in Rel : batch[p][rel] # NoDigest => rel \in seen[p]
      BY <1>0 DEF Records, Active, Holding
    <3>2. relPaths'[job[p].root] = both
      <4>1. relPaths'[job[p].root] \in DB!Batch
        BY <1>0, <2>2 DEF DB!TypeOK
      <4>2. \A rel \in Rel : relPaths'[job[p].root][rel] = both[rel]
        BY <2>1, <3>1
      <4> HIDE DEF both
      <4> QED BY <2>4, <4>1, <4>2 DEF DB!Batch
    <3>3. \A rel \in Rel : both[rel] # NoDigest => rel \in seen[p]
      BY <3>1
    <3> QED BY <1>0, <1>1, <2>3, <2>4, <3>2, <3>3 DEF Records, Active, Holding
  <2>8. \A q \in Proc : Progress(q)' /\ Records(q)'
    BY <2>5, <2>6, <2>7, OthersKept
  <2>9. Alone'
    BY <1>0, <1>1, <2>3, <2>5, AloneKept DEF Active, Holding
  <2>10. UntrackedEmpty'
    BY <2>1 DEF IInv, UntrackedEmpty
  <2>11. \A root : root = job[p].root => Tracks(p, root)'
    BY <1>0, <1>1, <2>3 DEF Tracks, Holding
  <2>12. \A root : Tracks(p, root) => root = job[p].root
    BY DEF Tracks
  <2>13. Witnessed'
    BY <2>1, <2>5, <2>11, <2>12, WitnessKept
  <2> QED BY <2>8, <2>9, <2>10, <2>13, <2>14 DEF IInv
<1>3. CASE Goto(p, "failing") /\ UNCHANGED <<db, left, kept>>
  <2>1. TypeOK'
    BY <1>0, <1>1, <1>3 DEF TypeOK, DB!TypeOK, db, files, todo, Goto, Running
  <2>2. Others(p) /\ pc'[p] = "failing"
    BY <1>0, <1>1, <1>3 DEF Others, TypeOK, todo, Goto
  <2>3. Progress(p)'
    BY <1>0, <1>1, <1>3, <2>2 DEF Progress, Active, Holding, todo
  <2>4. Records(p)'
    BY <1>0, <1>1, <1>3, <2>2 DEF Records, Active, Holding, db, todo
  <2>5. Alone'
    BY <1>0, <1>1, <2>2, AloneKept DEF Active, Holding
  <2>6. \A root \in Root : Tracks(p, root) => Tracks(p, root)'
    BY <1>1, <2>2 DEF Tracks, Holding
  <2> QED BY <1>1, <1>3, <2>1, <2>2, <2>3, <2>4, <2>5, <2>6, QuietStep
<1> QED BY <1>2, <1>3 DEF Record

\* A process that succeeds still holds the lock: nobody else is past the check.
LEMMA FinishKeeps ==
  ASSUME IInv, NEW p \in Proc, Finish(p)
  PROVE  IInv'
<1>0. TypeOK /\ Progress(p) /\ Records(p) /\ pc[p] = "layer"
  BY DEF IInv, Finish
<1>1. /\ Goto(p, "done") \/ Goto(p, "failing")
      /\ UNCHANGED <<db, holder, job, left, seen, todo, kept>>
  BY DEF Finish
<1>10. disk' \in [Abs -> Content] /\ same' \in [Abs -> SUBSET Abs]
  <2>1. seen[p] \subseteq Rel
    BY <1>0 DEF TypeOK
  <2>2. PICK new \in SUBSET (Rel \ seen[p]) : \E link \in [new -> seen[p]] : Linked(p, link)
    BY DEF Finish
  <2>3. PICK link \in [new -> seen[p]] : Linked(p, link)
    BY <2>2
  <2>4. link \in [new -> Rel]
    BY <2>1
  <2> QED BY <1>0, <2>3, <2>4, LinkedTyped
<1>2. TypeOK'
  BY <1>0, <1>1, <1>10 DEF TypeOK, DB!TypeOK, db, todo, Goto, Running, Ended
<1>3. Others(p) /\ pc'[p] \in {"done", "failing"}
  BY <1>0, <1>1 DEF Others, TypeOK, todo, Goto
<1>4. Progress(p)'
  BY <1>0, <1>1, <1>3 DEF Progress, Active, Holding
<1>5. Records(p)'
  <2>1. relPaths' = relPaths /\ kept' = kept /\ job' = job /\ seen' = seen
    BY <1>1 DEF db
  <2>2. CASE Active(p)
    BY <1>0, <1>3, <2>1, <2>2 DEF Records, Active, Holding
  <2>3. CASE ~Active(p)
    <3>1. ~job[p].delta
      BY <1>0, <2>3 DEF Active, Holding
    <3>2. kept[p] = NoBatch
      BY <1>0, <3>1 DEF Progress
    <3> QED BY <1>3, <2>1, <3>1, <3>2 DEF Records, Active
  <2> QED BY <2>2, <2>3
<1>6. Alone'
  <2> SUFFICES ASSUME NEW a \in Proc, NEW b \in Proc, a # b,
                      Active(b)', pc'[a] = "done", job'[a].root = job'[b].root
               PROVE  kept'[a] = NoBatch
    BY DEF Alone
  <2>1. Active(b)
    BY <1>0, <1>1, <1>3 DEF Others, Active, Holding
  <2>2. CASE a = p
    <3>1. ~job[p].delta
      BY <1>0, <2>1, <2>2, OneActive DEF Active, Holding
    <3> QED BY <1>0, <1>1, <2>2, <3>1 DEF Progress
  <2>3. CASE a # p
    BY <1>1, <1>3, <2>1, <2>3 DEF Others, IInv, Alone
  <2> QED BY <2>2, <2>3
<1>7. \A root \in Root : Tracks(p, root) => Tracks(p, root)'
  BY <1>1, <1>3 DEF Tracks, Holding
<1> QED BY <1>1, <1>2, <1>3, <1>4, <1>5, <1>6, <1>7, QuietStep

\* A process that fails removes its destination's records, and only those, or
\* stays as the reason for them.
LEMMA FailKeeps ==
  ASSUME IInv, NEW p \in Proc, Fail(p)
  PROVE  IInv'
<1>0. /\ TypeOK /\ DB!TypeOK /\ UntrackedEmpty /\ Progress(p) /\ Records(p)
      /\ pc[p] \in {"failing", "stale"}
      /\ job[p].root \in Root
  BY JobTyped DEF IInv, Fail, TypeOK
<1>1. UNCHANGED <<holder, files, job, left, seen, todo, kept>>
  BY DEF Fail
<1>2. Others(p) /\ pc'[p] \in {"failed", "unclean"}
  BY <1>0, <1>1 DEF Fail, Goto, Others, TypeOK, todo
<1>3. DB!TypeOK'
  <2>1. CASE UNCHANGED db
    BY <1>0, <2>1 DEF DB!TypeOK, db
  <2>2. CASE DB!RemoveRoot(job[p].root)
    BY <1>0, <2>2, DBTyped DEF DB!Next
  <2> QED BY <2>1, <2>2 DEF Fail, Undone
<1>4. TypeOK'
  BY <1>0, <1>1, <1>3 DEF Fail, Goto, TypeOK, Ended, files, todo
<1>5. Progress(p)' /\ (UNCHANGED db => Records(p)') /\ (pc[p] # "done" => Records(p)')
  BY <1>0, <1>1, <1>2 DEF Progress, Records, Active, Holding, db
<1>6. Alone'
  BY <1>2, AloneKept DEF Active, Holding
<1>7. CASE job[p].delta /\ DB!RemoveRoot(job[p].root)
  <2>1. /\ rootBkts' = rootBkts \ {job[p].root}
        /\ \A r \in Root \ {job[p].root} : relPaths'[r] = relPaths[r]
        /\ relPaths'[job[p].root] = NoBatch
    BY <1>0, <1>7, RemoveEffect
  <2>2. Polite(p)
    BY <1>0, <1>1, <1>7, <2>1 DEF Polite, Active, Holding
  <2>3. \A q \in Proc : Progress(q)' /\ Records(q)'
    BY <1>0, <1>2, <1>5, <2>2, OthersKept
  <2>4. UntrackedEmpty'
    BY <1>0, <2>1 DEF UntrackedEmpty
  <2>5. \A root : Tracks(p, root) => root = job[p].root
    BY DEF Tracks
  <2>6. Witnessed'
    BY <1>2, <2>1, <2>5, WitnessKept
  <2> QED BY <1>4, <1>6, <2>3, <2>4, <2>6 DEF IInv
<1>8. CASE UNCHANGED db /\ (job[p].delta => pc'[p] = "unclean")
  <2>1. \A root \in Root : Tracks(p, root) => Tracks(p, root)'
    BY <1>1, <1>8 DEF Tracks
  <2> QED BY <1>1, <1>2, <1>4, <1>5, <1>6, <1>8, <2>1, QuietStep
<1>9. \/ job[p].delta /\ DB!RemoveRoot(job[p].root)
      \/ UNCHANGED db /\ (job[p].delta => pc'[p] = "unclean")
  <2>1. CASE Undone(p)
    <3>1. job[p].delta \in BOOLEAN
      BY <1>0, JobTyped
    <3> QED BY <2>1, <3>1 DEF Undone
  <2>2. CASE UNCHANGED db /\ Goto(p, "unclean")
    BY <1>0, <2>2 DEF Goto, TypeOK
  <2> QED BY <2>1, <2>2 DEF Fail
<1> QED BY <1>7, <1>8, <1>9

\* The lock is released by processes that have ended.
LEMMA ExitKeeps ==
  ASSUME IInv, NEW p \in Proc, Exit(p)
  PROVE  IInv'
<1>0. TypeOK /\ Progress(p) /\ Records(p) /\ ~Active(p)
  BY DEF IInv, Exit, Active, Ended, Holding
<1>1. /\ holder = p /\ holder' = Nobody
      /\ UNCHANGED <<db, files, pc, job, left, seen, todo, kept>>
  BY DEF Exit
<1>2. TypeOK'
  BY <1>0, <1>1 DEF TypeOK, DB!TypeOK, db, files, todo
<1>3. Others(p)
  BY <1>1 DEF Others, todo
<1>4. Progress(p)' /\ Records(p)'
  BY <1>0, <1>1 DEF Progress, Records, Active, db, todo
<1>5. Alone'
  BY <1>1, <1>3, AloneKept DEF Active
<1>6. \A root \in Root : Tracks(p, root) => Tracks(p, root)'
  BY <1>1 DEF Tracks
<1> QED BY <1>0, <1>1, <1>2, <1>3, <1>4, <1>5, <1>6, QuietStep

\* A killed process leaves its records, and is the reason for them.
LEMMA CrashKeeps ==
  ASSUME IInv, NEW p \in Proc, Crash(p)
  PROVE  IInv'
<1>0. TypeOK /\ Progress(p) /\ Records(p) /\ pc[p] \in Running
  BY DEF IInv, Crash
<1>1. /\ pc' = [pc EXCEPT ![p] = "crashed"]
      /\ UNCHANGED <<db, holder, files, job, left, seen, todo, kept>>
  BY DEF Crash, Goto
<1>2. TypeOK'
  BY <1>0, <1>1 DEF TypeOK, DB!TypeOK, db, files, todo, Ended
<1>3. Others(p) /\ pc'[p] = "crashed"
  BY <1>0, <1>1 DEF Others, TypeOK, todo
<1>4. Progress(p)' /\ Records(p)'
  BY <1>0, <1>1, <1>3 DEF Progress, Records, Active, Holding, Running, db, todo
<1>5. Alone'
  BY <1>3, AloneKept DEF Active, Holding
<1>6. \A root \in Root : Tracks(p, root) => Tracks(p, root)'
  BY <1>1, <1>3 DEF Tracks
<1> QED BY <1>1, <1>2, <1>3, <1>4, <1>5, <1>6, QuietStep

\* What happens to files on disk does not matter to any of it.
LEMMA UserDeleteKeeps ==
  ASSUME IInv, NEW a \in Abs, UserDelete(a)
  PROVE  IInv'
<1>1. /\ disk' = [disk EXCEPT ![a] = NoFile] /\ same' = Unlinked({a})
      /\ UNCHANGED <<db, holder, pc, job, left, seen, todo, kept>>
  BY DEF UserDelete
<1>5. /\ disk' \in [Abs -> Content] /\ same' \in [Abs -> SUBSET Abs]
  BY <1>1 DEF IInv, TypeOK, Content, Unlinked
<1>2. TypeOK'
  BY <1>1, <1>5 DEF IInv, TypeOK, DB!TypeOK, db, todo
<1>3. \A p \in Proc : Progress(p)' /\ Records(p)'
  BY <1>1 DEF IInv, Progress, Records, Active, db, todo
<1>4. Alone' /\ UntrackedEmpty' /\ Witnessed'
  BY <1>1 DEF IInv, Alone, UntrackedEmpty, Witnessed, Active, db
<1> QED BY <1>2, <1>3, <1>4 DEF IInv

\* A step that changes nothing.
LEMMA StutterKeeps ==
  ASSUME IInv, UNCHANGED vars
  PROVE  IInv'
<1>1. UNCHANGED <<db, holder, files, pc, job, left, seen, todo, kept>>
  BY DEF vars, db, files, todo
<1>2. TypeOK'
  BY <1>1 DEF IInv, TypeOK, DB!TypeOK, db, files, todo
<1>3. \A p \in Proc : Progress(p)' /\ Records(p)'
  BY <1>1 DEF IInv, Progress, Records, Active, db, todo
<1>4. Alone' /\ UntrackedEmpty' /\ Witnessed'
  BY <1>1 DEF IInv, Alone, UntrackedEmpty, Witnessed, Active, db
<1> QED BY <1>2, <1>3, <1>4 DEF IInv

\* Before any process starts the database is empty.
LEMMA InitIInv ==
  ASSUME Init
  PROVE  IInv
<1>1. /\ checksums = {} /\ digestBkts = {} /\ rootBkts = {}
      /\ relPaths = [root \in Root |-> NoBatch]
  BY DEF Init, DB!Init, NoBatch
<1>2. NoBatch \in DB!Batch
  BY DEF NoBatch, DB!Batch
<1>3. DB!TypeOK
  BY <1>1, <1>2 DEF DB!TypeOK
<1>4. (CHOOSE j \in Job : TRUE) \in Job
  <2>1. PICK image \in Image, root \in DeltaRoot \cup PlainRoot : TRUE
    BY JobAssumption
  <2>2. \/ [image |-> image, root |-> root, delta |-> TRUE] \in Job
        \/ [image |-> image, root |-> root, delta |-> FALSE] \in Job
    BY DEF Job
  <2> QED BY <2>2
<1>5. TypeOK
  BY <1>2, <1>3, <1>4 DEF Init, TypeOK, NoHits, Content
<1>6. \A p \in Proc : pc[p] = "idle" /\ seen[p] = {} /\ kept[p] = NoBatch
  BY DEF Init
<1>7. \A p \in Proc : Progress(p) /\ Records(p)
  BY <1>6 DEF Progress, Records, Active, Holding
<1>8. Alone /\ UntrackedEmpty /\ Witnessed
  BY <1>1, <1>6 DEF Alone, UntrackedEmpty, Witnessed
<1> QED BY <1>5, <1>7, <1>8 DEF IInv

\* Every step keeps the invariant.
LEMMA NextKeeps ==
  ASSUME IInv, [Next]_vars
  PROVE  IInv'
<1>1. ASSUME NEW p \in Proc, Step(p) PROVE IInv'
  BY <1>1, OpenKeeps, ApplyLayerKeeps, ProcessTOCKeeps, FetchMissingKeeps, CopyDuplicateKeeps,
     EndFetchKeeps, CopyCachedKeeps, RecordKeeps, FinishKeeps, FailKeeps, ExitKeeps DEF Step
<1> QED BY <1>1, StartKeeps, CrashKeeps, UserDeleteKeeps, StutterKeeps DEF Next

\* The invariant holds of every behaviour, whatever fails or is killed.
THEOREM Invariance == Spec => []IInv
BY InitIInv, NextKeeps, PTL DEF Spec

-----------------------------------------------------------------------------
(* What follows without looking at where files lie *)

\* The database, the lock, the disk and what processes know are well typed; in
\* particular no process applies a layer its image does not have.
THEOREM TypeCorrect == Spec => []TypeOK
BY Invariance, PTL DEF IInv

\* A failed extraction that can removes its records: only running, successful and
\* killed ones have any, and those whose RemoveRoot failed as well.
THEOREM FailuresAreForgotten == Spec => []FailuresForgotten
<1>1. IInv => FailuresForgotten
  BY DEF IInv, Witnessed, FailuresForgotten, Holding, Running
<1> QED BY <1>1, Invariance, PTL

\* All that a successful extraction recorded, of every layer, is in the database
\* for good, and nothing else under its destination.
THEOREM SuccessIsKept == Spec => []SuccessKept
<1>1. IInv => SuccessKept
  BY DEF IInv, Records, SuccessKept
<1> QED BY <1>1, Invariance, PTL

\* Each step is at most one transaction, and one that records no path twice.
LEMMA StepUsesDB ==
  ASSUME IInv, [Next]_vars
  PROVE  [DB!ExtractorNext]_(DB!vars)
<1>1. ASSUME UNCHANGED db PROVE UNCHANGED DB!vars
  BY <1>1 DEF db, DB!vars
<1>2. ASSUME NEW p \in Proc, Record(p) PROVE [DB!ExtractorNext]_(DB!vars)
  <2>1. job[p].root \in Root /\ batch[p] \in DB!Batch
    BY JobTyped DEF IInv, TypeOK
  <2>2. DB!FreshFor(job[p].root, batch[p])
    <3>1. /\ relPaths[job[p].root] = kept[p]
          /\ \A rel \in Rel : batch[p][rel] # NoDigest => kept[p][rel] = NoDigest
      BY <1>2 DEF IInv, Progress, Records, Record, Active, Holding
    <3> QED BY <3>1 DEF DB!FreshFor
  <2>3. UNCHANGED db \/ DB!RecordAll(job[p].root, batch[p])
    BY <1>2 DEF Record, db
  <2> QED BY <1>1, <2>1, <2>2, <2>3 DEF DB!ExtractorNext
<1>3. ASSUME NEW p \in Proc, Fail(p) PROVE [DB!ExtractorNext]_(DB!vars)
  <2>1. job[p].root \in Root
    BY JobTyped DEF IInv
  <2>2. UNCHANGED db \/ DB!RemoveRoot(job[p].root)
    BY <1>3 DEF Fail, Undone
  <2> QED BY <1>1, <2>1, <2>2 DEF DB!ExtractorNext
<1>4. ASSUME NEW p \in Proc, Step(p), ~Record(p), ~Fail(p) PROVE UNCHANGED db
  BY <1>4 DEF Step, Open, ApplyLayer, ProcessTOC, FetchMissing, CopyDuplicate,
              EndFetch, CopyCached, Finish, Exit
<1>5. ASSUME NEW p \in Proc, Start(p) \/ Crash(p) PROVE UNCHANGED db
  BY <1>5 DEF Start, Crash
<1>6. ASSUME NEW a \in Abs, UserDelete(a) PROVE UNCHANGED db
  BY <1>6 DEF UserDelete
<1>7. UNCHANGED vars => UNCHANGED db
  BY DEF vars, db
<1> QED BY <1>1, <1>2, <1>3, <1>4, <1>5, <1>6, <1>7 DEF Next

\* Extractions are a caller of the database that records a path only once
\* between two removals of its root: the discipline FileDB relies on.
THEOREM DatabaseUsedOnce == Spec => UsesDBOnce
<1>1. Init => DB!Init
  BY DEF Init
<1> QED BY <1>1, StepUsesDB, Invariance, PTL DEF Spec, UsesDBOnce, DB!ExtractorSpec

\* The two instances of the database take the same steps.
LEMMA SameSteps ==
  /\ DB!Init => FDP!Init
  /\ [DB!ExtractorNext]_(DB!vars) => [FDP!ExtractorNext]_(FDP!vars)
<1>1. ASSUME NEW root \in Root, DB!RemoveRoot(root) PROVE FDP!RemoveRoot(root)
  BY <1>1 DEF DB!RemoveRoot, FDP!RemoveRoot, DB!Facts, FDP!Facts, DB!Left, FDP!Left,
              DB!Emptied, FDP!Emptied, DB!vars, FDP!vars
<1>2. ASSUME NEW root \in Root, NEW b \in DB!Batch, DB!RecordAll(root, b), DB!FreshFor(root, b)
      PROVE  b \in FDP!Batch /\ FDP!RecordAll(root, b) /\ FDP!FreshFor(root, b)
  BY <1>2 DEF DB!RecordAll, FDP!RecordAll, DB!NewKeys, FDP!NewKeys, DB!Latest, FDP!Latest,
              DB!Batch, FDP!Batch, DB!FreshFor, FDP!FreshFor
<1>3. DB!ExtractorNext => FDP!ExtractorNext
  BY <1>1, <1>2 DEF DB!ExtractorNext, FDP!ExtractorNext
<1>4. DB!Init => FDP!Init
  BY DEF DB!Init, FDP!Init
<1> QED BY <1>3, <1>4 DEF DB!vars, FDP!vars

\* So whatever extractions do, fail or are killed, the database they share is
\* an extraction index: a root's removal forgets exactly what it recorded.
THEOREM ExtractionsKeepAnIndex ==
  ASSUME DB!RootsDisjoint
  PROVE  Spec => KeepsIndex
<1>1. FDP!RootsDisjoint
  BY DEF DB!RootsDisjoint, FDP!RootsDisjoint
<1>2. FDP!ExtractorSpec => FDP!ImplementsIndex
  BY <1>1, JoinAssumption, NoDigestAssumption, FDP!FileDBImplementsIndex
<1>3. DB!ExtractorSpec => FDP!ExtractorSpec
  BY SameSteps, PTL DEF DB!ExtractorSpec, FDP!ExtractorSpec
<1>4. FDP!Index!Init => DB!Index!Init
  BY DEF FDP!Index!Init, DB!Index!Init, FDP!PathsForChecksum, DB!PathsForChecksum
<1>5. [FDP!Index!Next]_(FDP!Index!vars) => [DB!Index!Next]_(DB!Index!vars)
  <2>1. UNCHANGED FDP!Index!vars => UNCHANGED DB!Index!vars
    BY DEF FDP!Index!vars, DB!Index!vars, FDP!PathsForChecksum, DB!PathsForChecksum
  <2>2. ASSUME NEW root \in Root, FDP!Index!Forget(root)
        PROVE  DB!Index!Forget(root)
    BY <2>2 DEF FDP!Index!Forget, DB!Index!Forget, FDP!Index!Below, DB!Index!Below,
                FDP!PathsForChecksum, DB!PathsForChecksum
  <2>3. ASSUME NEW root \in Root, NEW b \in FDP!Index!Batch, FDP!Index!Record(root, b)
        PROVE  b \in DB!Index!Batch /\ DB!Index!Record(root, b)
    BY <2>3 DEF FDP!Index!Record, DB!Index!Record, FDP!PathsForChecksum, DB!PathsForChecksum,
                FDP!Index!Batch, DB!Index!Batch
  <2> QED BY <2>1, <2>2, <2>3 DEF FDP!Index!Next, DB!Index!Next
<1>6. FDP!ImplementsIndex => DB!ImplementsIndex
  BY <1>4, <1>5, PTL DEF FDP!ImplementsIndex, DB!ImplementsIndex, FDP!Index!Spec, DB!Index!Spec
<1> QED BY <1>2, <1>3, <1>6, DatabaseUsedOnce DEF UsesDBOnce, KeepsIndex

\* And its two indexes hold the same facts.
THEOREM IndexesStayInStep ==
  ASSUME DB!RootsDisjoint
  PROVE  Spec => []IndexesInStep
<1>1. FDP!RootsDisjoint
  BY DEF DB!RootsDisjoint, FDP!RootsDisjoint
<1>2. FDP!ExtractorSpec => [](FDP!TypeOK /\ FDP!IndexesAgree)
  BY <1>1, JoinAssumption, NoDigestAssumption, FDP!IndexesInStep
<1>3. DB!ExtractorSpec => FDP!ExtractorSpec
  BY SameSteps, PTL DEF DB!ExtractorSpec, FDP!ExtractorSpec
<1>4. FDP!IndexesAgree => IndexesInStep
  BY DEF FDP!IndexesAgree, IndexesInStep, DB!IndexesAgree, FDP!Facts, DB!Facts
<1>5. Spec => DB!ExtractorSpec
  BY DatabaseUsedOnce DEF UsesDBOnce
<1> QED BY <1>2, <1>3, <1>4, <1>5, PTL

-----------------------------------------------------------------------------
(* Where files lie *)

\* No destination lies inside another, and nobody extracts with --delta=false
\* into a destination of delta extractions.
Apart == DB!RootsDisjoint /\ DeltaRoot \cap PlainRoot = {}

\* No path process p may write shares its file with another path.
Unshared(p) == \A rel \in Rel : same[Target(p, rel)] = {Target(p, rel)}

\* What a delta extraction has on disk between two layers.
LayersPlaced(p) ==
  /\ Unshared(p)
  /\ seen[p] = SeenAbove(p, left[p])
  /\ \A rel \in seen[p] : disk[Target(p, rel)] = Flattened(job[p].image, rel)

\* While a batch is at hand: its files are the image's, and on disk unless they
\* are to be fetched or have cached paths to be copied from.
BatchPlaced(p) ==
  /\ Unshared(p)
  /\ seen[p] = SeenAbove(p, left[p] - 1)
  /\ \A rel \in seen[p] :
       IF batch[p][rel] = NoDigest
         THEN disk[Target(p, rel)] = Flattened(job[p].image, rel)
         ELSE batch[p][rel] = Flattened(job[p].image, rel)
  /\ \A rel \in Rel : \A a \in hits[p][rel] : <<batch[p][rel], a>> \in checksums
  /\ \A rel \in Rel : batch[p][rel] # NoDigest /\ rel \notin missing[p] /\ hits[p][rel] = {} =>
                        disk[Target(p, rel)] = batch[p][rel]

\* The file at hand is one already fetched, or one with paths still to be tried.
LoopsPlaced(p) ==
  /\ pc[p] \in {"idle", "open", "layer"} => current[p] = {}
  /\ pc[p] = "fetch" =>
       /\ \A rel \in missing[p] : hits[p][rel] = {}
       /\ \A first \in current[p] :
            batch[p][first] # NoDigest /\ first \notin missing[p] /\ hits[p][first] = {}
  /\ pc[p] = "copy" =>
       /\ missing[p] = {}
       /\ \A rel \in current[p] : hits[p][rel] # {}

Placed(p) ==
  /\ LoopsPlaced(p)
  /\ job[p].delta =>
       /\ pc[p] = "layer" => LayersPlaced(p)
       /\ pc[p] \in {"fetch", "copy"} => BatchPlaced(p)

CacheInv ==
  /\ IInv
  /\ DB!IndexesAgree
  /\ CacheSound
  /\ \A p \in Proc : Placed(p)

\* The topmost layer that has a path decides what the image has there.
LEMMA TopLayer ==
  ASSUME NEW image \in Image, NEW rel \in Rel, NEW i \in 1 .. Len(image),
         image[i].files[rel] # NoDigest,
         \A j \in i + 1 .. Len(image) : image[j].files[rel] = NoDigest
  PROVE  Flattened(image, rel) = image[i].files[rel]
<1> DEFINE has == {k \in DOMAIN image : image[k].files[rel] # NoDigest}
<1>1. Len(image) \in Nat /\ DOMAIN image = 1 .. Len(image)
  BY ImageTyped
<1>2. i \in has /\ \A j \in has : j \in 1 .. Len(image) /\ j <= i
  BY <1>1
<1>3. \A k \in has : (\A j \in has : j <= k) => k = i
  BY <1>2
<1>4. (CHOOSE k \in has : \A j \in has : j <= k) = i
  BY <1>2, <1>3
<1> QED BY <1>2, <1>4 DEF Flattened

\* With the layers above seen, the fresh files of a layer are the image's.
LEMMA FreshIsTop ==
  ASSUME TypeOK, NEW p \in Proc, left[p] \in 1 .. Len(job[p].image),
         seen[p] = SeenAbove(p, left[p])
  PROVE  /\ SeenAbove(p, left[p] - 1) = seen[p] \cup Fresh(p)
         /\ \A rel \in Fresh(p) : Flattened(job[p].image, rel) = Layer(p).files[rel]
<1> DEFINE image == job[p].image
           n == left[p]
<1>1. image \in Image /\ Len(image) \in Nat /\ n \in 1 .. Len(image)
  BY JobTyped, ImageTyped
<1>2. \A i : i \in n - 1 + 1 .. Len(image) <=> i = n \/ i \in n + 1 .. Len(image)
  BY <1>1
<1>3. \A rel \in Rel : rel \in Fresh(p) <=> rel \notin seen[p] /\ image[n].files[rel] # NoDigest
  BY DEF Fresh, Layer
<1>4. \A rel \in Rel : rel \in SeenAbove(p, n - 1)
                         <=> image[n].files[rel] # NoDigest \/ rel \in SeenAbove(p, n)
  BY <1>2 DEF SeenAbove
<1>5. SeenAbove(p, n - 1) \subseteq Rel /\ seen[p] \subseteq Rel /\ Fresh(p) \subseteq Rel
  BY DEF SeenAbove, Fresh, TypeOK
<1>6. SeenAbove(p, n - 1) = seen[p] \cup Fresh(p)
  BY <1>3, <1>4, <1>5
<1>7. ASSUME NEW rel \in Fresh(p) PROVE Flattened(image, rel) = image[n].files[rel]
  <2>1. rel \in Rel /\ image[n].files[rel] # NoDigest /\ rel \notin SeenAbove(p, n)
    BY <1>3, <1>5
  <2>2. \A j \in n + 1 .. Len(image) : image[j].files[rel] = NoDigest
    BY <2>1 DEF SeenAbove
  <2> QED BY <1>1, <2>1, <2>2, TopLayer
<1> QED BY <1>6, <1>7 DEF Layer

-----------------------------------------------------------------------------
(* What each way of writing does to files *)

\* A process's paths are its own.
LEMMA TargetsDiffer ==
  ASSUME Apart, TypeOK, NEW p \in Proc
  PROVE  /\ \A rel \in Rel : Target(p, rel) \in Abs
         /\ \A r1, r2 \in Rel : Target(p, r1) = Target(p, r2) => r1 = r2
<1>1. job[p].root \in Root
  BY JobTyped
<1> QED BY <1>1, TargetTyped DEF Apart, DB!RootsDisjoint, Target

\* Process p changed the content only of its files S, and no path that is not
\* one of its own became, or ceased to be, a link.
Confined(p, S) ==
  /\ \A a \in Abs : (\A rel \in S : Target(p, rel) # a) => disk'[a] = disk[a]
  /\ \A a \in Abs : (\A rel \in Rel : Target(p, rel) # a) /\ same[a] = {a} => same'[a] = {a}

\* No path of p became a link.
StillUnshared(p) ==
  \A rel \in Rel : same[Target(p, rel)] = {Target(p, rel)} =>
                     same'[Target(p, rel)] = {Target(p, rel)}

\* The files p did not write are as they were.
LEMMA OwnKept ==
  ASSUME Apart, TypeOK, NEW p \in Proc, NEW S \in SUBSET Rel, Confined(p, S)
  PROVE  \A rel \in Rel \ S : disk'[Target(p, rel)] = disk[Target(p, rel)]
BY TargetsDiffer DEF Confined

\* New files are where they belong.
LEMMA CreateAt ==
  ASSUME Apart, TypeOK, NEW p \in Proc, NEW S \in SUBSET Rel, NEW content,
         DOMAIN content = S, Create(p, content)
  PROVE  /\ Confined(p, S) /\ StillUnshared(p)
         /\ \A rel \in S : disk'[Target(p, rel)] = content[rel]
<1>1. /\ \A rel \in Rel : Target(p, rel) \in Abs
      /\ \A r1, r2 \in Rel : Target(p, r1) = Target(p, r2) => r1 = r2
  BY TargetsDiffer
<1>2. \A rel \in S : (CHOOSE r \in S : Target(p, r) = Target(p, rel)) = rel
  BY <1>1
<1>3. \A a \in Abs : disk'[a] = IF \E rel \in S : Target(p, rel) = a
                                  THEN content[CHOOSE rel \in S : Target(p, rel) = a]
                                  ELSE disk[a]
  BY DEF Create
<1>4. \A rel \in S : disk'[Target(p, rel)] = content[rel]
  BY <1>1, <1>2, <1>3
<1>5. \A a \in Abs : same[a] = {a} => same'[a] = {a}
  BY DEF Create, Unlinked
<1> QED BY <1>1, <1>3, <1>4, <1>5 DEF Confined, StillUnshared

\* A copy onto a path that shares its file with no other stays there, and one
\* that succeeds has the content of its source.
LEMMA CopyAt ==
  ASSUME Apart, TypeOK, NEW p \in Proc, NEW rel \in Rel, NEW from \in Abs,
         same[Target(p, rel)] = {Target(p, rel)}, from # Target(p, rel),
         Copy(from, Target(p, rel)) \/ CopyFails(from, Target(p, rel))
  PROVE  /\ Confined(p, {rel}) /\ StillUnshared(p)
         /\ Copy(from, Target(p, rel)) =>
              disk[from] # NoFile /\ disk'[Target(p, rel)] = disk[from]
<1> DEFINE to == Target(p, rel)
<1>1. to \in Abs /\ \A r \in Rel : Target(p, r) \in Abs
  BY TargetsDiffer
<1>2. ASSUME NEW c, Overwrite(to, c)
      PROVE  /\ disk'[to] = c /\ \A a \in Abs \ {to} : disk'[a] = disk[a]
             /\ \A a \in Abs : same[a] = {a} => same'[a] = {a}
  BY <1>1, <1>2 DEF Overwrite
<1>3. CASE Copy(from, to)
  <2>1. disk[from] # NoFile /\ Overwrite(to, disk[from])
    BY <1>3 DEF Copy
  <2> HIDE DEF to
  <2>2. /\ disk'[to] = disk[from] /\ \A a \in Abs \ {to} : disk'[a] = disk[a]
        /\ \A a \in Abs : same[a] = {a} => same'[a] = {a}
    BY <1>2, <2>1
  <2> QED BY <1>1, <2>1, <2>2 DEF Confined, StillUnshared, to
<1>4. CASE CopyFails(from, to) /\ ~Copy(from, to)
  <2>1. /\ \A a \in Abs \ {to} : disk'[a] = disk[a]
        /\ \A a \in Abs : same[a] = {a} => same'[a] = {a}
    <3>1. CASE UNCHANGED files
      BY <3>1 DEF files
    <3>2. CASE Overwrite(to, Torn)
      BY <1>2, <3>2
    <3>3. CASE /\ disk' = [b \in Abs |-> IF b = to THEN NoFile
                                        ELSE IF b \in same[to] THEN Torn ELSE disk[b]]
               /\ same' = Unlinked({to})
      BY <1>1, <3>3 DEF Unlinked
    <3> QED BY <1>4, <3>1, <3>2, <3>3 DEF CopyFails
  <2> QED BY <1>1, <1>4, <2>1 DEF Confined, StillUnshared
<1> QED BY <1>3, <1>4

\* Hard links are made at paths that are files of no layer.
LEMMA LinkAt ==
  ASSUME Apart, TypeOK, NEW p \in Proc, NEW new \in SUBSET (Rel \ seen[p]),
         NEW link \in [new -> seen[p]], Linked(p, link)
  PROVE  Confined(p, new)
<1> DEFINE Source(b) == IF \E rel \in DOMAIN link : Target(p, rel) = b
                          THEN Target(p, link[CHOOSE rel \in DOMAIN link : Target(p, rel) = b])
                          ELSE b
<1>1. /\ disk' = [b \in Abs |-> disk[Source(b)]]
      /\ same' = [b \in Abs |-> {c \in Abs : Source(c) \in same[Source(b)]}]
  BY DEF Linked
<1>2. seen[p] \subseteq Rel /\ DOMAIN link = new /\ new \subseteq Rel
  BY DEF TypeOK
<1>3. \A b : (\A rel \in new : Target(p, rel) # b) => Source(b) = b
  BY <1>2
<1>4. ASSUME NEW b, \E rel \in new : Target(p, rel) = b
      PROVE  \E r \in Rel : Source(b) = Target(p, r)
  <2>1. (CHOOSE rel \in new : Target(p, rel) = b) \in new
    BY <1>4
  <2> QED BY <1>2, <1>4, <2>1
<1> HIDE DEF Source
<1>5. ASSUME NEW a \in Abs, \A rel \in Rel : Target(p, rel) # a, same[a] = {a}
      PROVE  same'[a] = {a}
  <2>1. Source(a) = a
    BY <1>2, <1>3, <1>5
  <2>2. \A c \in Abs : Source(c) = a <=> c = a
    BY <1>3, <1>4, <1>5, <2>1
  <2> QED BY <1>1, <1>5, <2>1, <2>2
<1>6. \A a \in Abs : (\A rel \in new : Target(p, rel) # a) => disk'[a] = disk[a]
  BY <1>1, <1>3
<1> QED BY <1>5, <1>6 DEF Confined

-----------------------------------------------------------------------------
(* What a step of p leaves to other processes, and to the database *)

\* A path recorded under a digest is recorded under a delta destination.
LEMMA KnownKey ==
  ASSUME IInv, DB!IndexesAgree, NEW k \in checksums
  PROVE  \E root \in DeltaRoot \cap Root, rel \in Rel :
            relPaths[root][rel] # NoDigest /\ k = <<relPaths[root][rel], Join(root, rel)>>
<1>1. PICK root \in Root : k \in DB!Facts(root)
  BY DEF DB!IndexesAgree
<1>2. PICK rel \in Rel :
         relPaths[root][rel] # NoDigest /\ k = <<relPaths[root][rel], Join(root, rel)>>
  BY <1>1 DEF DB!Facts
<1>3. root \in rootBkts
  BY <1>1 DEF DB!IndexesAgree
<1>4. PICK p \in Proc : job[p].delta /\ job[p].root = root
  BY <1>3 DEF IInv, Witnessed
<1>5. root \in DeltaRoot
  BY <1>4, JobTyped DEF IInv
<1> QED BY <1>2, <1>5

\* A process writes below its destination, and never over a recorded path.
LEMMA WritesApart ==
  ASSUME Apart, CacheInv, NEW p \in Proc, NEW S \in SUBSET Rel, Confined(p, S),
         job[p].delta => \A rel \in S : relPaths[job[p].root][rel] = NoDigest
  PROVE  /\ \A k \in checksums : disk'[k[2]] = disk[k[2]]
         /\ \A q \in Proc \ {p} : Active(q) /\ (job[p].delta => Active(p)) =>
              \A rel \in Rel : /\ disk'[Target(q, rel)] = disk[Target(q, rel)]
                               /\ same[Target(q, rel)] = {Target(q, rel)} =>
                                    same'[Target(q, rel)] = {Target(q, rel)}
<1>1. TypeOK /\ job[p].root \in Root
  BY JobTyped DEF CacheInv, IInv
<1>2. ASSUME NEW root \in Root, NEW rel \in Rel
      PROVE  /\ (root = job[p].root => rel \notin S) =>
                  disk'[Join(root, rel)] = disk[Join(root, rel)]
             /\ root # job[p].root /\ same[Join(root, rel)] = {Join(root, rel)} =>
                  same'[Join(root, rel)] = {Join(root, rel)}
  <2>1. \A r \in Rel : Target(p, r) = Join(root, rel) => root = job[p].root /\ r = rel
    BY <1>1 DEF Apart, DB!RootsDisjoint, Target
  <2>2. Join(root, rel) \in Abs
    BY JoinAssumption
  <2> QED BY <1>1, <2>1, <2>2 DEF Confined
<1>3. ASSUME NEW k \in checksums PROVE disk'[k[2]] = disk[k[2]]
  <2>1. PICK root \in DeltaRoot \cap Root, rel \in Rel :
           relPaths[root][rel] # NoDigest /\ k = <<relPaths[root][rel], Join(root, rel)>>
    BY KnownKey DEF CacheInv
  <2>2. root = job[p].root => rel \notin S
    <3>1. ~job[p].delta => root # job[p].root
      BY <1>1, JobTyped DEF Apart
    <3> QED BY <2>1, <3>1
  <2>3. disk'[Join(root, rel)] = disk[Join(root, rel)]
    BY <1>2, <2>2
  <2> QED BY <2>1, <2>3
<1>4. ASSUME NEW q \in Proc \ {p}, Active(q), job[p].delta => Active(p), NEW rel \in Rel
      PROVE  /\ disk'[Target(q, rel)] = disk[Target(q, rel)]
             /\ same[Target(q, rel)] = {Target(q, rel)} =>
                  same'[Target(q, rel)] = {Target(q, rel)}
  <2>1. ~job[p].delta
    BY <1>4, OneActive DEF CacheInv
  <2>2. job[q].root \in Root /\ job[q].root # job[p].root
    BY <1>1, <1>4, <2>1, JobTyped DEF Active, Apart
  <2> QED BY <1>2, <2>2 DEF Target
<1> QED BY <1>3, <1>4

\* A process past the check keeps its files when another one takes a step that
\* does not write over them, nor links to them.
LEMMA OthersPlaced ==
  ASSUME CacheInv, NEW p \in Proc, NEW q \in Proc \ {p}, Others(p),
         Active(q) => /\ checksums' = checksums
                      /\ \A rel \in Rel : /\ disk'[Target(q, rel)] = disk[Target(q, rel)]
                                          /\ same[Target(q, rel)] = {Target(q, rel)} =>
                                               same'[Target(q, rel)] = {Target(q, rel)}
  PROVE  Placed(q)'
<1>0. /\ Placed(q) /\ TypeOK
      /\ pc'[q] = pc[q] /\ job'[q] = job[q] /\ left'[q] = left[q]
      /\ seen'[q] = seen[q] /\ batch'[q] = batch[q] /\ hits'[q] = hits[q]
      /\ missing'[q] = missing[q] /\ current'[q] = current[q]
  BY DEF CacheInv, IInv, Others
<1>1. LoopsPlaced(q)'
  BY <1>0 DEF Placed, LoopsPlaced
<1>2. CASE Active(q)
  <2>1. \A rel \in Rel : /\ Target(q, rel)' = Target(q, rel)
                         /\ disk'[Target(q, rel)] = disk[Target(q, rel)]
    BY <1>0, <1>2 DEF Target
  <2>2. \A n : SeenAbove(q, n)' = SeenAbove(q, n)
    BY <1>0 DEF SeenAbove
  <2>3. seen[q] \subseteq Rel
    BY <1>0 DEF TypeOK
  <2>4. Unshared(q) => Unshared(q)'
    BY <1>2, <2>1 DEF Unshared
  <2>5. LayersPlaced(q) => LayersPlaced(q)'
    BY <1>0, <2>1, <2>2, <2>3, <2>4 DEF LayersPlaced
  <2>6. BatchPlaced(q) => BatchPlaced(q)'
    BY <1>0, <1>2, <2>1, <2>2, <2>3, <2>4 DEF BatchPlaced
  <2> QED BY <1>0, <1>1, <2>5, <2>6 DEF Placed
<1>3. CASE ~Active(q)
  BY <1>0, <1>1, <1>3 DEF Placed, Active, Holding
<1> QED BY <1>2, <1>3

\* One step of the extractor keeps the two indexes of the database equal.
LEMMA IndexesKept ==
  ASSUME Apart, IInv, DB!IndexesAgree, [Next]_vars
  PROVE  DB!IndexesAgree'
<1>1. FDP!RootsDisjoint /\ FDP!TypeOK /\ FDP!IndexesAgree
  BY DEF Apart, DB!RootsDisjoint, FDP!RootsDisjoint, IInv, TypeOK, DB!TypeOK, FDP!TypeOK,
         DB!Batch, FDP!Batch, DB!IndexesAgree, FDP!IndexesAgree, DB!Facts, FDP!Facts
<1>2. FDP!ExtractorNext \/ UNCHANGED FDP!vars
  BY StepUsesDB, SameSteps
<1>3. CASE FDP!ExtractorNext
  <2>1. FDP!IndexesAgree'
    BY <1>1, <1>3, JoinAssumption, NoDigestAssumption, FDP!StepIndexesAgree
  <2> QED BY <2>1 DEF DB!IndexesAgree, FDP!IndexesAgree, DB!Facts, FDP!Facts
<1>4. CASE UNCHANGED FDP!vars
  BY <1>4 DEF DB!IndexesAgree, DB!Facts, FDP!vars
<1> QED BY <1>2, <1>3, <1>4

-----------------------------------------------------------------------------
(* One lemma per action *)

\* Steps that touch neither files nor records, and after which the process has
\* nothing on disk to answer for: it has not begun, or it has ended or failed.
LEMMA IdleStep ==
  ASSUME CacheInv, NEW p \in Proc, Others(p), UNCHANGED <<db, files>>,
         pc'[p] \in {"idle", "open", "layer"} => current'[p] = {},
         pc'[p] \notin {"fetch", "copy"}, job'[p].delta => pc'[p] # "layer"
  PROVE  CacheSound' /\ \A q \in Proc : Placed(q)'
<1>1. checksums' = checksums /\ disk' = disk /\ same' = same
  BY DEF db, files
<1>2. CacheSound'
  BY <1>1 DEF CacheInv, CacheSound
<1>3. Placed(p)'
  BY DEF Placed, LoopsPlaced
<1>4. \A q \in Proc \ {p} : Placed(q)'
  BY <1>1, OthersPlaced
<1> QED BY <1>2, <1>3, <1>4

\* Starting and being killed change no file and no record.
LEMMA StartPlaced ==
  ASSUME CacheInv, NEW p \in Proc, Start(p) \/ Crash(p)
  PROVE  CacheSound' /\ \A q \in Proc : Placed(q)'
<1>0. TypeOK /\ Placed(p)
  BY DEF CacheInv, IInv
<1>1. CASE Start(p)
  <2>1. PICK j \in Job :
          /\ job' = [job EXCEPT ![p] = j] /\ left' = [left EXCEPT ![p] = Len(j.image)]
          /\ Goto(p, IF j.delta THEN "open" ELSE "layer") \/ Goto(p, "failed")
    BY <1>1 DEF Start
  <2>2. UNCHANGED <<db, files, seen, todo, kept>> /\ current[p] = {}
    BY <1>0, <1>1 DEF Start, Placed, LoopsPlaced
  <2>3. Others(p) /\ pc'[p] \notin {"fetch", "copy"} /\ (job'[p].delta => pc'[p] # "layer")
    BY <1>0, <2>1, <2>2 DEF Others, TypeOK, Goto, todo
  <2> QED BY <2>2, <2>3, IdleStep DEF todo
<1>2. CASE Crash(p)
  <2>1. UNCHANGED <<db, files, job, left, seen, todo, kept>> /\ Goto(p, "crashed")
    BY <1>2 DEF Crash
  <2>2. Others(p) /\ pc'[p] = "crashed"
    BY <1>0, <2>1 DEF Others, TypeOK, Goto, todo
  <2> QED BY <2>1, <2>2, IdleStep
<1> QED BY <1>1, <1>2

\* A process that has seen nothing has no file to answer for, and shares none
\* with another path if it goes on.
LEMMA OpenPlaced ==
  ASSUME CacheInv, NEW p \in Proc, Open(p), CleanStep
  PROVE  CacheSound' /\ \A q \in Proc : Placed(q)'
<1>0. /\ TypeOK /\ seen[p] = {} /\ left[p] = Len(job[p].image) /\ Len(job[p].image) \in Nat
      /\ Placed(p) /\ pc[p] = "open"
  BY JobTyped, ImageTyped DEF CacheInv, IInv, Progress, Open
<1>1. /\ Goto(p, Opened(p))
      /\ UNCHANGED <<db, files, job, left, seen, todo, kept>>
  BY DEF Open
<1>2. Others(p) /\ pc'[p] \in {"refused", "layer"}
  BY <1>0, <1>1 DEF Others, TypeOK, Goto, Opened, todo
<1>3. checksums' = checksums /\ disk' = disk /\ same' = same
  BY <1>1 DEF db, files
<1>4. CacheSound'
  BY <1>3 DEF CacheInv, CacheSound
<1>5. \A q \in Proc \ {p} : Placed(q)'
  BY <1>2, <1>3, OthersPlaced
<1>6. current'[p] = {}
  BY <1>0, <1>1 DEF Placed, LoopsPlaced, todo
<1>7. left'[p] = Len(job'[p].image) /\ seen'[p] = {}
  BY <1>0, <1>1
<1>8. SeenAbove(p, left[p])' = {}
  <2>1. SeenAbove(p, Len(job[p].image))' = {}
    BY <1>0, <1>1 DEF SeenAbove
  <2> QED BY <1>7, <2>1
<1>9. pc'[p] = "layer" => Unshared(p)'
  BY <1>0, <1>1, <1>3 DEF CleanStep, Unshared, Target
<1>10. Placed(p)'
  BY <1>2, <1>6, <1>7, <1>8, <1>9 DEF Placed, LoopsPlaced, LayersPlaced
<1> QED BY <1>4, <1>5, <1>10

\* A layer applied whole leaves the image's files at the paths it is first to give.
LEMMA ApplyLayerPlaced ==
  ASSUME Apart, CacheInv, NEW p \in Proc, ApplyLayer(p)
  PROVE  CacheSound' /\ \A q \in Proc : Placed(q)'
<1>0. /\ TypeOK /\ Placed(p) /\ pc[p] = "layer" /\ left[p] \in 1 .. Len(job[p].image)
      /\ Records(p)
  BY JobTyped, ImageTyped DEF CacheInv, IInv, Progress, ApplyLayer
<1>1. PICK got \in SUBSET Fresh(p) : \E content :
        /\ DOMAIN content = got /\ Create(p, content)
        /\ \/ /\ \A rel \in got : content[rel] = Layer(p).files[rel]
              /\ NextLayer(p, got = Fresh(p))
           \/ NextLayer(p, FALSE)
  <2>1. PICK got \in SUBSET Fresh(p) :
          \/ /\ Create(p, [rel \in got |-> Layer(p).files[rel]])
             /\ NextLayer(p, got = Fresh(p))
          \/ /\ \E cut \in got : Create(p, [rel \in got |-> IF rel = cut THEN Torn
                                                              ELSE Layer(p).files[rel]])
             /\ NextLayer(p, FALSE)
    BY DEF ApplyLayer
  <2>2. CASE /\ Create(p, [rel \in got |-> Layer(p).files[rel]])
             /\ NextLayer(p, got = Fresh(p))
    <3> DEFINE c == [rel \in got |-> Layer(p).files[rel]]
    <3>1. DOMAIN c = got /\ \A rel \in got : c[rel] = Layer(p).files[rel]
      OBVIOUS
    <3>2. Create(p, c)
      BY <2>2
    <3> HIDE DEF c
    <3> QED BY <2>2, <3>1, <3>2
  <2>3. CASE /\ \E cut \in got : Create(p, [rel \in got |-> IF rel = cut THEN Torn
                                                              ELSE Layer(p).files[rel]])
             /\ NextLayer(p, FALSE)
    <3>1. PICK cut \in got : Create(p, [rel \in got |-> IF rel = cut THEN Torn
                                                         ELSE Layer(p).files[rel]])
      BY <2>3
    <3> DEFINE c == [rel \in got |-> IF rel = cut THEN Torn ELSE Layer(p).files[rel]]
    <3>2. DOMAIN c = got /\ Create(p, c)
      BY <3>1
    <3> HIDE DEF c
    <3> QED BY <2>3, <3>2
  <2> QED BY <2>1, <2>2, <2>3
<1>2. PICK content :
        /\ DOMAIN content = got /\ Create(p, content)
        /\ \/ /\ \A rel \in got : content[rel] = Layer(p).files[rel]
              /\ NextLayer(p, got = Fresh(p))
           \/ NextLayer(p, FALSE)
  BY <1>1
<1>3. /\ seen' = [seen EXCEPT ![p] = @ \cup Fresh(p)]
      /\ UNCHANGED <<db, holder, job, todo, kept>>
  BY DEF ApplyLayer
<1>4. got \in SUBSET Rel /\ got \cap seen[p] = {}
  BY DEF Fresh
<1>5. job[p].delta => \A rel \in got : relPaths[job[p].root][rel] = NoDigest
  BY <1>0, <1>4 DEF Records, Active, Holding
<1>6. /\ Confined(p, got) /\ StillUnshared(p)
      /\ \A rel \in got : disk'[Target(p, rel)] = content[rel]
      /\ \A rel \in Rel \ got : disk'[Target(p, rel)] = disk[Target(p, rel)]
  <2>1. /\ Confined(p, got) /\ StillUnshared(p)
        /\ \A rel \in got : disk'[Target(p, rel)] = content[rel]
    <3>1. DOMAIN content = got /\ Create(p, content)
      BY <1>2
    <3> QED BY <1>0, <1>4, <3>1, CreateAt
  <2> QED BY <1>0, <1>4, <2>1, OwnKept
<1>7. /\ \A q \in Proc \ {p} : pc'[q] = pc[q] /\ left'[q] = left[q]
      /\ \/ /\ pc'[p] = "layer" /\ left'[p] = left[p] - 1 /\ got = Fresh(p)
            /\ \A rel \in got : content[rel] = Layer(p).files[rel]
         \/ pc'[p] = "failing"
  BY <1>0, <1>2, NextLayerEffect
<1>8. Others(p)
  BY <1>0, <1>3, <1>7 DEF Others, TypeOK, todo
<1>9. checksums' = checksums /\ current'[p] = {}
  BY <1>0, <1>3 DEF db, todo, Placed, LoopsPlaced
<1>10. job[p].delta => Active(p)
  BY <1>0 DEF Active, Holding
<1>11. CacheSound' /\ \A q \in Proc \ {p} : Placed(q)'
  BY <1>4, <1>5, <1>6, <1>8, <1>9, <1>10, WritesApart, OthersPlaced DEF CacheInv, CacheSound
<1>12. ASSUME job[p].delta, pc'[p] = "layer" PROVE LayersPlaced(p)'
  <2>1. /\ got = Fresh(p) /\ left'[p] = left[p] - 1
        /\ \A rel \in got : content[rel] = Layer(p).files[rel]
    BY <1>7, <1>12
  <2>2. /\ seen[p] = SeenAbove(p, left[p]) /\ Unshared(p)
        /\ \A rel \in seen[p] : disk[Target(p, rel)] = Flattened(job[p].image, rel)
    BY <1>0, <1>12 DEF Placed, LayersPlaced
  <2>3. /\ SeenAbove(p, left[p] - 1) = seen[p] \cup Fresh(p)
        /\ \A rel \in Fresh(p) : Flattened(job[p].image, rel) = Layer(p).files[rel]
    BY <1>0, <2>2, FreshIsTop
  <2>4. seen'[p] = seen[p] \cup Fresh(p) /\ job'[p] = job[p] /\ seen[p] \subseteq Rel
    BY <1>0, <1>3 DEF TypeOK
  <2>5. SeenAbove(p, left[p])' = SeenAbove(p, left[p] - 1)
    BY <2>1, <2>4 DEF SeenAbove
  <2>6. \A rel \in seen[p] \cup Fresh(p) :
           disk'[Target(p, rel)] = Flattened(job[p].image, rel)
    BY <1>4, <1>6, <2>1, <2>2, <2>3, <2>4
  <2>7. \A rel \in seen'[p] : disk'[Target(p, rel)'] = Flattened(job'[p].image, rel)
    BY <2>4, <2>6 DEF Target
  <2>8. Unshared(p)'
    BY <1>6, <2>2, <2>4 DEF Unshared, StillUnshared, Target
  <2> QED BY <2>3, <2>4, <2>5, <2>7, <2>8 DEF LayersPlaced, Flattened
<1>13. Placed(p)'
  BY <1>3, <1>7, <1>9, <1>12 DEF Placed, LoopsPlaced
<1> QED BY <1>11, <1>13

\* The planned files are the image's, and their cached paths are in the database.
LEMMA ProcessTOCPlaced ==
  ASSUME CacheInv, NEW p \in Proc, ProcessTOC(p)
  PROVE  CacheSound' /\ \A q \in Proc : Placed(q)'
<1>0. /\ TypeOK /\ Placed(p) /\ job[p].delta /\ pc[p] = "layer"
      /\ left[p] \in 1 .. Len(job[p].image)
  BY JobTyped, ImageTyped DEF CacheInv, IInv, Progress, ProcessTOC
<1> DEFINE Cached(rel) == DB!PathsForChecksum(Layer(p).files[rel])
<1>1. /\ seen' = [seen EXCEPT ![p] = @ \cup Fresh(p)]
      /\ batch' = [batch EXCEPT ![p] = Planned(p)]
      /\ hits' = [hits EXCEPT ![p] = [rel \in Rel |-> IF rel \in Fresh(p) THEN Cached(rel) ELSE {}]]
      /\ missing' = [missing EXCEPT ![p] = {rel \in Fresh(p) : Cached(rel) = {}}]
      /\ Goto(p, "fetch") \/ Goto(p, "failing")
      /\ UNCHANGED <<db, holder, files, job, left, current, kept>>
  BY DEF ProcessTOC
<1>2. Others(p) /\ pc'[p] \in {"fetch", "failing"}
  BY <1>0, <1>1 DEF Others, TypeOK, Goto
<1>3. checksums' = checksums /\ disk' = disk /\ same' = same
  BY <1>1 DEF db, files
<1>4. CacheSound'
  BY <1>3 DEF CacheInv, CacheSound
<1>5. \A q \in Proc \ {p} : Placed(q)'
  BY <1>2, <1>3, OthersPlaced
<1>6. /\ seen[p] = SeenAbove(p, left[p]) /\ Unshared(p) /\ current[p] = {}
      /\ \A rel \in seen[p] : disk[Target(p, rel)] = Flattened(job[p].image, rel)
  BY <1>0 DEF Placed, LayersPlaced, LoopsPlaced
<1>7. /\ SeenAbove(p, left[p] - 1) = seen[p] \cup Fresh(p)
      /\ \A rel \in Fresh(p) : Flattened(job[p].image, rel) = Layer(p).files[rel]
  BY <1>0, <1>6, FreshIsTop
<1>8. /\ Fresh(p) \subseteq Rel \ seen[p] /\ seen[p] \subseteq Rel
      /\ \A rel \in Fresh(p) : Layer(p).files[rel] # NoDigest
  BY <1>0 DEF Fresh, TypeOK
<1>9. /\ job'[p] = job[p] /\ left'[p] = left[p] /\ current'[p] = {}
      /\ seen'[p] = seen[p] \cup Fresh(p)
      /\ \A rel \in Rel : batch'[p][rel] =
           IF rel \in Fresh(p) THEN Layer(p).files[rel] ELSE NoDigest
      /\ \A rel \in Rel : hits'[p][rel] = IF rel \in Fresh(p) THEN Cached(rel) ELSE {}
      /\ missing'[p] = {rel \in Fresh(p) : Cached(rel) = {}}
  BY <1>0, <1>1, <1>6 DEF TypeOK, Planned
<1>10. seen'[p] = SeenAbove(p, left[p] - 1)'
  BY <1>7, <1>9 DEF SeenAbove
<1>11. \A rel \in seen'[p] :
          IF batch'[p][rel] = NoDigest
            THEN disk'[Target(p, rel)'] = Flattened(job'[p].image, rel)
            ELSE batch'[p][rel] = Flattened(job'[p].image, rel)
  BY <1>3, <1>6, <1>7, <1>8, <1>9 DEF Target
<1>12. \A rel \in Rel : \A a \in hits'[p][rel] : <<batch'[p][rel], a>> \in checksums'
  BY <1>3, <1>9 DEF DB!PathsForChecksum
<1>13. Unshared(p)'
  BY <1>1, <1>3, <1>6 DEF Unshared, Target
<1>14. \A rel \in Rel : batch'[p][rel] # NoDigest /\ hits'[p][rel] = {} => rel \in missing'[p]
  BY <1>9
<1>15. BatchPlaced(p)'
  BY <1>10, <1>11, <1>12, <1>13, <1>14 DEF BatchPlaced, Flattened
<1>16. LoopsPlaced(p)'
  BY <1>2, <1>8, <1>9 DEF LoopsPlaced
<1>17. Placed(p)'
  BY <1>2, <1>15, <1>16 DEF Placed
<1> QED BY <1>4, <1>5, <1>17

\* Writing one file of the batch does not disturb the others, nor what other
\* processes have; if that file is then as it should be, so is the batch.
LEMMA PlacingPlaced ==
  ASSUME Apart, CacheInv, NEW p \in Proc, pc[p] \in {"fetch", "copy"}, Others(p),
         NEW rel \in Rel, batch[p][rel] # NoDigest, Confined(p, {rel}), StillUnshared(p),
         UNCHANGED <<db, job, left, seen, batch>>
  PROVE  /\ CacheSound' /\ \A q \in Proc \ {p} : Placed(q)'
         /\ /\ \A r \in Rel : hits'[p][r] \subseteq hits[p][r]
            /\ \A r \in Rel \ {rel} : /\ hits'[p][r] = hits[p][r]
                                      /\ r \in missing[p] => r \in missing'[p]
            /\ rel \notin missing'[p] /\ hits'[p][rel] = {} =>
                 disk'[Target(p, rel)] = batch[p][rel]
            => BatchPlaced(p)'
<1>0. TypeOK /\ BatchPlaced(p) /\ Records(p) /\ job[p].delta /\ Active(p)
  BY DEF CacheInv, IInv, Progress, Placed, Active, Holding
<1>1. \A r \in {rel} : relPaths[job[p].root][r] = NoDigest
  BY <1>0 DEF Records
<1>2. checksums' = checksums
  BY DEF db
<1>3. {rel} \in SUBSET Rel
  OBVIOUS
<1>4. CacheSound' /\ \A q \in Proc \ {p} : Placed(q)'
  BY <1>0, <1>1, <1>2, <1>3, WritesApart, OthersPlaced DEF CacheInv, CacheSound
<1>5. \A r \in Rel \ {rel} : disk'[Target(p, r)] = disk[Target(p, r)]
  BY <1>0, <1>3, OwnKept
<1>6. ASSUME \A r \in Rel : hits'[p][r] \subseteq hits[p][r],
             \A r \in Rel \ {rel} : /\ hits'[p][r] = hits[p][r]
                                    /\ r \in missing[p] => r \in missing'[p],
             rel \notin missing'[p] /\ hits'[p][rel] = {} =>
               disk'[Target(p, rel)] = batch[p][rel]
      PROVE  BatchPlaced(p)'
  <2>1. \A r : Target(p, r)' = Target(p, r)
    BY DEF Target
  <2>2. Unshared(p)'
    BY <1>0, <2>1 DEF Unshared, StillUnshared, BatchPlaced
  <2>3. seen'[p] = SeenAbove(p, left[p] - 1)' /\ seen[p] \subseteq Rel
    BY <1>0 DEF SeenAbove, BatchPlaced, TypeOK
  <2>4. \A r \in seen'[p] :
           IF batch'[p][r] = NoDigest
             THEN disk'[Target(p, r)'] = Flattened(job'[p].image, r)
             ELSE batch'[p][r] = Flattened(job'[p].image, r)
    BY <1>0, <1>5, <2>1, <2>3 DEF BatchPlaced
  <2>5. \A r \in Rel : \A a \in hits'[p][r] : <<batch'[p][r], a>> \in checksums'
    BY <1>0, <1>2, <1>6 DEF BatchPlaced
  <2>6. \A r \in Rel : batch'[p][r] # NoDigest /\ r \notin missing'[p] /\ hits'[p][r] = {} =>
                         disk'[Target(p, r)'] = batch'[p][r]
    BY <1>0, <1>5, <1>6, <2>1 DEF BatchPlaced
  <2> QED BY <2>2, <2>3, <2>4, <2>5, <2>6 DEF BatchPlaced
<1> QED BY <1>4, <1>6

\* A fetched file is on disk, and the file at hand for its duplicates.
LEMMA FetchMissingPlaced ==
  ASSUME Apart, CacheInv, NEW p \in Proc, FetchMissing(p)
  PROVE  CacheSound' /\ \A q \in Proc : Placed(q)'
<1>0. /\ TypeOK /\ LoopsPlaced(p) /\ pc[p] = "fetch" /\ missing[p] \subseteq Rel
      /\ \A rel \in missing[p] : batch[p][rel] # NoDigest
  BY DEF CacheInv, IInv, Progress, FetchMissing, Placed, TypeOK
<1>1. PICK rel \in missing[p] :
        /\ \/ Create(p, [r \in {rel} |-> batch[p][rel]]) /\ UNCHANGED pc
           \/ /\ UNCHANGED files \/ Create(p, [r \in {rel} |-> Torn])
              /\ Goto(p, "failing")
        /\ missing' = [missing EXCEPT ![p] = @ \ {rel}]
        /\ current' = [current EXCEPT ![p] = {rel}]
  BY DEF FetchMissing
<1>2. UNCHANGED <<db, holder, job, left, seen, batch, hits, kept>>
  BY DEF FetchMissing
<1>3. rel \in Rel /\ batch[p][rel] # NoDigest /\ hits[p][rel] = {}
  BY <1>0 DEF LoopsPlaced
<1>4. ASSUME NEW c, Create(p, [r \in {rel} |-> c])
      PROVE  Confined(p, {rel}) /\ StillUnshared(p) /\ disk'[Target(p, rel)] = c
  <2> DEFINE content == [r \in {rel} |-> c]
  <2>1. DOMAIN content = {rel} /\ content[rel] = c /\ Create(p, content)
    BY <1>4
  <2>2. {rel} \in SUBSET Rel
    BY <1>3
  <2> HIDE DEF content
  <2> QED BY <1>0, <2>1, <2>2, CreateAt
<1>5. Confined(p, {rel}) /\ StillUnshared(p)
  <2>1. UNCHANGED files => Confined(p, {rel}) /\ StillUnshared(p)
    BY DEF files, Confined, StillUnshared
  <2> QED BY <1>1, <1>4, <2>1
<1>6. Others(p) /\ (pc'[p] = "failing" \/ (pc'[p] = "fetch" /\ disk'[Target(p, rel)] = batch[p][rel]))
  <2>1. pc'[p] = "failing" \/ (pc' = pc /\ disk'[Target(p, rel)] = batch[p][rel])
    BY <1>0, <1>1, <1>4 DEF Goto, TypeOK
  <2>2. Others(p)
    BY <1>0, <1>1, <1>2 DEF Others, TypeOK, Goto
  <2> QED BY <1>0, <2>1, <2>2
<1>7. missing'[p] = missing[p] \ {rel} /\ current'[p] = {rel} /\ hits' = hits
  BY <1>0, <1>1, <1>2 DEF TypeOK
<1>8. /\ CacheSound' /\ \A q \in Proc \ {p} : Placed(q)'
      /\ disk'[Target(p, rel)] = batch[p][rel] => BatchPlaced(p)'
  BY <1>0, <1>2, <1>3, <1>5, <1>6, <1>7, PlacingPlaced
<1>9. LoopsPlaced(p)'
  BY <1>0, <1>2, <1>3, <1>6, <1>7 DEF LoopsPlaced
<1>10. Placed(p)'
  BY <1>6, <1>8, <1>9 DEF Placed
<1> QED BY <1>8, <1>10

\* A duplicate is copied from a file that is on disk.
LEMMA CopyDuplicatePlaced ==
  ASSUME Apart, CacheInv, NEW p \in Proc, CopyDuplicate(p)
  PROVE  CacheSound' /\ \A q \in Proc : Placed(q)'
<1>0. /\ TypeOK /\ LoopsPlaced(p) /\ BatchPlaced(p) /\ pc[p] = "fetch"
      /\ missing[p] \subseteq Rel /\ current[p] \subseteq Rel
      /\ \A rel \in missing[p] : batch[p][rel] # NoDigest
  BY DEF CacheInv, IInv, Progress, CopyDuplicate, Placed, TypeOK
<1>1. PICK first \in current[p], rel \in missing[p] :
        /\ batch[p][rel] = batch[p][first]
        /\ \/ Copy(Target(p, first), Target(p, rel)) /\ UNCHANGED pc
           \/ CopyFails(Target(p, first), Target(p, rel)) /\ Goto(p, "failing")
        /\ missing' = [missing EXCEPT ![p] = @ \ {rel}]
  BY DEF CopyDuplicate
<1>2. UNCHANGED <<db, holder, job, left, seen, batch, hits, current, kept>>
  BY DEF CopyDuplicate
<1>3. /\ rel \in Rel /\ first \in Rel /\ rel # first
      /\ batch[p][rel] # NoDigest /\ hits[p][rel] = {}
      /\ disk[Target(p, first)] = batch[p][rel]
  BY <1>0, <1>1 DEF LoopsPlaced, BatchPlaced
<1>4. /\ Target(p, first) \in Abs /\ Target(p, first) # Target(p, rel)
      /\ same[Target(p, rel)] = {Target(p, rel)}
  BY <1>0, <1>3, TargetsDiffer DEF BatchPlaced, Unshared
<1>5. /\ Confined(p, {rel}) /\ StillUnshared(p)
      /\ Copy(Target(p, first), Target(p, rel)) => disk'[Target(p, rel)] = batch[p][rel]
  BY <1>0, <1>1, <1>3, <1>4, CopyAt
<1>6. Others(p) /\ (pc'[p] = "failing" \/ (pc'[p] = "fetch" /\ disk'[Target(p, rel)] = batch[p][rel]))
  BY <1>0, <1>1, <1>2, <1>5 DEF Others, TypeOK, Goto
<1>7. missing'[p] = missing[p] \ {rel} /\ hits' = hits /\ current' = current
  BY <1>0, <1>1, <1>2 DEF TypeOK
<1>8. /\ CacheSound' /\ \A q \in Proc \ {p} : Placed(q)'
      /\ disk'[Target(p, rel)] = batch[p][rel] => BatchPlaced(p)'
  BY <1>0, <1>2, <1>3, <1>5, <1>6, <1>7, PlacingPlaced
<1>9. LoopsPlaced(p)'
  BY <1>0, <1>2, <1>6, <1>7 DEF LoopsPlaced
<1>10. Placed(p)'
  BY <1>6, <1>8, <1>9 DEF Placed
<1> QED BY <1>8, <1>10

\* All missing files are on disk.
LEMMA EndFetchPlaced ==
  ASSUME CacheInv, NEW p \in Proc, EndFetch(p)
  PROVE  CacheSound' /\ \A q \in Proc : Placed(q)'
<1>0. TypeOK /\ BatchPlaced(p) /\ pc[p] = "fetch" /\ missing[p] = {}
  BY DEF CacheInv, IInv, Progress, EndFetch, Placed
<1>1. /\ pc' = [pc EXCEPT ![p] = "copy"] /\ current' = [current EXCEPT ![p] = {}]
      /\ UNCHANGED <<db, holder, files, job, left, seen, batch, missing, hits, kept>>
  BY DEF EndFetch, Goto
<1>2. Others(p) /\ pc'[p] = "copy" /\ current'[p] = {}
  BY <1>0, <1>1 DEF Others, TypeOK
<1>3. checksums' = checksums /\ disk' = disk /\ same' = same
  BY <1>1 DEF db, files
<1>4. CacheSound' /\ \A q \in Proc \ {p} : Placed(q)'
  BY <1>2, <1>3, OthersPlaced DEF CacheInv, CacheSound
<1>5. BatchPlaced(p)'
  <2>1. \A r : Target(p, r)' = Target(p, r)
    BY <1>1 DEF Target
  <2>2. SeenAbove(p, left[p] - 1)' = SeenAbove(p, left[p] - 1)
    BY <1>1 DEF SeenAbove
  <2> QED BY <1>0, <1>1, <1>3, <2>1, <2>2 DEF BatchPlaced, Unshared
<1>6. LoopsPlaced(p)'
  BY <1>0, <1>1, <1>2 DEF LoopsPlaced
<1> QED BY <1>2, <1>4, <1>5, <1>6 DEF Placed

\* The paths of a file that no other extraction recorded are not its cached ones.
LEMMA CachedElsewhere ==
  ASSUME Apart, CacheInv, NEW p \in Proc, NEW rel \in Rel, NEW k \in checksums,
         relPaths[job[p].root][rel] = NoDigest
  PROVE  k[2] # Target(p, rel)
<1>1. PICK root \in DeltaRoot \cap Root, r \in Rel :
         relPaths[root][r] # NoDigest /\ k = <<relPaths[root][r], Join(root, r)>>
  BY KnownKey DEF CacheInv
<1>2. job[p].root \in Root
  BY JobTyped DEF CacheInv, IInv
<1> QED BY <1>1, <1>2 DEF Apart, DB!RootsDisjoint, Target

\* A readable cached path holds the digest it is recorded under, so does its
\* copy; and the last copy is the one that counts.
LEMMA CopyCachedPlaced ==
  ASSUME Apart, CacheInv, NEW p \in Proc, CopyCached(p)
  PROVE  CacheSound' /\ \A q \in Proc : Placed(q)'
<1>0. /\ TypeOK /\ LoopsPlaced(p) /\ BatchPlaced(p) /\ Records(p) /\ pc[p] = "copy" /\ Active(p)
  BY DEF CacheInv, IInv, Progress, CopyCached, Placed, Active, Holding
<1>1. PICK rel \in Rel : \E a \in hits[p][rel] :
        LET last == hits[p][rel] = {a}
        IN /\ \/ Copy(a, Target(p, rel)) /\ UNCHANGED pc
              \/ /\ CopyFails(a, Target(p, rel))
                 /\ IF last THEN GiveUp(p, a) ELSE UNCHANGED pc
           /\ hits' = [hits EXCEPT ![p][rel] = @ \ {a}]
           /\ current' = [current EXCEPT ![p] = IF last THEN {} ELSE {rel}]
  BY DEF CopyCached
<1>2. PICK a \in hits[p][rel] :
        LET last == hits[p][rel] = {a}
        IN /\ \/ Copy(a, Target(p, rel)) /\ UNCHANGED pc
              \/ /\ CopyFails(a, Target(p, rel))
                 /\ IF last THEN GiveUp(p, a) ELSE UNCHANGED pc
           /\ hits' = [hits EXCEPT ![p][rel] = @ \ {a}]
           /\ current' = [current EXCEPT ![p] = IF last THEN {} ELSE {rel}]
  BY <1>1
<1>3. UNCHANGED <<db, holder, job, left, seen, batch, missing, kept>>
  BY DEF CopyCached
<1>4. <<batch[p][rel], a>> \in checksums /\ a \in Abs /\ batch[p][rel] # NoDigest
  <2>1. <<batch[p][rel], a>> \in checksums
    BY <1>0 DEF BatchPlaced
  <2>2. checksums \subseteq Digest \X Abs
    BY <1>0 DEF TypeOK, DB!TypeOK
  <2> QED BY <2>1, <2>2, NoDigestAssumption
<1>5. disk[a] \in {batch[p][rel], NoFile} /\ a # Target(p, rel)
  <2>1. relPaths[job[p].root][rel] = NoDigest
    BY <1>0, <1>4 DEF Records
  <2>2. \A k \in checksums : k[2] # Target(p, rel) /\ disk[k[2]] \in {k[1], NoFile}
    BY <2>1, CachedElsewhere DEF CacheInv, CacheSound
  <2> QED BY <1>4, <2>2
<1>6. /\ Confined(p, {rel}) /\ StillUnshared(p)
      /\ Copy(a, Target(p, rel)) => disk'[Target(p, rel)] = batch[p][rel]
  <2>1. same[Target(p, rel)] = {Target(p, rel)}
    BY <1>0 DEF BatchPlaced, Unshared
  <2> QED BY <1>0, <1>2, <1>4, <1>5, <2>1, CopyAt
<1>7. /\ \A r \in Rel \ {rel} : hits'[p][r] = hits[p][r]
      /\ hits'[p][rel] = hits[p][rel] \ {a}
      /\ \A q \in Proc \ {p} : hits'[q] = hits[q]
  <2> DEFINE h == [hits[p] EXCEPT ![rel] = @ \ {a}]
  <2>1. hits' = [hits EXCEPT ![p] = h]
    BY <1>2
  <2>2. hits \in [Proc -> [Rel -> SUBSET Abs]]
    BY <1>0 DEF TypeOK
  <2>3. hits'[p] = h /\ \A q \in Proc \ {p} : hits'[q] = hits[q]
    BY <2>1, <2>2
  <2> QED BY <2>2, <2>3
<1>8. /\ \A q \in Proc \ {p} : pc'[q] = pc[q] /\ current'[q] = current[q]
      /\ pc'[p] \in {"copy", "stale", "failing"}
      /\ pc'[p] = "copy" /\ hits[p][rel] = {a} => Copy(a, Target(p, rel))
      /\ current'[p] = IF hits[p][rel] = {a} THEN {} ELSE {rel}
  BY <1>0, <1>2 DEF TypeOK, GiveUp, Goto
<1>9. Others(p)
  BY <1>3, <1>7, <1>8 DEF Others
<1>10. /\ CacheSound' /\ \A q \in Proc \ {p} : Placed(q)'
       /\ (hits[p][rel] = {a} => Copy(a, Target(p, rel))) => BatchPlaced(p)'
  <2>1. hits'[p][rel] = {} => hits[p][rel] = {a}
    BY <1>7
  <2>2. \A r \in Rel : hits'[p][r] \subseteq hits[p][r]
    BY <1>7
  <2>3. missing' = missing
    BY <1>3
  <2> QED BY <1>0, <1>3, <1>4, <1>6, <1>7, <1>9, <2>1, <2>2, <2>3, PlacingPlaced
<1>11. pc'[p] = "copy" => BatchPlaced(p)'
  BY <1>8, <1>10
<1>12. LoopsPlaced(p)'
  BY <1>0, <1>3, <1>7, <1>8 DEF LoopsPlaced
<1>13. Placed(p)'
  BY <1>8, <1>11, <1>12 DEF Placed
<1> QED BY <1>10, <1>13

\* What is recorded is on disk: no file of the batch is left to be copied.
LEMMA RecordPlaced ==
  ASSUME Apart, CacheInv, NEW p \in Proc, Record(p)
  PROVE  CacheSound' /\ \A q \in Proc : Placed(q)'
<1>0. /\ TypeOK /\ BatchPlaced(p) /\ LoopsPlaced(p) /\ pc[p] = "copy" /\ hits[p] = NoHits
      /\ Active(p) /\ left[p] \in 1 .. Len(job[p].image)
  BY DEF CacheInv, IInv, Progress, Record, Placed, Active, Holding
<1>1. UNCHANGED <<holder, files, job, seen, todo>>
  BY DEF Record
<1>2. /\ current[p] = {} /\ missing[p] = {} /\ seen[p] \subseteq Rel
      /\ \A rel \in Rel : batch[p][rel] # NoDigest => disk[Target(p, rel)] = batch[p][rel]
      /\ \A rel \in seen[p] : disk[Target(p, rel)] = Flattened(job[p].image, rel)
  BY <1>0 DEF LoopsPlaced, BatchPlaced, NoHits, TypeOK
<1>3. CASE /\ DB!RecordAll(job[p].root, batch[p]) /\ NextLayer(p, TRUE)
           /\ \A q \in Proc \ {p} : kept'[q] = kept[q]
  <2>1. /\ \A q \in Proc \ {p} : pc'[q] = pc[q] /\ left'[q] = left[q]
        /\ \/ pc'[p] = "layer" /\ left'[p] = left[p] - 1
           \/ pc'[p] = "failing"
    BY <1>0, <1>3, NextLayerEffect
  <2>2. Others(p)
    BY <1>1, <1>3, <2>1 DEF Others, todo
  <2>3. \A q \in Proc \ {p} : ~Active(q)
    BY <1>0, OneActive DEF CacheInv
  <2>4. \A q \in Proc \ {p} : Placed(q)'
    BY <2>2, <2>3, OthersPlaced
  <2>5. checksums' = checksums \cup DB!NewKeys(job[p].root, batch[p])
    BY <1>3 DEF DB!RecordAll
  <2>6. \A k \in DB!NewKeys(job[p].root, batch[p]) : disk[k[2]] = k[1]
    BY <1>2 DEF DB!NewKeys, Target
  <2>7. CacheSound'
    BY <1>1, <2>5, <2>6 DEF CacheInv, CacheSound, files
  <2>8. ASSUME pc'[p] = "layer" PROVE LayersPlaced(p)'
    <3>1. left'[p] = left[p] - 1 /\ seen' = seen /\ job' = job /\ disk' = disk /\ same' = same
      BY <1>1, <2>1, <2>8 DEF files
    <3>2. seen'[p] = SeenAbove(p, left[p])'
      BY <1>0, <3>1 DEF SeenAbove, BatchPlaced
    <3>3. \A rel \in Rel : Target(p, rel)' = Target(p, rel)
      BY <3>1 DEF Target
    <3>4. \A rel \in seen'[p] : disk'[Target(p, rel)'] = Flattened(job'[p].image, rel)
      BY <1>2, <3>1, <3>3
    <3>5. Unshared(p)'
      BY <1>0, <3>1, <3>3 DEF Unshared, BatchPlaced
    <3> QED BY <3>2, <3>4, <3>5 DEF LayersPlaced
  <2>9. Placed(p)'
    BY <1>1, <1>2, <2>1, <2>8 DEF Placed, LoopsPlaced, todo
  <2> QED BY <2>4, <2>7, <2>9
<1>4. CASE Goto(p, "failing") /\ UNCHANGED <<db, left, kept>>
  <2>1. Others(p) /\ pc'[p] = "failing"
    BY <1>0, <1>1, <1>4 DEF Others, TypeOK, Goto, todo
  <2> QED BY <1>1, <1>4, <2>1, IdleStep
<1>5. kept \in [Proc -> DB!Batch]
  BY <1>0 DEF TypeOK
<1> QED BY <1>3, <1>4, <1>5 DEF Record

\* Hard links are made where no layer has a file: neither recorded, nor seen.
LEMMA FinishPlaced ==
  ASSUME Apart, CacheInv, NEW p \in Proc, Finish(p)
  PROVE  /\ CacheSound' /\ \A q \in Proc : Placed(q)'
         /\ \A rel \in seen[p] : disk'[Target(p, rel)] = disk[Target(p, rel)]
<1>0. TypeOK /\ Records(p) /\ pc[p] = "layer" /\ seen[p] \subseteq Rel
  BY DEF CacheInv, IInv, Finish, TypeOK
<1>1. PICK new \in SUBSET (Rel \ seen[p]) : \E link \in [new -> seen[p]] : Linked(p, link)
  BY DEF Finish
<1>2. Confined(p, new) /\ new \in SUBSET Rel /\ new \cap seen[p] = {}
  BY <1>0, <1>1, LinkAt
<1>3. /\ UNCHANGED <<db, holder, job, left, seen, todo, kept>>
      /\ Goto(p, "done") \/ Goto(p, "failing")
  BY DEF Finish
<1>4. Others(p) /\ pc'[p] \in {"done", "failing"} /\ checksums' = checksums
  BY <1>0, <1>3 DEF Others, TypeOK, Goto, todo, db
<1>5. job[p].delta => Active(p) /\ \A rel \in new : relPaths[job[p].root][rel] = NoDigest
  BY <1>0, <1>2 DEF Records, Active, Holding
<1>6. CacheSound' /\ \A q \in Proc \ {p} : Placed(q)'
  BY <1>2, <1>4, <1>5, WritesApart, OthersPlaced DEF CacheInv, CacheSound
<1>7. Placed(p)'
  BY <1>4 DEF Placed, LoopsPlaced
<1>8. \A rel \in seen[p] : disk'[Target(p, rel)] = disk[Target(p, rel)]
  BY <1>0, <1>2, OwnKept
<1> QED BY <1>6, <1>7, <1>8

\* Removing records, or failing to, leaves the other ones true.
LEMMA FailPlaced ==
  ASSUME CacheInv, NEW p \in Proc, Fail(p)
  PROVE  CacheSound' /\ \A q \in Proc : Placed(q)'
<1>0. TypeOK /\ pc[p] \in {"failing", "stale"}
  BY DEF CacheInv, IInv, Fail
<1>1. UNCHANGED <<holder, files, job, left, seen, todo, kept>>
  BY DEF Fail
<1>2. Others(p) /\ pc'[p] \in {"failed", "unclean"}
  BY <1>0, <1>1 DEF Fail, Others, TypeOK, Goto, todo
<1>3. CASE UNCHANGED db
  BY <1>1, <1>2, <1>3, IdleStep
<1>4. CASE job[p].delta /\ DB!RemoveRoot(job[p].root)
  <2>1. checksums' \subseteq checksums
    BY <1>4 DEF DB!RemoveRoot, DB!Left, DB!vars
  <2>2. CacheSound'
    BY <1>1, <2>1 DEF CacheInv, CacheSound, files
  <2>3. \A q \in Proc \ {p} : ~Active(q)
    BY <1>0, <1>4, OneActive DEF CacheInv, Active, Holding
  <2>4. \A q \in Proc \ {p} : Placed(q)'
    BY <1>2, <2>3, OthersPlaced
  <2>5. Placed(p)'
    BY <1>2 DEF Placed, LoopsPlaced
  <2> QED BY <2>2, <2>4, <2>5
<1> QED BY <1>3, <1>4 DEF Fail, Undone

\* A user deletes no file of an extraction that is still running.
LEMMA UserDeletePlaced ==
  ASSUME Apart, CacheInv, NEW a \in Abs, UserDelete(a)
  PROVE  CacheSound' /\ \A q \in Proc : Placed(q)'
<1>0. TypeOK
  BY DEF CacheInv, IInv
<1>1. /\ disk' = [disk EXCEPT ![a] = NoFile] /\ same' = Unlinked({a})
      /\ UNCHANGED <<db, holder, pc, job, left, seen, todo, kept>>
      /\ \A p \in Proc : pc[p] \in Running => \A rel \in Rel : Target(p, rel) # a
  BY DEF UserDelete
<1>2. checksums' = checksums
  BY <1>1 DEF db
<1>3. \A b : b # a => disk'[b] = disk[b]
  BY <1>0, <1>1 DEF TypeOK
<1>4. CacheSound'
  <2> SUFFICES ASSUME NEW k \in checksums PROVE disk'[k[2]] \in {k[1], NoFile}
    BY <1>2 DEF CacheSound
  <2>1. k[2] = a => disk'[k[2]] = NoFile
    BY <1>0, <1>1 DEF TypeOK
  <2> QED BY <1>3, <2>1 DEF CacheInv, CacheSound
<1>5. ASSUME NEW q \in Proc PROVE Placed(q)'
  <2>1. /\ pc' = pc /\ job' = job /\ left' = left /\ seen' = seen
        /\ batch' = batch /\ hits' = hits /\ missing' = missing /\ current' = current
    BY <1>1 DEF todo
  <2>2. LoopsPlaced(q)'
    BY <2>1 DEF CacheInv, Placed, LoopsPlaced
  <2>3. CASE Active(q)
    <3>1. \A rel \in Rel : /\ Target(q, rel)' = Target(q, rel) /\ Target(q, rel) # a
                           /\ Target(q, rel) \in Abs
                           /\ disk'[Target(q, rel)] = disk[Target(q, rel)]
      BY <1>0, <1>1, <1>3, <2>1, <2>3, TargetsDiffer DEF Target, Active, Holding, Running
    <3>2. \A n : SeenAbove(q, n)' = SeenAbove(q, n)
      BY <2>1 DEF SeenAbove
    <3>3. seen[q] \subseteq Rel /\ Placed(q)
      BY <1>0 DEF TypeOK, CacheInv
    <3>4. Unshared(q) => Unshared(q)'
      BY <1>1, <3>1 DEF Unshared, Unlinked
    <3>5. LayersPlaced(q) => LayersPlaced(q)'
      BY <2>1, <3>1, <3>2, <3>3, <3>4 DEF LayersPlaced
    <3>6. BatchPlaced(q) => BatchPlaced(q)'
      BY <1>2, <2>1, <3>1, <3>2, <3>3, <3>4 DEF BatchPlaced
    <3> QED BY <2>1, <2>2, <3>3, <3>5, <3>6 DEF Placed
  <2>4. CASE ~Active(q)
    BY <2>1, <2>2, <2>4 DEF Placed, Active, Holding
  <2> QED BY <2>3, <2>4
<1> QED BY <1>4, <1>5

\* Exits, and steps of nothing.
LEMMA StillPlaced ==
  ASSUME CacheInv, UNCHANGED <<db, files, pc, job, left, seen, todo, kept>>
  PROVE  CacheSound' /\ \A q \in Proc : Placed(q)'
<1>1. checksums' = checksums /\ disk' = disk /\ same' = same
  BY DEF db, files
<1>2. CacheSound'
  BY <1>1 DEF CacheInv, CacheSound
<1>3. ASSUME NEW q \in Proc PROVE Placed(q)'
  <2>1. \A rel : Target(q, rel)' = Target(q, rel)
    BY DEF Target
  <2>2. \A n : SeenAbove(q, n)' = SeenAbove(q, n)
    BY DEF SeenAbove
  <2>3. LoopsPlaced(q)'
    BY DEF CacheInv, Placed, LoopsPlaced, todo
  <2>4. Unshared(q) => Unshared(q)'
    BY <1>1, <2>1 DEF Unshared
  <2>5. LayersPlaced(q) => LayersPlaced(q)'
    BY <1>1, <2>1, <2>2, <2>4 DEF LayersPlaced
  <2>6. BatchPlaced(q) => BatchPlaced(q)'
    BY <1>1, <2>1, <2>2, <2>4 DEF BatchPlaced, todo
  <2> QED BY <2>3, <2>5, <2>6 DEF CacheInv, Placed
<1> QED BY <1>2, <1>3

\* Every step keeps the stronger invariant, if extractions begin in destinations
\* without hard links.
LEMMA NextPlaced ==
  ASSUME Apart, CacheInv, [Next /\ CleanStep]_vars
  PROVE  CacheInv'
<1>1. IInv'
  BY NextKeeps DEF CacheInv
<1>2. DB!IndexesAgree'
  BY IndexesKept DEF CacheInv
<1>3. ASSUME NEW p \in Proc, Exit(p)
      PROVE  UNCHANGED <<db, files, pc, job, left, seen, todo, kept>>
  BY <1>3 DEF Exit
<1>4. UNCHANGED vars => UNCHANGED <<db, files, pc, job, left, seen, todo, kept>>
  BY DEF vars, db, files, todo
<1>5. ASSUME NEW p \in Proc, Start(p) \/ Step(p) \/ Crash(p), CleanStep
      PROVE  CacheSound' /\ \A q \in Proc : Placed(q)'
  BY <1>3, <1>5, StillPlaced, StartPlaced, OpenPlaced, ApplyLayerPlaced, ProcessTOCPlaced,
     FetchMissingPlaced, CopyDuplicatePlaced, EndFetchPlaced, CopyCachedPlaced, RecordPlaced,
     FinishPlaced, FailPlaced DEF Step
<1>6. CacheSound' /\ \A q \in Proc : Placed(q)'
  BY <1>4, <1>5, StillPlaced, UserDeletePlaced DEF Next
<1> QED BY <1>1, <1>2, <1>6 DEF CacheInv

\* The stronger invariant, for destinations that lie apart and have no hard
\* links when an extraction into them begins.
THEOREM CacheInvariance ==
  ASSUME Apart
  PROVE  CleanSpec => []CacheInv
<1>1. Init => CacheInv
  <2> SUFFICES ASSUME Init PROVE CacheInv
    OBVIOUS
  <2>1. checksums = {} /\ \A root \in Root, rel \in Rel : relPaths[root][rel] = NoDigest
    BY DEF Init, DB!Init
  <2>2. DB!IndexesAgree
    BY <2>1 DEF DB!IndexesAgree, DB!Facts
  <2>3. CacheSound
    BY <2>1 DEF CacheSound
  <2>4. \A p \in Proc : Placed(p)
    BY DEF Init, Placed, LoopsPlaced
  <2> QED BY <2>2, <2>3, <2>4, InitIInv DEF CacheInv
<1> QED BY <1>1, NextPlaced, PTL DEF CleanSpec

\* If destinations lie apart and have no hard links when an extraction into them
\* begins, a path recorded under a digest never holds another content: across
\* failures, kills, retries and users deleting files, what the extractor copies
\* from a cached path is what it asked for.
THEOREM CacheIsSound ==
  ASSUME Apart
  PROVE  CleanSpec => []CacheSound
<1>1. CacheInv => CacheSound
  BY DEF CacheInv
<1> QED BY <1>1, CacheInvariance, PTL

\* Only Finish ends in success.
LEMMA OnlyFinishSucceeds ==
  ASSUME TypeOK, Next, NEW p \in Proc, pc[p] # "done", pc'[p] = "done"
  PROVE  Finish(p)
<1>1. ASSUME NEW q \in Proc, Start(q) PROVE FALSE
  BY <1>1 DEF Start, Goto, TypeOK
<1>2. ASSUME NEW q \in Proc, Open(q) \/ Fail(q) \/ Crash(q) \/ Exit(q) PROVE FALSE
  BY <1>2 DEF Open, Fail, Crash, Exit, Goto, Opened, TypeOK
<1>3. ASSUME NEW q \in Proc, ApplyLayer(q) \/ Record(q) PROVE FALSE
  BY <1>3 DEF ApplyLayer, Record, NextLayer, Goto, TypeOK
<1>4. ASSUME NEW q \in Proc, ProcessTOC(q) \/ FetchMissing(q) \/ CopyDuplicate(q) \/ EndFetch(q)
      PROVE  FALSE
  <2>1. UNCHANGED pc \/ \E label \in {"fetch", "copy", "failing"} : Goto(q, label)
    <3>1. CASE ProcessTOC(q)
      BY <3>1 DEF ProcessTOC
    <3>2. CASE FetchMissing(q)
      BY <3>2 DEF FetchMissing
    <3>3. CASE CopyDuplicate(q)
      BY <3>3 DEF CopyDuplicate
    <3>4. CASE EndFetch(q)
      BY <3>4 DEF EndFetch
    <3> QED BY <1>4, <3>1, <3>2, <3>3, <3>4
  <2> QED BY <2>1 DEF Goto, TypeOK
<1>5. ASSUME NEW q \in Proc, CopyCached(q) PROVE FALSE
  <2>1. PICK rel \in Rel : \E a \in hits[q][rel] : UNCHANGED pc \/ GiveUp(q, a)
    BY <1>5 DEF CopyCached
  <2>2. PICK a \in hits[q][rel] : UNCHANGED pc \/ GiveUp(q, a)
    BY <2>1
  <2> QED BY <2>2 DEF GiveUp, Goto, TypeOK
<1>6. ASSUME NEW q \in Proc, Finish(q) PROVE q = p
  BY <1>6 DEF Finish, Goto, TypeOK
<1>7. ASSUME NEW a \in Abs, UserDelete(a) PROVE FALSE
  BY <1>7 DEF UserDelete
<1> QED BY <1>1, <1>2, <1>3, <1>4, <1>5, <1>6, <1>7 DEF Next, Step

\* If destinations lie apart and have no hard links when an extraction into them
\* begins, a delta extraction that succeeds leaves the flattened image on disk,
\* whichever files were fetched, copied or applied.
THEOREM SuccessLeavesTheImage ==
  ASSUME Apart
  PROVE  CleanSpec => SuccessIsComplete
<1>1. CacheInv /\ [Next /\ CleanStep]_vars =>
        [\A p \in Proc :
           job[p].delta /\ pc[p] # "done" /\ pc'[p] = "done" =>
             \A rel \in Rel :
                LET d == Flattened(job[p].image, rel)
                IN d # NoDigest => disk'[Target(p, rel)] = d]_vars
  <2> SUFFICES ASSUME CacheInv, Next, NEW p \in Proc, job[p].delta,
                      pc[p] # "done", pc'[p] = "done",
                      NEW rel \in Rel, Flattened(job[p].image, rel) # NoDigest
               PROVE  disk'[Target(p, rel)] = Flattened(job[p].image, rel)
    OBVIOUS
  <2>1. TypeOK /\ Finish(p) /\ Placed(p)
    BY OnlyFinishSucceeds DEF CacheInv, IInv
  <2>2. pc[p] = "layer" /\ left[p] = 0
    BY <2>1 DEF Finish
  <2>3. PICK i \in DOMAIN job[p].image : job[p].image[i].files[rel] # NoDigest
    BY DEF Flattened
  <2>4. i \in 0 + 1 .. Len(job[p].image)
    BY <2>1, <2>3, JobTyped, ImageTyped
  <2>5. rel \in SeenAbove(p, left[p])
    BY <2>2, <2>3, <2>4 DEF SeenAbove
  <2>6. rel \in seen[p] /\ disk[Target(p, rel)] = Flattened(job[p].image, rel)
    BY <2>1, <2>2, <2>5 DEF Placed, LayersPlaced
  <2> QED BY <2>1, <2>6, FinishPlaced
<1> QED BY <1>1, CacheInvariance, PTL DEF CleanSpec, SuccessIsComplete
=============================================================================
