------------------------------ MODULE Extraction ------------------------------
(***************************************************************************)
(* pkg/extractor: "ocistore extract" processes sharing one files database  *)
(* (module FileDB) and one file system.                                    *)
(*                                                                         *)
(* A delta extraction opens the database, whose bolt file lock it then     *)
(* holds until the process ends (ExtractImage never closes it), refuses a  *)
(* destination that is already tracked, applies the layers from the last   *)
(* to the first and records each chunked layer once its files are on disk. *)
(* On an error it removes the destination's records.  A plain extraction   *)
(* (--delta=false) writes files and never looks at the database.           *)
(*                                                                         *)
(* Abstracted: a layer is the digest at each path; whiteouts, directories  *)
(* and empty files are left to module LayerFlatten, byte ranges to         *)
(* RangeGroups.  A file on disk is the digest of its content, and several  *)
(* paths may be hard links to it: a fetched file replaces the link, a copy *)
(* truncates the file all of them share.                                   *)
(***************************************************************************)
EXTENDS Naturals, Sequences, FiniteSets

CONSTANTS Proc,           \* invocations of "ocistore extract"
          Image,          \* images: sequences of [toc : BOOLEAN, files : Batch]
          DeltaRoot,      \* destinations given to delta extractions
          PlainRoot,      \* destinations given with --delta=false
          UserDeletes,    \* the paths where users may delete the files left there
          NoFile,         \* nothing (readable) at this path
          Torn,           \* a content that is no digest's: cut off, or mixed
          Nobody,         \* no process holds the lock
          Root, Rel, Digest, NoDigest, Abs, Join(_, _)   \* as in FileDB

ASSUME RootsAssumption == DeltaRoot \cup PlainRoot \subseteq Root

\* A layer gives some of the paths a digest.
ASSUME ImageAssumption ==
  Image \subseteq Seq([toc : BOOLEAN, files : [Rel -> Digest \cup {NoDigest}]])

\* There is something to extract, and somewhere to.
ASSUME JobAssumption == Image # {} /\ DeltaRoot \cup PlainRoot # {}

ASSUME NobodyAssumption == Nobody \notin Proc

ASSUME ContentAssumption == NoFile \notin Digest /\ Torn \notin Digest \cup {NoFile}

\* FileDB's assumptions on the same constants.
ASSUME JoinAssumption == \A root \in Root, rel \in Rel : Join(root, rel) \in Abs
ASSUME NoDigestAssumption == NoDigest \notin Digest

VARIABLES checksums, digestBkts, rootBkts, relPaths,     \* files.db
          holder,         \* the process holding the database's file lock
          disk,           \* disk[a]: digest of the content at a, Torn, or NoFile
          same,           \* same[a]: the paths that are links to the file at a
          pc,             \* where each process is
          job,            \* its arguments: [image, root, delta]
          left,           \* how many of its layers are still to be applied
          seen,           \* lCtx.seenPaths
          batch,          \* the files of the last chunked layer, by path
          missing,        \* those of them still to be fetched or duplicated
          hits,           \* the CachedPaths each file is still to be copied from
          current,        \* the file at hand in the loop over either, if any
          kept            \* history: all that each process recorded, by path

db == <<checksums, digestBkts, rootBkts, relPaths>>
files == <<disk, same>>
todo == <<batch, missing, hits, current>>
vars == <<checksums, digestBkts, rootBkts, relPaths, holder, disk, same,
          pc, job, left, seen, batch, missing, hits, current, kept>>

DB == INSTANCE FileDB

Job == [image : Image, root : DeltaRoot, delta : {TRUE}]
         \cup [image : Image, root : PlainRoot, delta : {FALSE}]

Running == {"open", "layer", "fetch", "copy", "stale", "failing"}
Ended == {"done", "failed", "unclean", "refused", "crashed"}

Content == Digest \cup {Torn, NoFile}

NoBatch == [rel \in Rel |-> NoDigest]
NoHits == [rel \in Rel |-> {}]

TypeOK ==
  /\ DB!TypeOK
  /\ holder \in Proc \cup {Nobody}
  /\ disk \in [Abs -> Content]
  /\ same \in [Abs -> SUBSET Abs]
  /\ pc \in [Proc -> {"idle"} \cup Running \cup Ended]
  /\ job \in [Proc -> Job]
  /\ left \in [Proc -> Nat]
  /\ seen \in [Proc -> SUBSET Rel]
  /\ batch \in [Proc -> DB!Batch]
  /\ missing \in [Proc -> SUBSET Rel]
  /\ hits \in [Proc -> [Rel -> SUBSET Abs]]
  /\ current \in [Proc -> SUBSET Rel]
  /\ kept \in [Proc -> DB!Batch]

Goto(p, label) == pc' = [pc EXCEPT ![p] = label]

Target(p, rel) == Join(job[p].root, rel)

Layer(p) == job[p].image[left[p]]

-----------------------------------------------------------------------------
(* Files *)

\* The links after what is at the paths of W was removed, or replaced.
Unlinked(W) == [a \in Abs |-> IF a \in W THEN {a} ELSE same[a] \ W]

\* Process p removes what is at each rel in content's domain and writes a new
\* file there: archive.Apply, and decompressFile for a fetched file.
Create(p, content) ==
  /\ disk' = [a \in Abs |->
                IF \E rel \in DOMAIN content : Target(p, rel) = a
                  THEN content[CHOOSE rel \in DOMAIN content : Target(p, rel) = a]
                  ELSE disk[a]]
  /\ same' = Unlinked({Target(p, rel) : rel \in DOMAIN content})

\* The file at a is truncated and written: every link to it shows the content.
Overwrite(a, content) ==
  /\ disk' = [b \in Abs |-> IF b \in same[a] THEN content ELSE disk[b]]
  /\ UNCHANGED same

\* reflinkOrCopy(to, from).  A source that is a link to the target is empty by
\* the time it is read, and the copy succeeds.
Copy(from, to) ==
  /\ disk[from] # NoFile
  /\ Overwrite(to, IF from \in same[to] THEN Torn ELSE disk[from])

\* It fails: before the target is opened, or later; then the target is removed,
\* if that succeeds, and the other links to the file stay.
CopyFails(from, to) ==
  \/ UNCHANGED files
  \/ /\ disk[from] # NoFile
     /\ disk' = [b \in Abs |-> IF b = to THEN NoFile
                                ELSE IF b \in same[to] THEN Torn ELSE disk[b]]
     /\ same' = Unlinked({to})
  \/ disk[from] # NoFile /\ Overwrite(to, Torn)

-----------------------------------------------------------------------------
(* Starting *)

\* Resolving the image, or opening the database, may fail: nothing is done.
Start(p) ==
  /\ pc[p] = "idle"
  /\ \E j \in Job :
       /\ job' = [job EXCEPT ![p] = j]
       /\ left' = [left EXCEPT ![p] = Len(j.image)]
       /\ \/ Goto(p, IF j.delta THEN "open" ELSE "layer")
          \/ Goto(p, "failed")
  /\ UNCHANGED <<db, holder, files, seen, todo, kept>>

\* Mutants: the deferred RemoveRoot is installed before the check; no check; the
\* process waits for the destination to be forgotten.
OpenedMut(p) == IF DB!RootExists(job[p].root) THEN "failing" ELSE "layer"
OpenedAnyMut(p) == "layer"
OpenedWaitMut(p) == IF DB!RootExists(job[p].root) THEN "open" ELSE "layer"

\* Where a process goes from an open database.
Opened(p) == IF DB!RootExists(job[p].root) THEN "refused" ELSE "layer"

\* bolt.Open waits for the file lock; nobody else reaches the database then.
Open(p) ==
  /\ pc[p] = "open"
  /\ holder = Nobody
  /\ holder' = p
  /\ Goto(p, Opened(p))
  /\ UNCHANGED <<db, files, job, left, seen, todo, kept>>

-----------------------------------------------------------------------------
(* Applying a layer *)

\* The layer's paths that no upper layer gave.
Fresh(p) == {rel \in Rel \ seen[p] : Layer(p).files[rel] # NoDigest}

\* Any step between two layers may fail: the network, a full disk.
NextLayer(p, done) ==
  \/ /\ done
     /\ Goto(p, "layer")
     /\ left' = [left EXCEPT ![p] = @ - 1]
  \/ /\ Goto(p, "failing")
     /\ UNCHANGED left

\* A plain layer, or the fallback when the table of contents cannot be read:
\* the tar stream is applied file by file, and may break in the middle of one.
ApplyLayer(p) ==
  /\ pc[p] = "layer" /\ left[p] > 0
  /\ \E got \in SUBSET Fresh(p) :
       \/ /\ Create(p, [rel \in got |-> Layer(p).files[rel]])
          /\ NextLayer(p, got = Fresh(p))
       \/ /\ \E cut \in got : Create(p, [rel \in got |-> IF rel = cut THEN Torn
                                                           ELSE Layer(p).files[rel]])
          /\ NextLayer(p, FALSE)
  /\ seen' = [seen EXCEPT ![p] = @ \cup Fresh(p)]
  /\ UNCHANGED <<db, holder, job, todo, kept>>

\* Mutant: the table of contents is recorded whole, seen paths included.
PlannedMut(p) == Layer(p).files

\* The files of the layer to extract, by path.
Planned(p) == [rel \in Rel |-> IF rel \in Fresh(p) THEN Layer(p).files[rel] ELSE NoDigest]

\* With a table of contents, files the database knows are to be copied and the
\* others to be fetched.
ProcessTOC(p) ==
  /\ pc[p] = "layer" /\ left[p] > 0
  /\ job[p].delta /\ Layer(p).toc
  /\ LET Cached(rel) == DB!PathsForChecksum(Layer(p).files[rel])
     IN /\ hits' = [hits EXCEPT ![p] =
                       [rel \in Rel |-> IF rel \in Fresh(p) THEN Cached(rel) ELSE {}]]
        /\ missing' = [missing EXCEPT ![p] = {rel \in Fresh(p) : Cached(rel) = {}}]
  /\ seen' = [seen EXCEPT ![p] = @ \cup Fresh(p)]
  /\ batch' = [batch EXCEPT ![p] = Planned(p)]
  /\ Goto(p, "fetch") \/ Goto(p, "failing")
  /\ UNCHANGED <<db, holder, files, job, left, current, kept>>

\* The first missing file of a digest is fetched, unless the request or the
\* file fails; then the other ones are copied from it before the next digest.
FetchMissing(p) ==
  /\ pc[p] = "fetch"
  /\ \E rel \in missing[p] :
       /\ \A first \in current[p], r \in missing[p] : batch[p][r] # batch[p][first]
       /\ \/ /\ Create(p, [r \in {rel} |-> batch[p][rel]])
             /\ UNCHANGED pc
          \/ /\ UNCHANGED files \/ Create(p, [r \in {rel} |-> Torn])
             /\ Goto(p, "failing")
       /\ missing' = [missing EXCEPT ![p] = @ \ {rel}]
       /\ current' = [current EXCEPT ![p] = {rel}]
  /\ UNCHANGED <<db, holder, job, left, seen, batch, hits, kept>>

\* The duplicates of a fetched file.
CopyDuplicate(p) ==
  /\ pc[p] = "fetch"
  /\ \E first \in current[p], rel \in missing[p] :
       /\ batch[p][rel] = batch[p][first]
       /\ \/ Copy(Target(p, first), Target(p, rel)) /\ UNCHANGED pc
          \/ CopyFails(Target(p, first), Target(p, rel)) /\ Goto(p, "failing")
       /\ missing' = [missing EXCEPT ![p] = @ \ {rel}]
  /\ UNCHANGED <<db, holder, job, left, seen, batch, hits, current, kept>>

\* All fetched.
EndFetch(p) ==
  /\ pc[p] = "fetch" /\ missing[p] = {}
  /\ Goto(p, "copy")
  /\ current' = [current EXCEPT ![p] = {}]
  /\ UNCHANGED <<db, holder, files, job, left, seen, batch, missing, hits, kept>>

\* Mutant: a file that could not be copied is left out.
GiveUpMut(p, a) == UNCHANGED pc

\* The extraction fails on a file whose last cached path, a, was not copied:
\* it could not be read, or the target not written.
GiveUp(p, a) == Goto(p, IF disk[a] = NoFile THEN "stale" ELSE "failing")

\* One turn of the loop over the cached paths of a file: each copy replaces the
\* one before, and only the outcome of the last one counts.
CopyCached(p) ==
  /\ pc[p] = "copy"
  /\ \E rel \in Rel : \E a \in hits[p][rel] :
       LET last == hits[p][rel] = {a}
       IN /\ current[p] \subseteq {rel}
          /\ \/ Copy(a, Target(p, rel)) /\ UNCHANGED pc
             \/ /\ CopyFails(a, Target(p, rel))
                /\ IF last THEN GiveUp(p, a) ELSE UNCHANGED pc
          /\ hits' = [hits EXCEPT ![p][rel] = @ \ {a}]
          /\ current' = [current EXCEPT ![p] = IF last THEN {} ELSE {rel}]
  /\ UNCHANGED <<db, holder, job, left, seen, batch, missing, kept>>

\* updateFileDB: cached and fetched files enter the database together.
Record(p) ==
  /\ pc[p] = "copy" /\ hits[p] = NoHits
  /\ \/ /\ DB!RecordAll(job[p].root, batch[p])
        /\ NextLayer(p, TRUE)
        /\ kept' = [kept EXCEPT ![p] = [rel \in Rel |->
                       IF batch[p][rel] # NoDigest THEN batch[p][rel] ELSE kept[p][rel]]]
     \/ /\ Goto(p, "failing")
        /\ UNCHANGED <<db, left, kept>>
  /\ UNCHANGED <<holder, files, job, seen, todo>>

-----------------------------------------------------------------------------
(* Ending *)

\* The deferred hard links link, at paths no layer has as a file, to files of
\* the image; what is at such a path is replaced.
Linked(p, link) ==
  LET Source(b) == IF \E rel \in DOMAIN link : Target(p, rel) = b
                     THEN Target(p, link[CHOOSE rel \in DOMAIN link : Target(p, rel) = b])
                     ELSE b
  IN /\ \A rel \in DOMAIN link : disk[Target(p, link[rel])] # NoFile
     /\ disk' = [b \in Abs |-> disk[Source(b)]]
     /\ same' = [b \in Abs |-> {c \in Abs : Source(c) \in same[Source(b)]}]

\* All layers applied: the hard links are created; one that fails ends it.
Finish(p) ==
  /\ pc[p] = "layer" /\ left[p] = 0
  /\ \E new \in SUBSET (Rel \ seen[p]) : \E link \in [new -> seen[p]] : Linked(p, link)
  /\ Goto(p, "done") \/ Goto(p, "failing")
  /\ UNCHANGED <<db, holder, job, left, seen, todo, kept>>

\* Mutant: the error is returned without touching the database.
UndoneMut(p) == UNCHANGED db

\* What the deferred function of a failed extraction does to the database.
Undone(p) == IF job[p].delta THEN DB!RemoveRoot(job[p].root) ELSE UNCHANGED db

\* RemoveRoot may fail as well: its error is joined to the other one, and its
\* transaction leaves the database as it was.
Fail(p) ==
  /\ pc[p] \in {"failing", "stale"}
  /\ \/ Undone(p) /\ Goto(p, "failed")
     \/ job[p].delta /\ UNCHANGED db /\ Goto(p, "unclean")
  /\ UNCHANGED <<holder, files, job, left, seen, todo, kept>>

\* Process exit releases the file lock.
Exit(p) ==
  /\ pc[p] \in Ended
  /\ holder = p
  /\ holder' = Nobody
  /\ UNCHANGED <<db, files, pc, job, left, seen, todo, kept>>

\* The process is killed: no deferred function runs.
Crash(p) ==
  /\ pc[p] \in Running
  /\ Goto(p, "crashed")
  /\ UNCHANGED <<db, holder, files, job, left, seen, todo, kept>>

\* A user deletes a file of an extraction that has ended.
UserDelete(a) ==
  /\ a \in UserDeletes
  /\ disk[a] # NoFile
  /\ \A p \in Proc : pc[p] \in Running => \A rel \in Rel : Target(p, rel) # a
  /\ disk' = [disk EXCEPT ![a] = NoFile]
  /\ same' = Unlinked({a})
  /\ UNCHANGED <<db, holder, pc, job, left, seen, todo, kept>>

-----------------------------------------------------------------------------
Init ==
  /\ DB!Init
  /\ holder = Nobody
  /\ disk = [a \in Abs |-> NoFile]
  /\ same = [a \in Abs |-> {a}]
  /\ pc = [p \in Proc |-> "idle"]
  /\ job = [p \in Proc |-> CHOOSE j \in Job : TRUE]
  /\ left = [p \in Proc |-> 0]
  /\ seen = [p \in Proc |-> {}]
  /\ batch = [p \in Proc |-> NoBatch]
  /\ missing = [p \in Proc |-> {}]
  /\ hits = [p \in Proc |-> NoHits]
  /\ current = [p \in Proc |-> {}]
  /\ kept = [p \in Proc |-> NoBatch]

\* What a process does by itself once started.
Step(p) ==
  \/ Open(p) \/ ApplyLayer(p) \/ ProcessTOC(p) \/ FetchMissing(p) \/ CopyDuplicate(p)
  \/ EndFetch(p) \/ CopyCached(p) \/ Record(p) \/ Finish(p) \/ Fail(p) \/ Exit(p)

Next ==
  \/ \E p \in Proc : Start(p) \/ Step(p) \/ Crash(p)
  \/ \E a \in Abs : UserDelete(a)

\* A process the system schedules goes on, and bolt.Open polls for the lock.
Fairness == \A p \in Proc : WF_vars(Step(p))

Spec == Init /\ [][Next]_vars /\ Fairness

(***************************************************************************)
(* Destinations without hard links.  Nothing in the code asks for it: when *)
(* a delta extraction begins, no path it may write is a hard link to a     *)
(* file an earlier extraction left there, one that succeeded untracked or  *)
(* failed after its links were made.  Copies are made in place, so this is *)
(* what CacheSound and SuccessIsComplete need.                             *)
(***************************************************************************)
CleanStep ==
  \A p \in Proc : pc[p] = "open" /\ pc'[p] = "layer" =>
     \A rel \in Rel : same[Target(p, rel)] = {Target(p, rel)}

CleanSpec == Init /\ [][Next /\ CleanStep]_vars

\* Nobody is kept waiting before such a destination: it is not given at all.
FairCleanSpec == CleanSpec /\ Fairness

-----------------------------------------------------------------------------
(* Properties *)

(***************************************************************************)
(* "CachedPaths are the already extracted paths where the file contents    *)
(* can be found" (toc_process.go:35): a path recorded under a digest holds *)
(* that content, or nothing any more, never another content, across        *)
(* failures, crashes and retries into the same destination.  It holds of   *)
(* destinations that lie apart and have no hard links left in them         *)
(* (CleanSpec), and not of others.                                         *)
(***************************************************************************)
CacheSound == \A k \in checksums : disk[k[2]] \in {k[1], NoFile}

(***************************************************************************)
(* Only extractions that are running, succeeded, were killed or could not  *)
(* clean up have records: every other failure forgets what it recorded     *)
(* (extractor.go:192), so its destination is not refused afterwards.  One  *)
(* whose RemoveRoot failed reports that error too (extractor.go:194).      *)
(***************************************************************************)
FailuresForgotten ==
  \A root \in rootBkts : \E p \in Proc :
     /\ job[p].delta /\ job[p].root = root
     /\ pc[p] \in Running \cup {"done", "crashed", "unclean"}

(***************************************************************************)
(* All that a successful extraction recorded, of every layer, stays        *)
(* recorded as it was and nothing is added to it, whatever later           *)
(* extractions into the same destination do: they are refused before they  *)
(* could remove or overwrite it (extractor.go:189).                        *)
(***************************************************************************)
SuccessKept ==
  \A p \in Proc : pc[p] = "done" /\ kept[p] # NoBatch => relPaths[job[p].root] = kept[p]

\* The content the image gives a path: that of the last layer that has it.
Flattened(image, rel) ==
  LET has == {i \in DOMAIN image : image[i].files[rel] # NoDigest}
  IN IF has = {} THEN NoDigest
     ELSE image[CHOOSE i \in has : \A j \in has : j <= i].files[rel]

(***************************************************************************)
(* A delta extraction that succeeds leaves every file of the flattened     *)
(* image at its path, whichever were fetched, copied from other            *)
(* extractions or applied from a layer without table of contents, if its   *)
(* destination had no hard links when it began (CleanSpec).                *)
(***************************************************************************)
SuccessIsComplete ==
  [][\A p \in Proc :
        job[p].delta /\ pc[p] # "done" /\ pc'[p] = "done" =>
          \A rel \in Rel :
             LET d == Flattened(job[p].image, rel)
             IN d # NoDigest => disk'[Target(p, rel)] = d]_vars

(***************************************************************************)
(* The extractor never records a path twice without removing its root in   *)
(* between: it is a caller for which FileDB implements ExtractionIndex.    *)
(***************************************************************************)
UsesDBOnce == DB!ExtractorSpec

(***************************************************************************)
(* Whatever extractions do, fail or are killed, the two indexes of the     *)
(* database they share hold the same facts, so that the RemoveRoot of one  *)
(* that fails finds all that it recorded through the second index.         *)
(***************************************************************************)
IndexesInStep == DB!IndexesAgree

(***************************************************************************)
(* And the database is an extraction index: what is known of a digest are  *)
(* the paths recorded and not removed, and a root's removal forgets what   *)
(* lies below it and nothing of other roots.                               *)
(***************************************************************************)
KeepsIndex == DB!ImplementsIndex

(***************************************************************************)
(* Every extraction ends, also one waiting for the database while others   *)
(* fail or are killed.                                                     *)
(***************************************************************************)
EveryoneEnds == \A p \in Proc : pc[p] = "open" ~> pc[p] \in Ended

(***************************************************************************)
(* A cache hit is not lost while one of its paths can be read: the loop    *)
(* over CachedPaths only warns about a path it cannot copy                 *)
(* (chunked_extraction.go:330-333).                                        *)
(***************************************************************************)
ReadableHitCopied ==
  [][\A p \in Proc :
        pc[p] = "copy" /\ pc'[p] = "stale" =>
          \E rel \in Rel :
             /\ hits[p][rel] # {}
             /\ \A a \in DB!PathsForChecksum(batch[p][rel]) : disk[a] = NoFile]_vars
===============================================================================
