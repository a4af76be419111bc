-------------------------------- MODULE Contents --------------------------------
(***************************************************************************)
(* pkg/ocistore: the content blobs of images, and what keeps them from the *)
(* garbage collector, which runs after every command (cmd/root.go:94) and  *)
(* whenever a library caller asks for it.                                  *)
(*                                                                         *)
(* A manifest is the set of its layers; its blob refers to its config and  *)
(* layers once it is labelled with them.  The collector keeps what stored  *)
(* images and leases reach through labels.  Calls of one process run       *)
(* concurrently; a kill ends them all and leaves their leases to expire.   *)
(* No call is modelled as lasting longer than its lease of an hour.        *)
(***************************************************************************)
EXTENDS FiniteSets

CONSTANTS Caller,     \* concurrent callers of one OCIStore
          Name,       \* image references
          Layer,      \* layers
          Remote,     \* Remote[name]: the manifests registries and archives have as name
          Diff,       \* the layers a commit may produce
          NoName,     \* no reference: the base of a mount from scratch
          Bases,      \* what commits build on
          NoImage     \* no image under this reference

ASSUME InputsAssumption ==
  /\ Remote \in [Name -> SUBSET SUBSET Layer]
  /\ Diff \subseteq Layer
  /\ Bases \subseteq Name \cup {NoName}

ASSUME NoImageAssumption == \A t \in SUBSET Layer : t # NoImage

Target == SUBSET Layer

\* The blobs of a manifest, of its config, and of layers.
Manifest(t) == <<"manifest", t>>
Config(t) == <<"config", t>>
Blob == {"manifest", "config", "layer"} \X Target
Layers(t) == {<<"layer", {l}>> : l \in t}
Children(t) == {Config(t)} \cup Layers(t)

VARIABLES blobs,      \* the content store
          labelled,   \* the manifests whose blob is labelled with its children
          images,     \* images[name]: the image's manifest, or NoImage
          held,       \* held[c]: the blobs in the lease of c's call
          stale,      \* the blobs in leases that calls left behind
          call        \* call[c]: what c is doing

vars == <<blobs, labelled, images, held, stale, call>>

\* step: what is next; todo: blobs still to fetch; base: the image committed on.
Call(op, step, name, target, base) ==
  [op |-> op, step |-> step, name |-> name, target |-> target, base |-> base,
   todo |-> Children(target)]

Idle == [Call("none", "idle", NoName, {}, NoName) EXCEPT !.todo = {}]

Steps == {"idle", "manifest", "label", "children", "ingest", "create", "update",
          "updateOnce", "createOnce", "diff", "write", "config", "drop"}

Calls == [op : {"none", "pull", "import", "commit", "delete"}, step : Steps,
          name : Name \cup {NoName}, target : Target, base : Name \cup {NoName},
          todo : SUBSET Blob]

TypeOK ==
  /\ blobs \subseteq Blob
  /\ labelled \subseteq Target /\ \A t \in labelled : Manifest(t) \in blobs
  /\ images \in [Name -> Target \cup {NoImage}]
  /\ held \in [Caller -> SUBSET blobs] /\ stale \subseteq blobs
  /\ call \in [Caller -> Calls]

-----------------------------------------------------------------------------
(* Starting and ending a call: WithLease *)

Begin(c, new) ==
  /\ call[c] = Idle
  /\ call' = [call EXCEPT ![c] = new]
  /\ UNCHANGED <<blobs, labelled, images, held, stale>>

Goto(c, step) == call' = [call EXCEPT ![c].step = step]

\* Mutant: the lease stays when the call is over.
ReleasedMut(c) == held

Released(c) == [held EXCEPT ![c] = {}]

\* done deletes the lease; if that fails it is left to expire.
Return(c) ==
  /\ call' = [call EXCEPT ![c] = Idle]
  /\ held' = Released(c)
  /\ \/ UNCHANGED stale
     \/ stale = {} /\ stale' = held[c]

\* Any step of a call may fail.
Fail(c) ==
  /\ call[c] # Idle
  /\ Return(c)
  /\ UNCHANGED <<blobs, labelled, images>>

\* Mutant: blobs are written without the lease in the context.
HoldMut(c, b) == held

Hold(c, b) == [held EXCEPT ![c] = @ \cup {b}]

\* A blob is written, or is there already; the lease has it either way.
Store(c, b) ==
  /\ blobs' = blobs \cup {b}
  /\ held' = Hold(c, b)
  /\ UNCHANGED <<images, stale>>

-----------------------------------------------------------------------------
(* Pull: fetch *)

\* Mutant: the labels are set first.
PullMut(c, name, t) == Begin(c, Call("pull", "label", name, t, NoName))

Pull(c, name, t) == Begin(c, Call("pull", "manifest", name, t, NoName))

FetchManifest(c) ==
  /\ call[c].step = "manifest"
  /\ Store(c, Manifest(call[c].target))
  /\ Goto(c, "label")
  /\ UNCHANGED labelled

\* SetChildrenMappedLabels; an import labels after everything is there.
Label(c) ==
  /\ call[c].step = "label"
  /\ labelled' = labelled \cup {call[c].target}
  /\ Goto(c, IF call[c].op = "pull" THEN "children" ELSE "updateOnce")
  /\ UNCHANGED <<blobs, images, held, stale>>

\* Dispatch fetches the children in any order.
FetchChild(c) ==
  /\ call[c].step = "children"
  /\ \/ \E b \in call[c].todo :
           /\ Store(c, b)
           /\ call' = [call EXCEPT ![c].todo = @ \ {b}]
     \/ /\ call[c].todo = {}
        /\ Goto(c, "create")
        /\ UNCHANGED <<blobs, held, images, stale>>
  /\ UNCHANGED labelled

Write(name, t) == images' = [images EXCEPT ![name] = t]

CreateImage(c) ==
  /\ call[c].step = "create"
  /\ \/ /\ images[call[c].name] = NoImage
        /\ Write(call[c].name, call[c].target)
        /\ Return(c)
     \/ /\ images[call[c].name] # NoImage
        /\ Goto(c, "update")
        /\ UNCHANGED <<images, held, stale>>
  /\ UNCHANGED <<blobs, labelled>>

\* Mutant: the update is tried again.
MissingMut == "update"

\* The image was removed in between: try to create it again.
Missing == "create"

UpdateImage(c) ==
  /\ call[c].step = "update"
  /\ \/ /\ images[call[c].name] # NoImage
        /\ Write(call[c].name, call[c].target)
        /\ Return(c)
     \/ /\ images[call[c].name] = NoImage
        /\ Goto(c, Missing)
        /\ UNCHANGED <<images, held, stale>>
  /\ UNCHANGED <<blobs, labelled>>

-----------------------------------------------------------------------------
(* Import: importFunc *)

Import(c, name, t) ==
  Begin(c, [Call("import", "ingest", name, t, NoName) EXCEPT !.todo = @ \cup {Manifest(t)}])

\* ImportIndex writes the blobs in the order of the archive.
Ingest(c) ==
  /\ call[c].step = "ingest"
  /\ \/ \E b \in call[c].todo :
           /\ Store(c, b)
           /\ call' = [call EXCEPT ![c].todo = @ \ {b}]
     \/ /\ call[c].todo = {}
        /\ Goto(c, "label")
        /\ UNCHANGED <<blobs, held, images, stale>>
  /\ UNCHANGED labelled

\* Import and Commit update the image, or create it; there is no second try.
UpdateOnce(c) ==
  /\ call[c].step = "updateOnce"
  /\ \/ /\ images[call[c].name] # NoImage
        /\ Write(call[c].name, call[c].target)
        /\ Return(c)
     \/ /\ images[call[c].name] = NoImage
        /\ Goto(c, "createOnce")
        /\ UNCHANGED <<images, held, stale>>
  /\ UNCHANGED <<blobs, labelled>>

CreateOnce(c) ==
  /\ call[c].step = "createOnce"
  /\ \/ /\ images[call[c].name] = NoImage
        /\ Write(call[c].name, call[c].target)
     \/ /\ images[call[c].name] # NoImage
        /\ UNCHANGED images
  /\ Return(c)
  /\ UNCHANGED <<blobs, labelled>>

-----------------------------------------------------------------------------
(* Commit: createDiff, writeContentsForImage *)

\* What can be read of an image: its manifest and its config.
Readable(t) == {Manifest(t), Config(t)} \subseteq blobs

\* The base image's config and manifest are read; l is the diff.
Commit(c, name, base, l) ==
  /\ base # NoName => images[base] # NoImage /\ Readable(images[base])
  /\ LET layers == IF base = NoName THEN {} ELSE images[base]
     IN Begin(c, [Call("commit", "diff", name, layers \cup {l}, base) EXCEPT !.todo = Layers({l})])

CreateDiff(c) ==
  /\ call[c].step = "diff"
  /\ \E b \in call[c].todo : Store(c, b)
  /\ call' = [call EXCEPT ![c].todo = {}, ![c].step = "write"]
  /\ UNCHANGED labelled

\* A manifest is committed together with its labels.
WriteManifest(c) ==
  /\ call[c].step = "write"
  /\ Store(c, Manifest(call[c].target))
  /\ labelled' = labelled \cup {call[c].target}
  /\ Goto(c, "config")

WriteConfig(c) ==
  /\ call[c].step = "config"
  /\ Store(c, Config(call[c].target))
  /\ Goto(c, "updateOnce")
  /\ UNCHANGED labelled

-----------------------------------------------------------------------------
(* Delete; the collector; the end of the process *)

\* delete reads the image's content before it drops it, and fails without it.
Delete(c, name) ==
  /\ images[name] # NoImage /\ Readable(images[name])
  /\ Begin(c, [Call("delete", "drop", name, {}, NoName) EXCEPT !.todo = {}])

DropImage(c) ==
  /\ call[c].step = "drop"
  /\ Write(call[c].name, NoImage)
  /\ Return(c)
  /\ UNCHANGED <<blobs, labelled>>

Stored == {t \in Target : \E name \in Name : images[name] = t}

Roots == {Manifest(t) : t \in Stored} \cup stale \cup UNION {held[c] : c \in Caller}

Marked == Roots \cup UNION {Children(t) : t \in {u \in labelled : Manifest(u) \in Roots}}

\* RunGarbageCollector
CollectGarbage ==
  /\ blobs' = blobs \cap Marked
  /\ labelled' = {t \in labelled : Manifest(t) \in Marked}
  /\ UNCHANGED <<images, held, stale, call>>

Kill ==
  /\ stale = {} /\ \E c \in Caller : call[c] # Idle
  /\ call' = [c \in Caller |-> Idle]
  /\ held' = [c \in Caller |-> {}]
  /\ stale' = UNION {held[c] : c \in Caller}
  /\ UNCHANGED <<blobs, labelled, images>>

\* Leases left behind expire.
Expire ==
  /\ stale # {} /\ stale' = {}
  /\ UNCHANGED <<blobs, labelled, images, held, call>>

-----------------------------------------------------------------------------
Init ==
  /\ blobs = {} /\ labelled = {} /\ stale = {}
  /\ images = [name \in Name |-> NoImage]
  /\ held = [c \in Caller |-> {}]
  /\ call = [c \in Caller |-> Idle]

Step(c) ==
  \/ FetchManifest(c) \/ Label(c) \/ FetchChild(c) \/ CreateImage(c) \/ UpdateImage(c)
  \/ Ingest(c) \/ UpdateOnce(c) \/ CreateOnce(c)
  \/ CreateDiff(c) \/ WriteManifest(c) \/ WriteConfig(c)
  \/ DropImage(c)

Start(c) ==
  \E name \in Name :
     \/ \E t \in Remote[name] : Pull(c, name, t) \/ Import(c, name, t)
     \/ \E base \in Bases, l \in Diff : Commit(c, name, base, l)
     \/ Delete(c, name)

Next ==
  \/ \E c \in Caller : Start(c) \/ Step(c) \/ Fail(c)
  \/ CollectGarbage \/ Kill \/ Expire

\* The scheduler runs a caller that can go on, and requests return.
Fairness == \A c \in Caller : WF_vars(Step(c))

Spec == Init /\ [][Next]_vars

(***************************************************************************)
(* Base images that stay: no other call writes the reference of an image   *)
(* that is being committed on, from when the commit read its manifest      *)
(* until the new image is stored.  Nothing in the code makes sure of it,   *)
(* as "TODO ensure all content for baseImage" (commit.go:166) admits: the  *)
(* base's layers are in no lease, and only the base image keeps them.      *)
(***************************************************************************)
BasesStay ==
  \A c \in Caller :
     call[c].base # NoName /\ call'[c] # Idle => images'[call[c].base] = images[call[c].base]

BasesStaySpec == Init /\ [][Next /\ BasesStay]_vars
FairBasesStaySpec == BasesStaySpec /\ Fairness

-----------------------------------------------------------------------------
(* Properties *)

Complete(t) == Manifest(t) \in blobs /\ t \in labelled /\ Children(t) \subseteq blobs

(***************************************************************************)
(* "Don't gc me" (commit.go:130): a stored image has all of its content,   *)
(* whenever the collector runs and whatever other calls pull, import,      *)
(* commit and delete, or leave behind when killed.  Leases keep blobs that *)
(* no image refers to yet, and the labels of the new manifest keep those   *)
(* of a base image that is deleted once the commit is over.  It holds if   *)
(* no base image is replaced or deleted during the commit (BasesStaySpec), *)
(* and not otherwise.                                                      *)
(***************************************************************************)
ImageComplete == \A name \in Name : images[name] # NoImage => Complete(images[name])

(***************************************************************************)
(* Failed, finished and killed calls leak nothing: when none is running    *)
(* and left leases have expired, the collector leaves no blob but those of *)
(* stored images.  "clean the dirty data after 1 hour" (commit.go:130).    *)
(***************************************************************************)
NothingLeaks ==
  [][CollectGarbage /\ stale = {} /\ (\A c \in Caller : call[c] = Idle) =>
        blobs' \subseteq UNION {{Manifest(t)} \cup Children(t) : t \in Stored}]_vars

(***************************************************************************)
(* If no delete interferes any more, a pull ends: its loop between Create  *)
(* and Update (pull.go:230) is left, whatever other calls store.           *)
(***************************************************************************)
PullEnds ==
  \A c \in Caller :
     <>[](\A d \in Caller : call[d].op # "delete") => []<>(call[c].op # "pull")
==================================================================================
