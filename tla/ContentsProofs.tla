----------------------------- MODULE ContentsProofs -----------------------------
(***************************************************************************)
(* What TLAPS proves about the content store, for any number of callers,   *)
(* references and layers: the garbage collector leaves nothing that no     *)
(* image has, and, if base images stay while they are committed on         *)
(* (BasesStaySpec), it takes no blob from a stored image.                  *)
(*                                                                         *)
(* ImageComplete says nothing about the calls that are under way, and it   *)
(* is their leases that make it true when they store an image.  So the     *)
(* inductive invariant says for every step of a call which blobs its lease *)
(* holds already, which are only reached through the labels of a manifest  *)
(* that it holds, and which still belong to the image it commits on.  The  *)
(* last are where the hypothesis is needed (OthersStaySafe).  That only    *)
(* stored manifests have labels, and leases hold only stored blobs, needs  *)
(* no hypothesis, and comes first (Typed).                                 *)
(***************************************************************************)
EXTENDS Contents, TLAPS

\* The layers of the image that c commits on.
OnBase(c) ==
  IF call[c].base \in Name \ {NoName} /\ images[call[c].base] # NoImage
  THEN Layers(images[call[c].base]) ELSE {}

\* c holds its manifest, and the manifest has its labels.
Kept(c) ==
  /\ Manifest(call[c].target) \in held[c]
  /\ call[c].target \in labelled

\* What c may rely on before each of its steps.
CallSafe(c) ==
  LET t == call[c].target
      todo == call[c].todo
      At(steps) == call[c].step \in steps
  IN /\ At({"manifest"}) => call[c].op = "pull" /\ Children(t) \subseteq todo
     /\ At({"label"}) =>
          /\ Manifest(t) \in held[c]
          /\ IF call[c].op = "pull" THEN Children(t) \subseteq todo
                                     ELSE Children(t) \subseteq held[c]
     /\ At({"children"}) => Kept(c) /\ Children(t) \subseteq held[c] \cup todo
     /\ At({"ingest"}) =>
          call[c].op # "pull" /\ {Manifest(t)} \cup Children(t) \subseteq held[c] \cup todo
     /\ At({"diff"}) =>
          \E l \in Layer : todo = Layers({l}) /\ Layers(t) \subseteq OnBase(c) \cup todo
     /\ At({"write"}) => Layers(t) \subseteq held[c] \cup OnBase(c)
     /\ At({"config"}) => Kept(c) /\ Layers(t) \subseteq blobs
     /\ At({"create", "update", "updateOnce", "createOnce"}) =>
          Kept(c) /\ Children(t) \subseteq blobs

\* The part that concerns the manifest to label.
ManifestHeld(c) ==
  LET manifest == Manifest(call[c].target)
  IN /\ call[c].step = "label" => manifest \in held[c]
     /\ call[c].step = "ingest" => manifest \in held[c] \cup call[c].todo

Typed == TypeOK /\ \A c \in Caller : ManifestHeld(c)

IInv == Typed /\ ImageComplete /\ \A c \in Caller : CallSafe(c)

-----------------------------------------------------------------------------
(* Blobs, and what a step of one call leaves to the others *)

\* Every blob of a manifest is a blob.
LEMMA BlobsOfTarget ==
  ASSUME NEW t \in Target
  PROVE  Manifest(t) \in Blob /\ Config(t) \in Blob /\ Layers(t) \subseteq Blob
         /\ Children(t) \subseteq Blob
BY DEF Manifest, Config, Layers, Children, Blob, Target

\* c adds to the content store and writes no image but the one it names.
Grows(c) ==
  /\ blobs \subseteq blobs' /\ labelled \subseteq labelled'
  /\ \A d \in Caller \ {c} : held'[d] = held[d] /\ call'[d] = call[d]
  /\ \A name \in Name : name # call[c].name => images'[name] = images[name]

\* The base of an idle call is none.
LEMMA IdleFacts ==
  Idle = [op |-> "none", step |-> "idle", name |-> NoName, target |-> {},
          base |-> NoName, todo |-> {}]
BY DEF Idle, Call

\* A call is as safe after another call's step as before, if the image that it
\* commits on is not written.
LEMMA OthersStaySafe ==
  ASSUME IInv, BasesStay, NEW c \in Caller, Grows(c), NEW d \in Caller \ {c}
  PROVE  CallSafe(d)'
<1>1. held'[d] = held[d] /\ call'[d] = call[d]
  BY DEF Grows
<1>2. OnBase(d)' = OnBase(d)
  <2>1. CASE call[d].base = NoName
    BY <1>1, <2>1 DEF OnBase
  <2>2. CASE call[d].base # NoName
    <3>1. call'[d] # Idle
      BY <1>1, <2>2, IdleFacts
    <3> QED BY <1>1, <2>2, <3>1 DEF BasesStay, OnBase
  <2> QED BY <2>1, <2>2
<1>3. Kept(d) => Kept(d)'
  BY <1>1 DEF Kept, Grows
<1>4. CallSafe(d)
  BY DEF IInv
<1> QED BY <1>1, <1>2, <1>3, <1>4 DEF CallSafe, Grows

\* So the invariant holds after a step of c if c itself is safe then, and if
\* what it stores is complete.
LEMMA InvariantAfter ==
  ASSUME IInv, BasesStay, Typed', NEW c \in Caller, Grows(c), CallSafe(c)',
         \A name \in Name : \/ images'[name] \in {images[name], NoImage}
                           \/ Complete(images[name])'
  PROVE  IInv'
<1>1. ImageComplete'
  <2> SUFFICES ASSUME NEW name \in Name, images'[name] # NoImage
               PROVE  Complete(images[name])'
    BY DEF ImageComplete
  <2>1. CASE images'[name] = images[name]
    BY <2>1 DEF IInv, ImageComplete, Complete, Grows
  <2>2. CASE images'[name] # images[name]
    BY <2>2
  <2> QED BY <2>1, <2>2
<1>2. \A d \in Caller : CallSafe(d)'
  BY OthersStaySafe
<1> QED BY <1>1, <1>2 DEF IInv

\* What the operators of a step do to c's record.
LEMMA GotoFacts ==
  ASSUME TypeOK, NEW c \in Caller, NEW step \in Steps, Goto(c, step)
  PROVE  /\ call' \in [Caller -> Calls]
         /\ call'[c].step = step
         /\ call'[c].op = call[c].op /\ call'[c].name = call[c].name
         /\ call'[c].target = call[c].target /\ call'[c].base = call[c].base
         /\ call'[c].todo = call[c].todo
         /\ \A d \in Caller \ {c} : call'[d] = call[d]
BY DEF Goto, TypeOK, Calls

\* An idle call is safe, and ends no other.
LEMMA ReturnFacts ==
  ASSUME TypeOK, NEW c \in Caller, Return(c)
  PROVE  /\ call'[c] = Idle /\ CallSafe(c)' /\ ManifestHeld(c)'
         /\ \A d \in Caller \ {c} : call'[d] = call[d] /\ held'[d] = held[d]
         /\ blobs' = blobs =>
              /\ held' \in [Caller -> SUBSET blobs'] /\ stale' \subseteq blobs'
              /\ call' \in [Caller -> Calls]
<1>1. call'[c] = Idle
  BY DEF Return, TypeOK
<1>2. Idle.step = "idle" /\ Idle \in Calls
  BY IdleFacts DEF Calls, Steps, Target
<1>3. CallSafe(c)' /\ ManifestHeld(c)'
  BY <1>1, <1>2 DEF CallSafe, ManifestHeld
<1> QED BY <1>1, <1>2, <1>3 DEF Return, Released, TypeOK

\* Storing a blob keeps the types of what it changes.
LEMMA StoreFacts ==
  ASSUME TypeOK, NEW c \in Caller, NEW b \in Blob, Store(c, b)
  PROVE  /\ blobs' \subseteq Blob /\ blobs \subseteq blobs'
         /\ held'[c] = held[c] \cup {b} /\ b \in blobs'
         /\ held' \in [Caller -> SUBSET blobs'] /\ stale' \subseteq blobs'
         /\ images' = images
         /\ \A d \in Caller \ {c} : held'[d] = held[d]
BY DEF Store, Hold, TypeOK

-----------------------------------------------------------------------------
(* Types, and the manifests to label *)

\* A blob that was to do is stored and held.
LEMMA FetchedTodo ==
  ASSUME TypeOK, NEW c \in Caller, NEW b \in call[c].todo, Store(c, b), labelled' = labelled,
         call' = [call EXCEPT ![c].todo = @ \ {b}]
  PROVE  /\ Grows(c) /\ TypeOK'
         /\ call'[c] = [call[c] EXCEPT !.todo = @ \ {b}]
         /\ call'[c].step = call[c].step /\ call'[c].op = call[c].op
         /\ call'[c].name = call[c].name /\ call'[c].target = call[c].target
         /\ call'[c].base = call[c].base
         /\ held'[c] \cup call'[c].todo = held[c] \cup call[c].todo
<1>1. b \in Blob
  BY DEF TypeOK, Calls
<1>2. /\ call'[c] = [call[c] EXCEPT !.todo = @ \ {b}]
      /\ call'[c].step = call[c].step /\ call'[c].op = call[c].op
      /\ call'[c].name = call[c].name /\ call'[c].target = call[c].target
      /\ call'[c].base = call[c].base /\ call'[c].todo = call[c].todo \ {b}
      /\ \A d \in Caller \ {c} : call'[d] = call[d]
  BY DEF TypeOK
<1>3. call' \in [Caller -> Calls]
  BY DEF TypeOK, Calls
<1>4. TypeOK'
  BY <1>1, <1>3, StoreFacts DEF TypeOK
<1>5. Grows(c)
  BY <1>1, <1>2, StoreFacts DEF Grows
<1> QED BY <1>1, <1>2, <1>4, <1>5, StoreFacts

LEMMA TypedAfter ==
  ASSUME Typed, TypeOK', NEW c \in Caller, ManifestHeld(c)',
         \A d \in Caller \ {c} : call'[d] = call[d] /\ held'[d] = held[d]
  PROVE  Typed'
BY DEF Typed, ManifestHeld

\* A call that goes on to a step other than the two that count on a manifest.
LEMMA GoingOnTyped ==
  ASSUME Typed, NEW c \in Caller, NEW step \in Steps \ {"label", "ingest"}, Goto(c, step),
         UNCHANGED <<blobs, labelled, held, stale, images>>
  PROVE  Typed'
<1>1. TypeOK
  BY DEF Typed
<1>2. TypeOK'
  BY <1>1, GotoFacts DEF TypeOK
<1>3. ManifestHeld(c)'
  BY <1>1, GotoFacts DEF ManifestHeld
<1> QED BY <1>1, <1>2, <1>3, GotoFacts, TypedAfter

\* A blob is stored, and what is in no image yet is not labelled, or just was.
LEMMA StoringTyped ==
  ASSUME Typed, NEW c \in Caller, NEW b \in Blob, Store(c, b),
         NEW step \in Steps \ {"ingest"}, Goto(c, step),
         step = "label" => b = Manifest(call[c].target),
         \/ labelled' = labelled
         \/ labelled' = labelled \cup {call[c].target} /\ b = Manifest(call[c].target)
  PROVE  Typed'
<1>1. TypeOK /\ call[c].target \in Target
  BY DEF Typed, TypeOK, Calls
<1>2. TypeOK'
  BY <1>1, StoreFacts, GotoFacts DEF TypeOK
<1>3. ManifestHeld(c)'
  BY <1>1, StoreFacts, GotoFacts DEF ManifestHeld
<1> QED BY <1>1, <1>2, <1>3, StoreFacts, GotoFacts, TypedAfter

LEMMA LabelTyped ==
  ASSUME Typed, NEW c \in Caller, Label(c)
  PROVE  Typed'
<1>1. TypeOK /\ {"children", "updateOnce"} \subseteq Steps /\ call[c].target \in Target
  BY DEF Typed, TypeOK, Steps, Calls
<1>2. Manifest(call[c].target) \in held[c] /\ held[c] \subseteq blobs
  BY DEF Label, Typed, ManifestHeld, TypeOK
<1>3. TypeOK'
  BY <1>1, <1>2, GotoFacts DEF Label, TypeOK
<1>4. ManifestHeld(c)'
  BY <1>1, GotoFacts DEF Label, ManifestHeld
<1> QED BY <1>1, <1>3, <1>4, GotoFacts, TypedAfter DEF Label

LEMMA TodoTyped ==
  ASSUME Typed, NEW c \in Caller, FetchChild(c) \/ Ingest(c)
  PROVE  Typed'
<1>1. TypeOK /\ ManifestHeld(c) /\ {"create", "label"} \subseteq Steps /\ labelled' = labelled
  BY DEF Typed, Steps, FetchChild, Ingest
<1>2. ASSUME NEW b \in call[c].todo, Store(c, b), call' = [call EXCEPT ![c].todo = @ \ {b}]
      PROVE  Typed'
  <2>1. call[c].step # "label"
    BY DEF FetchChild, Ingest
  <2>2. ManifestHeld(c)'
    BY <1>1, <1>2, <2>1, FetchedTodo DEF ManifestHeld
  <2> QED BY <1>1, <1>2, <2>2, FetchedTodo, TypedAfter DEF Grows
<1>3. ASSUME FetchChild(c), Goto(c, "create"), UNCHANGED <<blobs, held, images, stale>>
      PROVE  Typed'
  BY <1>1, <1>3, GoingOnTyped
<1>4. ASSUME Ingest(c), call[c].todo = {}, Goto(c, "label"), UNCHANGED <<blobs, held, images, stale>>
      PROVE  Typed'
  <2>1. Manifest(call[c].target) \in held[c]
    BY <1>1, <1>4 DEF Ingest, ManifestHeld
  <2>2. TypeOK'
    BY <1>1, <1>4, GotoFacts DEF TypeOK
  <2>3. ManifestHeld(c)'
    BY <1>1, <1>4, <2>1, GotoFacts DEF ManifestHeld
  <2> QED BY <1>1, <1>4, <2>2, <2>3, GotoFacts, TypedAfter
<1> QED BY <1>2, <1>3, <1>4 DEF FetchChild, Ingest

LEMMA CreateDiffTyped ==
  ASSUME Typed, NEW c \in Caller, CreateDiff(c)
  PROVE  Typed'
<1>1. TypeOK /\ labelled' = labelled /\ {"write"} \subseteq Steps
  BY DEF Typed, CreateDiff, Steps
<1>2. PICK b \in call[c].todo : Store(c, b)
  BY DEF CreateDiff
<1>3. b \in Blob
  BY <1>1, <1>2 DEF TypeOK, Calls
<1>4. /\ call'[c].step = "write" /\ call' \in [Caller -> Calls]
      /\ \A d \in Caller \ {c} : call'[d] = call[d]
  BY <1>1 DEF CreateDiff, TypeOK, Calls
<1>5. TypeOK'
  BY <1>1, <1>2, <1>3, <1>4, StoreFacts DEF TypeOK
<1>6. ManifestHeld(c)'
  BY <1>4 DEF ManifestHeld
<1> QED BY <1>1, <1>2, <1>3, <1>4, <1>5, <1>6, StoreFacts, TypedAfter

\* A call ends, its image written or not.
LEMMA ReturnTyped ==
  ASSUME Typed, NEW c \in Caller, Return(c), UNCHANGED <<blobs, labelled>>,
         \/ UNCHANGED images
         \/ Write(call[c].name, call[c].target)
         \/ Write(call[c].name, NoImage)
  PROVE  Typed'
<1>1. TypeOK
  BY DEF Typed
<1>2. images' \in [Name -> Target \cup {NoImage}]
  BY <1>1 DEF Write, TypeOK, Calls
<1>3. TypeOK'
  BY <1>1, <1>2, ReturnFacts DEF TypeOK
<1> QED BY <1>1, <1>3, ReturnFacts, TypedAfter

LEMMA StepTyped ==
  ASSUME Typed, NEW c \in Caller, Step(c) \/ Fail(c)
  PROVE  Typed'
<1>1. /\ call[c].target \in Target /\ Manifest(call[c].target) \in Blob
      /\ Config(call[c].target) \in Blob
  BY BlobsOfTarget DEF Typed, TypeOK, Calls
<1>2. {"label", "config", "updateOnce", "create", "update", "createOnce"} \subseteq Steps \ {"ingest"}
  BY DEF Steps
<1>3. CASE FetchManifest(c) \/ WriteManifest(c) \/ WriteConfig(c)
  BY <1>1, <1>2, <1>3, StoringTyped DEF FetchManifest, WriteManifest, WriteConfig
<1>4. CASE CreateImage(c) \/ UpdateImage(c) \/ UpdateOnce(c) \/ CreateOnce(c) \/ DropImage(c)
  <2>1. \/ /\ Return(c) /\ UNCHANGED <<blobs, labelled>>
           /\ \/ UNCHANGED images
              \/ Write(call[c].name, call[c].target)
              \/ Write(call[c].name, NoImage)
        \/ \E step \in Steps \ {"label", "ingest"} :
              Goto(c, step) /\ UNCHANGED <<blobs, labelled, held, stale, images>>
    BY <1>2, <1>4 DEF CreateImage, UpdateImage, UpdateOnce, CreateOnce, DropImage, Missing
  <2> QED BY <2>1, ReturnTyped, GoingOnTyped
<1>5. CASE Fail(c)
  BY <1>5, ReturnTyped DEF Fail
<1> QED BY <1>3, <1>4, <1>5, LabelTyped, TodoTyped, CreateDiffTyped DEF Step

\* What calls begin with.
Fresh(new) ==
  /\ new \in Calls /\ new.step \in {"manifest", "ingest", "diff", "drop"}
  /\ new.step = "manifest" => new.op = "pull" /\ Children(new.target) \subseteq new.todo
  /\ new.step = "ingest" =>
       new.op # "pull" /\ {Manifest(new.target)} \cup Children(new.target) \subseteq new.todo
  /\ new.step = "diff" =>
       \E l \in Layer : /\ new.todo = Layers({l})
                        /\ \A b \in Layers(new.target) \ new.todo :
                              /\ new.base \in Name \ {NoName} /\ images[new.base] # NoImage
                              /\ b \in Layers(images[new.base])

LEMMA StartsFresh ==
  ASSUME TypeOK, NEW c \in Caller, Start(c)
  PROVE  \E new : Fresh(new) /\ Begin(c, new)
<1>1. {"manifest", "ingest", "diff", "drop"} \subseteq Steps
  BY DEF Steps
<1>2. PICK name \in Name :
        \/ \E t \in Remote[name] : Pull(c, name, t) \/ Import(c, name, t)
        \/ \E base \in Bases, l \in Diff : Commit(c, name, base, l)
        \/ Delete(c, name)
  BY DEF Start
<1>3. ASSUME NEW t \in Remote[name], Pull(c, name, t) PROVE \E new : Fresh(new) /\ Begin(c, new)
  <2>1. t \in Target
    BY InputsAssumption DEF Target
  <2>2. Children(t) \subseteq Blob
    BY <2>1, BlobsOfTarget
  <2> DEFINE new == Call("pull", "manifest", name, t, NoName)
  <2>3. new = [op |-> "pull", step |-> "manifest", name |-> name, target |-> t,
               base |-> NoName, todo |-> Children(t)]
    BY DEF Call
  <2>4. Begin(c, new)
    BY <1>3 DEF Pull
  <2> HIDE DEF new
  <2>5. Fresh(new)
    BY <1>1, <2>1, <2>2, <2>3 DEF Calls, Fresh
  <2> QED BY <2>4, <2>5
<1>4. ASSUME NEW t \in Remote[name], Import(c, name, t) PROVE \E new : Fresh(new) /\ Begin(c, new)
  <2>1. t \in Target
    BY InputsAssumption DEF Target
  <2>2. Children(t) \cup {Manifest(t)} \subseteq Blob
    BY <2>1, BlobsOfTarget
  <2> DEFINE new == [Call("import", "ingest", name, t, NoName) EXCEPT !.todo = @ \cup {Manifest(t)}]
  <2>3. new = [op |-> "import", step |-> "ingest", name |-> name, target |-> t,
               base |-> NoName, todo |-> Children(t) \cup {Manifest(t)}]
    BY DEF Call
  <2>4. Begin(c, new)
    BY <1>4 DEF Import
  <2> HIDE DEF new
  <2>5. Fresh(new)
    BY <1>1, <2>1, <2>2, <2>3 DEF Calls, Fresh
  <2> QED BY <2>4, <2>5
<1>5. ASSUME NEW base \in Bases, NEW l \in Diff, Commit(c, name, base, l)
      PROVE  \E new : Fresh(new) /\ Begin(c, new)
  <2> DEFINE layers == IF base = NoName THEN {} ELSE images[base]
             new == [Call("commit", "diff", name, layers \cup {l}, base) EXCEPT !.todo = Layers({l})]
  <2>1. l \in Layer /\ base \in Name \cup {NoName}
    BY InputsAssumption
  <2>2. layers \in Target /\ (base # NoName => images[base] # NoImage)
    BY <1>1, <1>5, <2>1 DEF Commit, TypeOK, Target
  <2>3. layers \cup {l} \in Target /\ {l} \in Target
    BY <2>1, <2>2 DEF Target
  <2>4. Layers({l}) \subseteq Blob
    BY <2>3, BlobsOfTarget
  <2>5. new = [op |-> "commit", step |-> "diff", name |-> name, target |-> layers \cup {l},
               base |-> base, todo |-> Layers({l})]
    BY DEF Call
  <2>6. Begin(c, new)
    BY <1>5 DEF Commit
  <2>7. Layers(layers \cup {l}) \ Layers({l}) \subseteq Layers(layers)
    BY DEF Layers
  <2>8. base = NoName => Layers(layers) = {}
    BY DEF Layers
  <2>9. base # NoName => layers = images[base]
    OBVIOUS
  <2> HIDE DEF new, layers
  <2>10. \A b \in Layers(layers \cup {l}) \ Layers({l}) :
            /\ base \in Name \ {NoName} /\ images[base] # NoImage
            /\ b \in Layers(images[base])
    BY <2>1, <2>2, <2>7, <2>8, <2>9
  <2>11. new \in Calls
    BY <1>1, <2>1, <2>3, <2>4, <2>5 DEF Calls
  <2>12. Fresh(new)
    BY <2>1, <2>5, <2>10, <2>11 DEF Fresh
  <2> QED BY <2>6, <2>12
<1>6. ASSUME Delete(c, name) PROVE \E new : Fresh(new) /\ Begin(c, new)
  <2>1. {} \in Target
    BY DEF Target
  <2> DEFINE new == [Call("delete", "drop", name, {}, NoName) EXCEPT !.todo = {}]
  <2>2. new = [op |-> "delete", step |-> "drop", name |-> name, target |-> {},
               base |-> NoName, todo |-> {}]
    BY DEF Call
  <2>3. Begin(c, new)
    BY <1>6 DEF Delete
  <2> HIDE DEF new
  <2>4. Fresh(new)
    BY <1>1, <2>1, <2>2 DEF Calls, Fresh
  <2> QED BY <2>3, <2>4
<1> QED BY <1>2, <1>3, <1>4, <1>5, <1>6

LEMMA StartTyped ==
  ASSUME Typed, NEW c \in Caller, Start(c)
  PROVE  Typed'
<1>1. PICK new : Fresh(new) /\ Begin(c, new)
  BY StartsFresh DEF Typed
<1>2. TypeOK /\ UNCHANGED <<blobs, labelled, images, held, stale>>
  BY <1>1 DEF Typed, Begin
<1>3. call'[c] = new /\ \A d \in Caller \ {c} : call'[d] = call[d]
  BY <1>1, <1>2 DEF Begin, TypeOK
<1>4. TypeOK'
  BY <1>1, <1>2 DEF Begin, Fresh, TypeOK
<1>5. ManifestHeld(c)'
  BY <1>1, <1>3 DEF Fresh, ManifestHeld
<1> QED BY <1>2, <1>3, <1>4, <1>5, TypedAfter

LEMMA ProcessTyped ==
  ASSUME Typed, CollectGarbage \/ Kill \/ Expire \/ UNCHANGED vars
  PROVE  Typed'
<1>1. CASE CollectGarbage
  <2>1. TypeOK /\ blobs' = blobs \cap Marked /\ UNCHANGED <<images, held, stale, call>>
    BY <1>1 DEF Typed, CollectGarbage
  <2>2. stale \subseteq blobs' /\ held' \in [Caller -> SUBSET blobs']
    BY <2>1 DEF TypeOK, Marked, Roots
  <2>3. labelled' \subseteq Target /\ \A t \in labelled' : Manifest(t) \in blobs'
    BY <1>1, <2>1 DEF TypeOK, CollectGarbage
  <2>4. TypeOK'
    BY <2>1, <2>2, <2>3 DEF TypeOK
  <2> QED BY <2>1, <2>4 DEF Typed, ManifestHeld
<1>2. CASE Kill
  <2>1. Idle \in Calls
    BY IdleFacts DEF Calls, Steps, Target
  <2>2. TypeOK'
    BY <1>2, <2>1 DEF Kill, Typed, TypeOK
  <2>3. \A c \in Caller : ManifestHeld(c)'
    <3> SUFFICES ASSUME NEW c \in Caller PROVE ManifestHeld(c)'
      OBVIOUS
    <3>1. call'[c] = Idle /\ Idle.step = "idle"
      BY <1>2, IdleFacts DEF Kill
    <3> QED BY <3>1 DEF ManifestHeld
  <2> QED BY <2>2, <2>3 DEF Typed
<1>3. CASE Expire \/ UNCHANGED vars
  BY <1>3 DEF Expire, vars, Typed, TypeOK, ManifestHeld
<1> QED BY <1>1, <1>2, <1>3

LEMMA NextTyped ==
  ASSUME Typed, [Next]_vars
  PROVE  Typed'
BY StepTyped, StartTyped, ProcessTyped DEF Next

LEMMA InitTyped == Init => Typed
<1> SUFFICES ASSUME Init PROVE Typed
  OBVIOUS
<1>1. Idle \in Calls /\ Idle.step = "idle"
  BY IdleFacts DEF Calls, Steps, Target
<1>2. TypeOK
  BY <1>1 DEF Init, TypeOK
<1> QED BY <1>1, <1>2 DEF Init, Typed, ManifestHeld

(***************************************************************************)
(* Leases hold only what is stored, and only stored manifests have labels, *)
(* whatever is collected (ociStore.go:145).                                *)
(***************************************************************************)
THEOREM TypeCorrect == Spec => []TypeOK
<1>1. Typed => TypeOK
  BY DEF Typed
<1> QED BY <1>1, InitTyped, NextTyped, PTL DEF Spec

-----------------------------------------------------------------------------
(* Pulls *)

LEMMA FetchManifestSafe ==
  ASSUME IInv, BasesStay, Typed', NEW c \in Caller, FetchManifest(c)
  PROVE  IInv'
<1> DEFINE t == call[c].target
<1>1. TypeOK /\ CallSafe(c) /\ "label" \in Steps /\ t \in Target
  BY DEF IInv, Typed, TypeOK, Steps, Calls
<1>2. Manifest(t) \in Blob
  BY <1>1, BlobsOfTarget
<1>3. Grows(c)
  BY <1>1, <1>2, StoreFacts, GotoFacts DEF FetchManifest, Grows
<1>4. CallSafe(c)'
  BY <1>1, <1>2, StoreFacts, GotoFacts DEF FetchManifest, CallSafe
<1> QED BY <1>1, <1>2, <1>3, <1>4, InvariantAfter, StoreFacts, GotoFacts DEF FetchManifest

LEMMA LabelSafe ==
  ASSUME IInv, BasesStay, Typed', NEW c \in Caller, Label(c)
  PROVE  IInv'
<1> DEFINE t == call[c].target
<1>1. TypeOK /\ CallSafe(c) /\ {"children", "updateOnce"} \subseteq Steps /\ t \in Target
  BY DEF IInv, Typed, TypeOK, Steps, Calls
<1>2. Manifest(t) \in held[c] /\ held[c] \subseteq blobs
  BY <1>1 DEF Label, CallSafe, TypeOK
<1>3. Grows(c)
  BY <1>1, GotoFacts DEF Label, Grows
<1>4. CallSafe(c)'
  BY <1>1, <1>2, GotoFacts DEF Label, CallSafe, Kept
<1> QED BY <1>1, <1>3, <1>4, InvariantAfter, GotoFacts DEF Label

LEMMA FetchChildSafe ==
  ASSUME IInv, BasesStay, Typed', NEW c \in Caller, FetchChild(c)
  PROVE  IInv'
<1>1. TypeOK /\ CallSafe(c) /\ "create" \in Steps
  BY DEF IInv, Typed, Steps
<1>2. Kept(c) /\ Children(call[c].target) \subseteq held[c] \cup call[c].todo
  BY <1>1 DEF FetchChild, CallSafe
<1>3. ASSUME NEW b \in call[c].todo, Store(c, b), call' = [call EXCEPT ![c].todo = @ \ {b}]
      PROVE  IInv'
  <2>1. labelled' = labelled /\ call[c].step = "children"
    BY DEF FetchChild
  <2>2. CallSafe(c)'
    BY <1>1, <1>2, <1>3, <2>1, FetchedTodo, StoreFacts DEF CallSafe, Kept, TypeOK, Calls
  <2> QED BY <1>1, <1>3, <2>1, <2>2, FetchedTodo, InvariantAfter DEF Store
<1>4. ASSUME call[c].todo = {}, Goto(c, "create"), UNCHANGED <<blobs, held, images, stale>>
      PROVE  IInv'
  <2>1. labelled' = labelled
    BY DEF FetchChild
  <2>2. Grows(c)
    BY <1>1, <1>4, <2>1, GotoFacts DEF Grows
  <2>3. Children(call[c].target) \subseteq blobs
    BY <1>1, <1>2, <1>4 DEF TypeOK
  <2>4. CallSafe(c)'
    BY <1>1, <1>2, <1>4, <2>1, <2>3, GotoFacts DEF CallSafe, Kept
  <2> QED BY <1>1, <1>4, <2>2, <2>4, GotoFacts, InvariantAfter
<1> QED BY <1>3, <1>4 DEF FetchChild

-----------------------------------------------------------------------------
(* Writing an image *)

\* A call may end by storing its image once all of it is there.
LEMMA StoringSafe ==
  ASSUME IInv, BasesStay, Typed', NEW c \in Caller, Complete(call[c].target),
         Write(call[c].name, call[c].target) \/ UNCHANGED images,
         Return(c), UNCHANGED <<blobs, labelled>>
  PROVE  IInv'
<1>1. TypeOK
  BY DEF IInv, Typed
<1>2. images' \in [Name -> Target \cup {NoImage}]
  BY <1>1 DEF Write, TypeOK, Calls
<1>3. Grows(c)
  BY <1>1, ReturnFacts DEF Grows, Write, TypeOK, Calls
<1>4. \A name \in Name : images'[name] = images[name] \/ images'[name] = call[c].target
  BY <1>1 DEF Write, TypeOK
<1>5. \A name \in Name : \/ images'[name] \in {images[name], NoImage}
                        \/ Complete(images[name])'
  BY <1>4 DEF Complete
<1>6. call'[c] = Idle /\ CallSafe(c)'
  BY <1>1, ReturnFacts
<1> QED BY <1>3, <1>5, <1>6, InvariantAfter

\* Or it looks again whether the image is there.
LEMMA RetryingSafe ==
  ASSUME IInv, BasesStay, Typed', NEW c \in Caller,
         NEW step \in {"create", "update", "updateOnce", "createOnce"},
         call[c].step \in {"create", "update", "updateOnce", "createOnce"}, Goto(c, step),
         UNCHANGED <<blobs, labelled, images, held, stale>>
  PROVE  IInv'
<1>1. TypeOK /\ CallSafe(c) /\ step \in Steps
  BY DEF IInv, Typed, Steps
<1>2. Grows(c)
  BY <1>1, GotoFacts DEF Grows
<1>3. CallSafe(c)'
  BY <1>1, GotoFacts DEF CallSafe, Kept
<1> QED BY <1>1, <1>2, <1>3, GotoFacts, InvariantAfter

LEMMA WritingSafe ==
  ASSUME IInv, BasesStay, Typed', NEW c \in Caller,
         CreateImage(c) \/ UpdateImage(c) \/ UpdateOnce(c) \/ CreateOnce(c)
  PROVE  IInv'
<1>1. TypeOK /\ CallSafe(c)
  BY DEF IInv, Typed
<1>2. call[c].step \in {"create", "update", "updateOnce", "createOnce"}
  BY DEF CreateImage, UpdateImage, UpdateOnce, CreateOnce
<1>3. Complete(call[c].target)
  BY <1>1, <1>2 DEF CallSafe, Kept, Complete, TypeOK
<1>4. Missing = "create"
  BY DEF Missing
<1> QED BY <1>2, <1>3, <1>4, StoringSafe, RetryingSafe
       DEF CreateImage, UpdateImage, UpdateOnce, CreateOnce

-----------------------------------------------------------------------------
(* Imports *)

LEMMA IngestSafe ==
  ASSUME IInv, BasesStay, Typed', NEW c \in Caller, Ingest(c)
  PROVE  IInv'
<1> DEFINE t == call[c].target
<1>1. TypeOK /\ CallSafe(c) /\ "label" \in Steps
  BY DEF IInv, Typed, Steps
<1>2. /\ call[c].step = "ingest" /\ call[c].op # "pull"
      /\ {Manifest(t)} \cup Children(t) \subseteq held[c] \cup call[c].todo
  BY <1>1 DEF Ingest, CallSafe
<1>3. ASSUME NEW b \in call[c].todo, Store(c, b), call' = [call EXCEPT ![c].todo = @ \ {b}]
      PROVE  IInv'
  <2>1. labelled' = labelled
    BY DEF Ingest
  <2>2. CallSafe(c)'
    BY <1>1, <1>2, <1>3, <2>1, FetchedTodo DEF CallSafe
  <2> QED BY <1>1, <1>3, <2>1, <2>2, FetchedTodo, InvariantAfter DEF Store
<1>4. ASSUME call[c].todo = {}, Goto(c, "label"), UNCHANGED <<blobs, held, images, stale>>
      PROVE  IInv'
  <2>1. labelled' = labelled
    BY DEF Ingest
  <2>2. Grows(c)
    BY <1>1, <1>4, <2>1, GotoFacts DEF Grows
  <2>3. CallSafe(c)'
    BY <1>1, <1>2, <1>4, GotoFacts DEF CallSafe
  <2> QED BY <1>1, <1>4, <2>2, <2>3, GotoFacts, InvariantAfter
<1> QED BY <1>3, <1>4 DEF Ingest

-----------------------------------------------------------------------------
(* Commits *)

\* The layers of the image committed on are in the content store.
LEMMA BaseStored ==
  ASSUME IInv, NEW c \in Caller
  PROVE  OnBase(c) \subseteq blobs
BY DEF IInv, ImageComplete, Complete, OnBase, Children

LEMMA CreateDiffSafe ==
  ASSUME IInv, BasesStay, Typed', NEW c \in Caller, CreateDiff(c)
  PROVE  IInv'
<1>1. TypeOK /\ CallSafe(c) /\ "write" \in Steps /\ labelled' = labelled
  BY DEF IInv, Typed, Steps, CreateDiff
<1>2. PICK b \in call[c].todo : Store(c, b)
  BY DEF CreateDiff
<1>3. b \in Blob
  BY <1>1, <1>2 DEF TypeOK, Calls
<1>4. PICK l \in Layer : /\ call[c].todo = Layers({l})
                         /\ Layers(call[c].target) \subseteq OnBase(c) \cup call[c].todo
  BY <1>1 DEF CreateDiff, CallSafe
<1>5. call[c].todo = {b}
  BY <1>2, <1>4 DEF Layers
<1>6. /\ call'[c].step = "write"
      /\ call'[c].name = call[c].name /\ call'[c].target = call[c].target
      /\ call'[c].base = call[c].base
      /\ \A d \in Caller \ {c} : call'[d] = call[d]
  BY <1>1 DEF CreateDiff, TypeOK
<1>7. call' \in [Caller -> Calls]
  BY <1>1 DEF CreateDiff, TypeOK, Calls
<1>8. Grows(c)
  BY <1>1, <1>2, <1>3, <1>6, StoreFacts DEF Grows
<1>9. OnBase(c)' = OnBase(c)
  BY <1>1, <1>2, <1>3, <1>6, StoreFacts DEF OnBase
<1>10. call[c].todo \subseteq held'[c]
  BY <1>1, <1>2, <1>3, <1>5, StoreFacts
<1>11. Layers(call'[c].target) \subseteq held'[c] \cup OnBase(c)'
  BY <1>4, <1>6, <1>9, <1>10
<1>12. CallSafe(c)'
  BY <1>6, <1>11 DEF CallSafe
<1> QED BY <1>1, <1>2, <1>3, <1>6, <1>8, <1>12, StoreFacts, InvariantAfter

LEMMA WriteManifestSafe ==
  ASSUME IInv, BasesStay, Typed', NEW c \in Caller, WriteManifest(c)
  PROVE  IInv'
<1> DEFINE t == call[c].target
<1>1. TypeOK /\ CallSafe(c) /\ "config" \in Steps /\ t \in Target
  BY DEF IInv, Typed, TypeOK, Steps, Calls
<1>2. Manifest(t) \in Blob
  BY <1>1, BlobsOfTarget
<1>3. Layers(t) \subseteq blobs
  BY <1>1, BaseStored DEF WriteManifest, CallSafe, TypeOK
<1>4. Grows(c)
  BY <1>1, <1>2, StoreFacts, GotoFacts DEF WriteManifest, Grows
<1>5. CallSafe(c)'
  BY <1>1, <1>2, <1>3, StoreFacts, GotoFacts DEF WriteManifest, CallSafe, Kept
<1> QED BY <1>1, <1>2, <1>4, <1>5, InvariantAfter, StoreFacts, GotoFacts DEF WriteManifest

LEMMA WriteConfigSafe ==
  ASSUME IInv, BasesStay, Typed', NEW c \in Caller, WriteConfig(c)
  PROVE  IInv'
<1> DEFINE t == call[c].target
<1>1. TypeOK /\ CallSafe(c) /\ "updateOnce" \in Steps /\ t \in Target
  BY DEF IInv, Typed, TypeOK, Steps, Calls
<1>2. Config(t) \in Blob
  BY <1>1, BlobsOfTarget
<1>3. Kept(c) /\ Layers(t) \subseteq blobs
  BY <1>1 DEF WriteConfig, CallSafe
<1>4. Grows(c)
  BY <1>1, <1>2, StoreFacts, GotoFacts DEF WriteConfig, Grows
<1>5. CallSafe(c)'
  BY <1>1, <1>2, <1>3, StoreFacts, GotoFacts DEF WriteConfig, CallSafe, Kept, Children
<1> QED BY <1>1, <1>2, <1>4, <1>5, InvariantAfter, StoreFacts, GotoFacts DEF WriteConfig

-----------------------------------------------------------------------------
(* Deletions, failures, and the start of a call *)

LEMMA EndingSafe ==
  ASSUME IInv, BasesStay, Typed', NEW c \in Caller, DropImage(c) \/ Fail(c)
  PROVE  IInv'
<1>1. TypeOK /\ Return(c) /\ UNCHANGED <<blobs, labelled>>
  BY DEF IInv, Typed, DropImage, Fail
<1>2. images' = images \/ images' = [images EXCEPT ![call[c].name] = NoImage]
  BY DEF DropImage, Fail, Write
<1>3. Grows(c)
  BY <1>1, <1>2, ReturnFacts DEF Grows, TypeOK
<1>4. \A name \in Name : images'[name] \in {images[name], NoImage}
  BY <1>1, <1>2 DEF TypeOK
<1>5. call'[c] = Idle /\ CallSafe(c)'
  BY <1>1, ReturnFacts
<1> QED BY <1>3, <1>4, <1>5, InvariantAfter

LEMMA StartSafe ==
  ASSUME IInv, Typed', NEW c \in Caller, Start(c)
  PROVE  IInv'
<1>1. PICK new : Fresh(new) /\ Begin(c, new)
  BY StartsFresh DEF IInv, Typed
<1>2. TypeOK /\ UNCHANGED <<blobs, labelled, images, held, stale>>
  BY <1>1 DEF IInv, Typed, Begin
<1>3. call'[c] = new /\ \A d \in Caller \ {c} : call'[d] = call[d]
  BY <1>1, <1>2 DEF Begin, TypeOK
<1>4. ImageComplete'
  BY <1>2 DEF IInv, ImageComplete, Complete
<1>5. CallSafe(c)'
  BY <1>1, <1>2, <1>3 DEF Fresh, CallSafe, OnBase
<1>6. ASSUME NEW d \in Caller \ {c} PROVE CallSafe(d)'
  BY <1>2, <1>3 DEF IInv, CallSafe, OnBase, Kept
<1> QED BY <1>4, <1>5, <1>6 DEF IInv

-----------------------------------------------------------------------------
(* The collector, and the end of the process *)

\* The blobs of a labelled manifest that something refers to are kept.
LEMMA RootsComplete ==
  ASSUME TypeOK, CollectGarbage, NEW t \in labelled, Manifest(t) \in Roots
  PROVE  /\ t \in labelled'
         /\ \A b \in blobs : b \in {Manifest(t)} \cup Children(t) => b \in blobs'
BY DEF CollectGarbage, Marked, TypeOK

LEMMA CollectSafe ==
  ASSUME IInv, Typed', CollectGarbage
  PROVE  IInv'
<1>1. TypeOK /\ blobs' = blobs \cap Marked /\ UNCHANGED <<images, held, stale, call>>
  BY DEF IInv, Typed, CollectGarbage
<1>2. ImageComplete'
  <2> SUFFICES ASSUME NEW name \in Name, images[name] # NoImage
               PROVE  Complete(images[name])'
    BY <1>1 DEF ImageComplete
  <2> DEFINE t == images[name]
  <2>1. Complete(t) /\ t \in Target
    BY <1>1 DEF IInv, ImageComplete, TypeOK
  <2>2. Manifest(t) \in Roots
    BY <2>1 DEF Roots, Stored
  <2>3. t \in labelled' /\ {Manifest(t)} \cup Children(t) \subseteq blobs'
    BY <1>1, <2>1, <2>2, RootsComplete DEF Complete
  <2> QED BY <1>1, <2>3 DEF Complete
<1>3. ASSUME NEW c \in Caller PROVE CallSafe(c)'
  <2> DEFINE t == call[c].target
  <2>1. CallSafe(c) /\ OnBase(c)' = OnBase(c)
    BY <1>1 DEF IInv, OnBase
  <2>2. Kept(c) => /\ Kept(c)'
                   /\ \A b \in blobs : b \in Children(t) => b \in blobs'
    <3>1. Manifest(t) \in held[c] => Manifest(t) \in Roots
      BY DEF Roots
    <3> QED BY <1>1, <3>1, RootsComplete DEF Kept
  <2>3. Layers(t) \subseteq Children(t)
    BY DEF Children
  <2> QED BY <1>1, <2>1, <2>2, <2>3 DEF CallSafe
<1> QED BY <1>2, <1>3 DEF IInv

LEMMA ProcessSafe ==
  ASSUME IInv, Typed', Kill \/ Expire \/ UNCHANGED vars
  PROVE  IInv'
<1>1. UNCHANGED <<blobs, labelled, images>>
  BY DEF Kill, Expire, vars
<1>2. ImageComplete'
  BY <1>1 DEF IInv, ImageComplete, Complete
<1>3. ASSUME NEW c \in Caller PROVE CallSafe(c)'
  <2>1. CASE Kill
    <3>1. call'[c] = Idle /\ Idle.step = "idle"
      BY <2>1, IdleFacts DEF Kill
    <3> QED BY <3>1 DEF CallSafe
  <2>2. CASE Expire \/ UNCHANGED vars
    <3>1. held' = held /\ call' = call
      BY <2>2 DEF Expire, vars
    <3>2. OnBase(c)' = OnBase(c) /\ Kept(c)' = Kept(c)
      BY <1>1, <3>1 DEF OnBase, Kept
    <3>3. CallSafe(c)
      BY DEF IInv
    <3> QED BY <1>1, <3>1, <3>2, <3>3 DEF CallSafe
  <2> QED BY <2>1, <2>2
<1> QED BY <1>2, <1>3 DEF IInv

-----------------------------------------------------------------------------
(* Images stay complete *)

LEMMA InitSafe == Init => IInv
<1> SUFFICES ASSUME Init PROVE IInv
  OBVIOUS
<1>1. ImageComplete
  BY DEF Init, ImageComplete
<1>2. \A c \in Caller : CallSafe(c)
  BY IdleFacts DEF Init, CallSafe
<1> QED BY <1>1, <1>2, InitTyped DEF IInv

LEMMA NextSafe ==
  ASSUME IInv, [Next /\ BasesStay]_vars
  PROVE  IInv'
<1>1. Typed'
  BY NextTyped DEF IInv
<1>2. ASSUME NEW c \in Caller, BasesStay, Step(c) PROVE IInv'
  BY <1>1, <1>2, FetchManifestSafe, LabelSafe, FetchChildSafe, WritingSafe, IngestSafe,
     CreateDiffSafe, WriteManifestSafe, WriteConfigSafe, EndingSafe DEF Step
<1> QED BY <1>1, <1>2, StartSafe, EndingSafe, CollectSafe, ProcessSafe DEF Next

(***************************************************************************)
(* The collector takes nothing from an image, if no call replaces or       *)
(* deletes a base image while another commits on it (BasesStaySpec): the   *)
(* leases of pull, import and Commit keep what they write until the image  *)
(* is stored, and what a commit builds on is kept by its base image.       *)
(***************************************************************************)
THEOREM ImagesStayComplete == BasesStaySpec => []ImageComplete
<1>1. IInv => ImageComplete
  BY DEF IInv
<1> QED BY <1>1, InitSafe, NextSafe, PTL DEF BasesStaySpec

-----------------------------------------------------------------------------
(* What is left when all calls are over *)

\* A lease is deleted, or left behind, when its call is over.
LeasesEnd == \A c \in Caller : call[c].step = "idle" => held[c] = {}

\* A step of c leaves the other calls and their leases alone.
LEMMA StepEnds ==
  ASSUME TypeOK, LeasesEnd, NEW c \in Caller, call'[c].step = "idle" => held'[c] = {},
         \A d \in Caller \ {c} : call'[d] = call[d] /\ held'[d] = held[d]
  PROVE  LeasesEnd'
BY DEF LeasesEnd

LEMMA ReturnEnds ==
  ASSUME TypeOK, LeasesEnd, NEW c \in Caller, Return(c)
  PROVE  LeasesEnd'
<1>1. held'[c] = {}
  BY DEF Return, Released, TypeOK
<1> QED BY <1>1, ReturnFacts, StepEnds

LEMMA GotoEnds ==
  ASSUME TypeOK, LeasesEnd, NEW c \in Caller, NEW step \in Steps \ {"idle"}, Goto(c, step),
         held' = held \/ \E b \in Blob : Store(c, b)
  PROVE  LeasesEnd'
<1>1. \A d \in Caller \ {c} : held'[d] = held[d]
  BY StoreFacts
<1> QED BY <1>1, GotoFacts, StepEnds

\* A blob is stored, and it is not yet the last.
LEMMA TodoEnds ==
  ASSUME TypeOK, LeasesEnd, NEW c \in Caller, NEW b \in call[c].todo, Store(c, b),
         call' = [call EXCEPT ![c].todo = @ \ {b}], call[c].step # "idle"
  PROVE  LeasesEnd'
<1>1. b \in Blob
  BY DEF TypeOK, Calls
<1>2. call'[c].step = call[c].step /\ \A d \in Caller \ {c} : call'[d] = call[d]
  BY DEF TypeOK, Calls
<1> QED BY <1>1, <1>2, StoreFacts, StepEnds

LEMMA CallEnds ==
  ASSUME TypeOK, LeasesEnd, NEW c \in Caller, Step(c)
  PROVE  LeasesEnd'
<1> DEFINE t == call[c].target
<1>1. /\ t \in Target /\ Manifest(t) \in Blob /\ Config(t) \in Blob
      /\ call[c].todo \subseteq Blob
  BY BlobsOfTarget DEF TypeOK, Calls
<1>2. {"label", "children", "create", "update", "updateOnce", "createOnce", "write",
       "config"} \subseteq Steps \ {"idle"}
  BY DEF Steps
<1>3. CASE FetchManifest(c) \/ WriteManifest(c) \/ WriteConfig(c)
  <2>1. \E step \in Steps \ {"idle"} : Goto(c, step) /\ \E b \in Blob : Store(c, b)
    BY <1>1, <1>2, <1>3 DEF FetchManifest, WriteManifest, WriteConfig
  <2> QED BY <2>1, GotoEnds
<1>4. CASE Label(c)
  <2>1. \E step \in Steps \ {"idle"} : Goto(c, step) /\ held' = held
    BY <1>2, <1>4 DEF Label
  <2> QED BY <2>1, GotoEnds
<1>5. CASE FetchChild(c) \/ Ingest(c)
  <2>1. call[c].step # "idle"
    BY <1>5 DEF FetchChild, Ingest
  <2>2. \/ \E b \in call[c].todo : Store(c, b) /\ call' = [call EXCEPT ![c].todo = @ \ {b}]
        \/ \E step \in Steps \ {"idle"} : Goto(c, step) /\ held' = held
    BY <1>2, <1>5 DEF FetchChild, Ingest
  <2> QED BY <2>1, <2>2, TodoEnds, GotoEnds
<1>6. CASE CreateDiff(c)
  <2>1. PICK b \in Blob : Store(c, b)
    BY <1>1, <1>6 DEF CreateDiff
  <2>2. call'[c].step = "write" /\ \A d \in Caller \ {c} : call'[d] = call[d]
    BY <1>6 DEF CreateDiff, TypeOK
  <2> QED BY <2>1, <2>2, StoreFacts, StepEnds
<1>7. CASE CreateImage(c) \/ UpdateImage(c) \/ UpdateOnce(c) \/ CreateOnce(c) \/ DropImage(c)
  <2>1. Return(c) \/ \E step \in Steps \ {"idle"} : Goto(c, step) /\ held' = held
    BY <1>2, <1>7 DEF CreateImage, UpdateImage, UpdateOnce, CreateOnce, DropImage, Missing
  <2> QED BY <2>1, ReturnEnds, GotoEnds
<1> QED BY <1>3, <1>4, <1>5, <1>6, <1>7 DEF Step

LEMMA StartEnds ==
  ASSUME TypeOK, LeasesEnd, NEW c \in Caller, Start(c)
  PROVE  LeasesEnd'
<1>1. PICK new : Begin(c, new)
  BY DEF Start, Pull, Import, Commit, Delete
<1>2. held' = held /\ held[c] = {}
  BY <1>1, IdleFacts DEF Begin, LeasesEnd
<1>3. \A d \in Caller \ {c} : call'[d] = call[d]
  BY <1>1 DEF Begin, TypeOK
<1> QED BY <1>2, <1>3, StepEnds

LEMMA NextEnds ==
  ASSUME TypeOK, LeasesEnd, [Next]_vars
  PROVE  LeasesEnd'
<1>1. CASE \E c \in Caller : Start(c) \/ Step(c) \/ Fail(c)
  BY <1>1, StartEnds, CallEnds, ReturnEnds DEF Fail
<1>2. CASE CollectGarbage \/ Expire \/ UNCHANGED vars
  BY <1>2 DEF CollectGarbage, Expire, vars, LeasesEnd
<1>3. CASE Kill
  BY <1>3 DEF Kill, LeasesEnd
<1> QED BY <1>1, <1>2, <1>3 DEF Next

\* Without leases, what is marked belongs to stored images.
LEMMA OnlyStoredMarked ==
  ASSUME stale = {}, \A c \in Caller : held[c] = {}
  PROVE  Marked \subseteq UNION {{Manifest(t)} \cup Children(t) : t \in Stored}
<1>1. Roots = {Manifest(t) : t \in Stored}
  BY DEF Roots
<1>2. \A t, u : Manifest(t) = Manifest(u) => t = u
  BY DEF Manifest
<1>3. \A t \in labelled : Manifest(t) \in Roots => t \in Stored
  BY <1>1, <1>2
<1> QED BY <1>1, <1>3 DEF Marked

(***************************************************************************)
(* Failed, finished and killed calls leak nothing: when none is running    *)
(* and leases left behind have expired, the collector leaves no blob but   *)
(* those of stored images (commit.go:130, cmd/root.go:94).                 *)
(***************************************************************************)
THEOREM CollectorLeavesImages == Spec => NothingLeaks
<1>1. Init => LeasesEnd
  BY DEF Init, LeasesEnd
<1>2. Typed /\ LeasesEnd /\ [Next]_vars => LeasesEnd'
  BY NextEnds DEF Typed
<1> DEFINE Clean == CollectGarbage /\ stale = {} /\ (\A c \in Caller : call[c] = Idle) =>
                      blobs' \subseteq UNION {{Manifest(t)} \cup Children(t) : t \in Stored}
<1>3. LeasesEnd /\ [Next]_vars => [Clean]_vars
  <2> SUFFICES ASSUME LeasesEnd, CollectGarbage, stale = {},
                      \A c \in Caller : call[c] = Idle
               PROVE  blobs' \subseteq UNION {{Manifest(t)} \cup Children(t) : t \in Stored}
    OBVIOUS
  <2>1. \A c \in Caller : held[c] = {}
    BY IdleFacts DEF LeasesEnd
  <2> QED BY <2>1, OnlyStoredMarked DEF CollectGarbage
<1> QED BY <1>1, <1>2, <1>3, InitTyped, NextTyped, PTL DEF Spec, NothingLeaks
=================================================================================
