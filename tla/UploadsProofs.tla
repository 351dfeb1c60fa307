---------------------------- MODULE UploadsProofs ----------------------------
(***************************************************************************)
(* Proofs about Uploads for any parts, pipelines and storage: what the     *)
(* handler sees, which files stay, and that nothing is deleted twice.  The *)
(* inductive invariant says how far each part's objects follow from its    *)
(* phase and the request's.                                                *)
(***************************************************************************)
EXTENDS Uploads, TLAPS

\* What the phase of a part says about its pipeline: the objects it stored are
\* those of the storing actions before the one it is at.
PartFits(f) ==
    /\ phase[f] \in {"absent", "refused", "temp"} => step[f] = 0
    /\ phase[f] = "step" => step[f] > 0
    /\ phase[f] = "storing" => step[f] \in StoringSteps(f)
    /\ phase[f] = "done" => step[f] = Len(Pipeline[f]) + 1
    /\ phase[f] \notin {"absent", "refused"} => tempPath[f] = f
    /\ tree[f] = {<<f, i>> : i \in {j \in StoringSteps(f) : j < step[f]}}
    /\ results[f] = tree[f]

\* The objects of f are to be deleted.
GivenUp(f) ==
    phase[f] \in {"cleaning", "failed"} \/ (phase[f] = "done" /\ request = "failed")

\* An object is whole until its part is given up; what no result names is half
\* written at most.
ObjectFits(o) ==
    /\ o \in tree[o[1]] =>
         /\ deletes[o] = IF GivenUp(o[1]) THEN 1 ELSE 0
         /\ ~GivenUp(o[1]) => stored[o] = o[1]
         /\ GivenUp(o[1]) /\ o \notin removing => o \in kept \/ stored[o] = None
    /\ o \notin tree[o[1]] =>
         /\ deletes[o] = 0
         /\ stored[o] # None =>
              \/ phase[o[1]] \in {"cleaning", "failed"}
              \/ phase[o[1]] = "storing" /\ step[o[1]] = o[2]
    /\ deletes[o] = 0 => o \notin removing
    /\ phase[o[1]] = "failed" => o \notin removing

\* What the interceptor knows of the parts.
RequestFits ==
    /\ temp \subseteq Pending \union left
    /\ \A f \in Files : phase[f] \in {"temp", "step", "storing"} => f \in temp
    /\ uploaded = {f \in Files : phase[f] = "done"}
    /\ ~failedUpload => /\ truncated = {}
                        /\ \A f \in Files : phase[f] \notin {"refused", "failed"}
    /\ request # "uploading" => Pending = {}
    /\ request \in {"handling", "answered", "failed"} => ~failedUpload
    /\ request \in {"handling", "answered"} => MissingFields = {}
    /\ succeeded \subseteq OnRequest

IInv ==
    /\ TypeOK /\ RequestFits
    /\ \A f \in Files : PartFits(f)
    /\ \A o \in Objects : ObjectFits(o)

-----------------------------------------------------------------------------
(* Objects and parts *)

LEMMA ObjectParts ==
  /\ \A f \in Files : /\ Len(Pipeline[f]) \in Nat
                      /\ StoringSteps(f) \subseteq 1..Len(Pipeline[f])
                      /\ \A i \in StoringSteps(f) : <<f, i>> \in Objects
  /\ \A o \in Objects : /\ o[1] \in Files /\ o = <<o[1], o[2]>>
                        /\ o[2] \in 1..Len(Pipeline[o[1]])
  BY FilesAssumption DEF Objects, StoringSteps

\* A part's objects are its own.
LEMMA OwnObjects ==
  ASSUME IInv
  PROVE  \A f \in Files : tree[f] = {o \in Objects : /\ o[1] = f
                                                     /\ o[2] \in StoringSteps(f)
                                                     /\ o[2] < step[f]}
  BY ObjectParts DEF IInv, PartFits

\* What a step leaves alone in a part, and in its objects, keeps fitting.
LEMMA PartsElsewhere ==
  ASSUME IInv, NEW f \in Files, UNCHANGED request,
         \A g \in Files \ {f} : /\ phase'[g] = phase[g] /\ step'[g] = step[g]
                                /\ tempPath'[g] = tempPath[g] /\ tree'[g] = tree[g]
                                /\ results'[g] = results[g],
         \A o \in Objects : o[1] # f =>
            /\ stored'[o] = stored[o] /\ deletes'[o] = deletes[o]
            /\ o \in removing' <=> o \in removing
            /\ o \in kept' <=> o \in kept
  PROVE  /\ \A g \in Files \ {f} : PartFits(g)'
         /\ \A o \in Objects : o[1] # f => ObjectFits(o)'
<1>1. \A g \in Files \ {f} : PartFits(g)'
  BY DEF IInv, PartFits
<1>2. ASSUME NEW o \in Objects, o[1] # f PROVE ObjectFits(o)'
  BY <1>2, ObjectParts DEF IInv, ObjectFits, GivenUp
<1>. QED  BY <1>1, <1>2

LEMMA InitHolds == Init => IInv
<1>. SUFFICES ASSUME Init PROVE IInv
  OBVIOUS
<1>1. TypeOK
  <2>1. \A f \in Files : step[f] <= Len(Pipeline[f]) + 1
    BY ObjectParts DEF Init
  <2>2. removing \subseteq Objects /\ stored \in [Objects -> Files \union {None, "partial"}]
        /\ deletes \in [Objects -> Nat]
    BY DEF Init
  <2>. QED  BY <2>1, <2>2 DEF Init, TypeOK
<1>2. RequestFits
  BY DEF Init, RequestFits, Pending, OnRequest
<1>3. \A f \in Files : PartFits(f)
  BY ObjectParts DEF Init, PartFits
<1>4. \A o \in Objects : ObjectFits(o)
  BY ObjectParts DEF Init, ObjectFits, GivenUp
<1>. QED  BY <1>1, <1>2, <1>3, <1>4 DEF IInv

-----------------------------------------------------------------------------
(* multer hands the parts over *)

LEMMA HandleFileKeeps ==
  ASSUME IInv, NEW f \in Files, HandleFile(f)
  PROVE  IInv'
<1>1. TypeOK'
  BY DEF HandleFile, IInv, TypeOK, PipelineOf, multerVars, storageVars
<1>2. /\ \A g \in Files \ {f} : PartFits(g)'
      /\ \A o \in Objects : o[1] # f => ObjectFits(o)'
  BY PartsElsewhere DEF HandleFile, IInv, TypeOK, PipelineOf, storageVars
<1>3. tree[f] = {}
  BY ObjectParts DEF HandleFile, IInv, PartFits
<1>4. PartFits(f)'
  BY <1>3 DEF HandleFile, IInv, TypeOK, PartFits, PipelineOf
<1>5. \A o \in Objects : o[1] = f => ObjectFits(o)'
  BY <1>3, ObjectParts DEF HandleFile, IInv, TypeOK, ObjectFits, GivenUp, storageVars
<1>6. RequestFits'
  BY DEF HandleFile, Listening, IInv, TypeOK, RequestFits, Pending, OnRequest, MissingFields,
         multerVars
<1>. QED  BY <1>1, <1>2, <1>4, <1>5, <1>6 DEF IInv

LEMMA RefuseFileKeeps ==
  ASSUME IInv, NEW f \in Files, RefuseFile(f)
  PROVE  IInv'
<1>1. TypeOK'
  BY DEF RefuseFile, IInv, TypeOK, storageVars
<1>2. /\ \A g \in Files \ {f} : PartFits(g)'
      /\ \A o \in Objects : o[1] # f => ObjectFits(o)'
  BY PartsElsewhere DEF RefuseFile, IInv, TypeOK, storageVars
<1>4. PartFits(f)'
  BY DEF RefuseFile, IInv, TypeOK, PartFits
<1>5. \A o \in Objects : o[1] = f => ObjectFits(o)'
  BY ObjectParts DEF RefuseFile, IInv, TypeOK, ObjectFits, GivenUp, storageVars
<1>6. RequestFits'
  BY DEF RefuseFile, Listening, IInv, TypeOK, RequestFits, Pending, OnRequest, MissingFields
<1>. QED  BY <1>1, <1>2, <1>4, <1>5, <1>6 DEF IInv

LEMMA LimitReachedKeeps ==
  ASSUME IInv, NEW f \in Files, LimitReached(f)
  PROVE  IInv'
<1>1. TypeOK'
  BY DEF LimitReached, IInv, TypeOK, storageVars
<1>2. \A g \in Files : PartFits(g)'
  BY DEF LimitReached, IInv, PartFits
<1>3. \A o \in Objects : ObjectFits(o)'
  BY DEF LimitReached, IInv, ObjectFits, GivenUp, storageVars
<1>4. RequestFits'
  BY DEF LimitReached, IInv, RequestFits, Pending, OnRequest, MissingFields
<1>. QED  BY <1>1, <1>2, <1>3, <1>4 DEF IInv

LEMMA BodyReadKeeps ==
  ASSUME IInv, BodyRead
  PROVE  IInv'
<1>1. TypeOK'
  BY DEF BodyRead, IInv, TypeOK, storageVars, pipelineVars
<1>2. \A g \in Files : PartFits(g)'
  BY DEF BodyRead, IInv, PartFits, pipelineVars
<1>3. \A o \in Objects : ObjectFits(o)'
  BY DEF BodyRead, IInv, ObjectFits, GivenUp, storageVars, pipelineVars
<1>4. RequestFits'
  BY DEF BodyRead, Listening, IInv, RequestFits, Pending, OnRequest, MissingFields, pipelineVars
<1>. QED  BY <1>1, <1>2, <1>3, <1>4 DEF IInv

-----------------------------------------------------------------------------
(* runFile *)

\* TempStored and CheckPasses: on to the next action, with nothing stored.
LEMMA StepForward ==
  ASSUME IInv, NEW f \in Files, TempStored(f) \/ CheckPasses(f)
  PROVE  IInv'
<1>1. /\ phase' = [phase EXCEPT ![f] = "step"] /\ step' = [step EXCEPT ![f] = @ + 1]
      /\ phase[f] \in {"temp", "step"} /\ step[f] \in 0..Len(Pipeline[f])
      /\ step[f] \notin StoringSteps(f)
      /\ UNCHANGED <<request, readAll, failedUpload, truncated, temp, left, tempPath, results,
                     tree, uploaded, stored, removing, deletes, kept, succeeded>>
  <2>1. CASE TempStored(f)
    <3>1. step[f] = 0 /\ Len(Pipeline[f]) \in Nat /\ 0 \notin StoringSteps(f)
      BY <2>1, ObjectParts DEF TempStored, IInv, PartFits
    <3>2. step' = [step EXCEPT ![f] = @ + 1]
      BY <2>1, <3>1 DEF TempStored
    <3>. QED  BY <2>1, <3>1, <3>2 DEF TempStored, multerVars, storageVars
  <2>2. CASE CheckPasses(f)
    BY <2>2, ObjectParts
       DEF CheckPasses, At, IInv, TypeOK, PartFits, StoringSteps, multerVars, storageVars
  <2>. QED  BY <2>1, <2>2
<1>2. TypeOK'
  BY <1>1, ObjectParts DEF IInv, TypeOK
<1>3. /\ \A g \in Files \ {f} : PartFits(g)'
      /\ \A o \in Objects : o[1] # f => ObjectFits(o)'
  BY <1>1, PartsElsewhere DEF IInv, TypeOK
<1>4. PartFits(f)'
  <2>1. {j \in StoringSteps(f) : j < step'[f]} = {j \in StoringSteps(f) : j < step[f]}
    BY <1>1, ObjectParts DEF IInv, TypeOK
  <2>2. phase'[f] = "step" /\ step'[f] > 0
    BY <1>1, ObjectParts DEF IInv, TypeOK
  <2>3. tempPath[f] = f
    BY <1>1 DEF IInv, PartFits
  <2>. QED  BY <1>1, <2>1, <2>2, <2>3 DEF IInv, PartFits
<1>5. ASSUME NEW o \in Objects, o[1] = f PROVE ObjectFits(o)'
  <2>1. phase'[f] = "step" /\ ~GivenUp(f) /\ ~GivenUp(f)'
    BY <1>1 DEF IInv, TypeOK, GivenUp
  <2>2. ObjectFits(o) /\ (o \notin tree[f] => stored[o] = None)
    BY <1>1, <1>5 DEF IInv, ObjectFits
  <2>. QED  BY <1>1, <1>5, <2>1, <2>2 DEF ObjectFits
<1>6. RequestFits'
  <2>1. /\ phase[f] \in {"temp", "step"} /\ phase'[f] = "step"
        /\ \A g \in Files \ {f} : phase'[g] = phase[g]
    BY <1>1 DEF IInv, TypeOK
  <2>2. Pending' = Pending
    BY <2>1 DEF Pending
  <2>. QED  BY <1>1, <2>1, <2>2 DEF IInv, RequestFits, OnRequest, MissingFields
<1>. QED  BY <1>2, <1>3, <1>4, <1>5, <1>6 DEF IInv

\* However a pipeline fails, its catch block gives up exactly what it stored.
LEMMA CatchKeeps ==
  ASSUME IInv, NEW f \in Files, TempFails(f) \/ CheckThrows(f) \/ StoreFails(f)
  PROVE  IInv'
<1>1. /\ phase[f] \in {"temp", "step", "storing"}
      /\ phase' = [phase EXCEPT ![f] = "cleaning"]
      /\ removing' = removing \union tree[f]
      /\ deletes' = [o \in Objects |-> deletes[o] + IF o \in tree[f] THEN 1 ELSE 0]
      /\ temp' \in {temp, temp \ {f}}
      /\ UNCHANGED <<request, readAll, failedUpload, step, truncated, left, tempPath,
                     results, tree, uploaded, stored, kept, succeeded>>
  BY DEF TempFails, CheckThrows, StoreFails, At, Catch, DeleteAll, PipelineOf, IInv,
         PartFits, multerVars
<1>2. \A o \in Objects : o[1] # f => o \notin tree[f]
  BY OwnObjects
<1>3. TypeOK'
  BY <1>1 DEF IInv, TypeOK
<1>4. /\ \A g \in Files \ {f} : PartFits(g)'
      /\ \A o \in Objects : o[1] # f => ObjectFits(o)'
  <2>1. \A o \in Objects : o[1] # f =>
           /\ deletes'[o] = deletes[o]
           /\ o \in removing' <=> o \in removing
    BY <1>1, <1>2 DEF IInv, TypeOK
  <2>2. \A g \in Files \ {f} : phase'[g] = phase[g]
    BY <1>1 DEF IInv, TypeOK
  <2>. QED  BY <1>1, <2>1, <2>2, PartsElsewhere
<1>5. PartFits(f)'
  BY <1>1 DEF IInv, TypeOK, PartFits
<1>6. ASSUME NEW o \in Objects, o[1] = f PROVE ObjectFits(o)'
  <2>1. /\ deletes'[o] = IF o \in tree[f] THEN 1 ELSE 0
        /\ ~GivenUp(f) /\ GivenUp(f)'
    BY <1>1, <1>6 DEF IInv, TypeOK, ObjectFits, GivenUp
  <2>. QED  BY <1>1, <1>6, <2>1 DEF IInv, TypeOK, ObjectFits
<1>7. RequestFits'
  BY <1>1 DEF IInv, TypeOK, RequestFits, Pending, OnRequest, MissingFields
<1>. QED  BY <1>3, <1>4, <1>5, <1>6, <1>7 DEF IInv

LEMMA StoreStartsKeeps ==
  ASSUME IInv, NEW f \in Files, StoreStarts(f)
  PROVE  IInv'
<1>1. /\ phase[f] = "step" /\ phase' = [phase EXCEPT ![f] = "storing"]
      /\ step[f] \in StoringSteps(f) /\ <<f, step[f]>> \in Objects
      /\ UNCHANGED <<request, readAll, failedUpload, step, truncated, temp, left, tempPath,
                     results, tree, uploaded, removing, deletes, kept, succeeded>>
  BY ObjectParts DEF StoreStarts, At, IInv, TypeOK, PartFits, StoringSteps, multerVars
<1>2. \A o \in Objects : stored'[o] # stored[o] => o = <<f, step[f]>> /\ stored'[o] = "partial"
  BY DEF StoreStarts, IInv, TypeOK
<1>3. TypeOK'
  BY <1>1 DEF StoreStarts, IInv, TypeOK
<1>4. /\ \A g \in Files \ {f} : PartFits(g)'
      /\ \A o \in Objects : o[1] # f => ObjectFits(o)'
  <2>1. \A o \in Objects : o[1] # f => stored'[o] = stored[o]
    BY <1>2
  <2>2. \A g \in Files \ {f} : phase'[g] = phase[g]
    BY <1>1 DEF IInv, TypeOK
  <2>. QED  BY <1>1, <2>1, <2>2, PartsElsewhere
<1>5. PartFits(f)'
  BY <1>1 DEF IInv, TypeOK, PartFits
<1>6. ASSUME NEW o \in Objects, o[1] = f PROVE ObjectFits(o)'
  <2>1. <<f, step[f]>> \notin tree[f]
    BY <1>1, OwnObjects, ObjectParts
  <2>2. phase'[f] = "storing" /\ ~GivenUp(f) /\ ~GivenUp(f)'
    BY <1>1 DEF IInv, TypeOK, GivenUp
  <2>3. ObjectFits(o) /\ (o \notin tree[f] => stored[o] = None)
    BY <1>1, <1>6 DEF IInv, ObjectFits
  <2>4. stored'[o] # stored[o] => o \notin tree[f] /\ o[2] = step[f]
    BY <1>2, <2>1
  <2>. QED  BY <1>1, <1>6, <2>2, <2>3, <2>4 DEF ObjectFits
<1>7. RequestFits'
  BY <1>1 DEF IInv, TypeOK, RequestFits, Pending, OnRequest, MissingFields
<1>. QED  BY <1>3, <1>4, <1>5, <1>6, <1>7 DEF IInv

LEMMA StoreReturnsKeeps ==
  ASSUME IInv, NEW f \in Files, StoreReturns(f)
  PROVE  IInv'
<1>1. PICK o \in Objects : o = <<f, step[f]>> /\ step[f] \in StoringSteps(f)
  BY ObjectParts DEF StoreReturns, IInv, PartFits
<1>2. /\ phase[f] = "storing" /\ phase' = [phase EXCEPT ![f] = "step"]
      /\ step' = [step EXCEPT ![f] = @ + 1]
      /\ stored' = [stored EXCEPT ![o] = f]
      /\ results' = [results EXCEPT ![f] = @ \union {o}]
      /\ tree' = [tree EXCEPT ![f] = @ \union {o}]
      /\ UNCHANGED <<request, readAll, failedUpload, truncated, temp, left, tempPath, uploaded,
                     removing, deletes, kept, succeeded>>
  BY <1>1 DEF StoreReturns, IInv, PartFits, PipelineOf, multerVars
<1>3. TypeOK'
  <2>1. \A g \in Files : step'[g] <= Len(Pipeline[g]) + 1
    BY <1>1, <1>2, ObjectParts DEF IInv, TypeOK
  <2>2. step' \in [Files -> Nat]
    BY <1>2 DEF IInv, TypeOK
  <2>3. results' \in [Files -> SUBSET Objects] /\ tree' \in [Files -> SUBSET Objects]
    BY <1>2 DEF IInv, TypeOK
  <2>4. stored' \in [Objects -> Files \union {None, "partial"}]
    BY <1>2 DEF IInv, TypeOK
  <2>. QED  BY <1>2, <2>1, <2>2, <2>3, <2>4 DEF IInv, TypeOK
<1>4. /\ \A g \in Files \ {f} : PartFits(g)'
      /\ \A q \in Objects : q[1] # f => ObjectFits(q)'
  <2>1. \A q \in Objects : q[1] # f => stored'[q] = stored[q]
    BY <1>1, <1>2 DEF IInv, TypeOK
  <2>2. \A g \in Files \ {f} : /\ phase'[g] = phase[g] /\ step'[g] = step[g]
                                /\ tree'[g] = tree[g] /\ results'[g] = results[g]
    BY <1>2 DEF IInv, TypeOK
  <2>. QED  BY <1>2, <2>1, <2>2, PartsElsewhere
<1>5. PartFits(f)'
  <2>1. {j \in StoringSteps(f) : j < step'[f]}
        = {j \in StoringSteps(f) : j < step[f]} \union {step[f]}
    BY <1>1, <1>2, ObjectParts DEF IInv, TypeOK
  <2>2. tree'[f] = {<<f, i>> : i \in {j \in StoringSteps(f) : j < step'[f]}}
    BY <1>1, <1>2, <2>1 DEF IInv, TypeOK, PartFits
  <2>3. phase'[f] = "step" /\ step'[f] > 0
    BY <1>2 DEF IInv, TypeOK
  <2>4. tempPath[f] = f /\ results'[f] = tree'[f]
    BY <1>2 DEF IInv, TypeOK, PartFits
  <2>. QED  BY <1>2, <2>2, <2>3, <2>4 DEF PartFits
<1>6. ASSUME NEW q \in Objects, q[1] = f PROVE ObjectFits(q)'
  <2>1. CASE q = o
    <3>1. step[f] \in Nat /\ o[1] = f /\ o[2] = step[f]
      BY <1>1 DEF IInv, TypeOK
    <3>2. o \notin tree[f]
      BY <3>1, OwnObjects
    <3>3. ~GivenUp(f)' /\ deletes[o] = 0 /\ o \notin removing
      BY <1>2, <3>1, <3>2 DEF IInv, TypeOK, ObjectFits, GivenUp
    <3>4. stored'[o] = f /\ o \in tree'[f]
      BY <1>2 DEF IInv, TypeOK
    <3>. QED  BY <1>2, <2>1, <3>1, <3>3, <3>4 DEF ObjectFits
  <2>2. CASE q # o
    <3>1. q[2] # step[f]
      BY <1>1, <1>6, <2>2, ObjectParts
    <3>. QED  BY <1>2, <1>6, <2>2, <3>1 DEF IInv, TypeOK, ObjectFits, GivenUp
  <2>. QED  BY <2>1, <2>2
<1>7. RequestFits'
  BY <1>1, <1>2 DEF IInv, TypeOK, RequestFits, Pending, OnRequest, MissingFields
<1>. QED  BY <1>3, <1>4, <1>5, <1>6, <1>7 DEF IInv

LEMMA RunFileReturnsKeeps ==
  ASSUME IInv, NEW f \in Files, RunFileReturns(f)
  PROVE  IInv'
<1>1. /\ phase[f] = "step" /\ step[f] = Len(Pipeline[f]) + 1
      /\ phase' = [phase EXCEPT ![f] = "done"]
      /\ \/ temp' = temp \ {f} /\ left' = left
         \/ temp' = temp /\ left' = left \union {f}
      /\ uploaded' = uploaded \union {f}
      /\ UNCHANGED <<request, readAll, failedUpload, step, truncated, tempPath, results,
                     tree, stored, removing, deletes, kept, succeeded>>
  <2>1. step[f] = Len(Pipeline[f]) + 1
    BY ObjectParts DEF RunFileReturns, IInv, TypeOK
  <2>2. tempPath[PipelineOf(f)] = f
    BY DEF RunFileReturns, IInv, PartFits, PipelineOf
  <2>. QED  BY <2>1, <2>2 DEF RunFileReturns, CleanupTempFile, multerVars, storageVars
<1>2. request = "uploading"
  BY <1>1 DEF IInv, RequestFits, Pending
<1>3. TypeOK'
  BY <1>1 DEF IInv, TypeOK
<1>4. /\ \A g \in Files \ {f} : PartFits(g)'
      /\ \A o \in Objects : o[1] # f => ObjectFits(o)'
  BY <1>1, PartsElsewhere DEF IInv, TypeOK
<1>5. PartFits(f)'
  BY <1>1 DEF IInv, TypeOK, PartFits
<1>6. ASSUME NEW o \in Objects, o[1] = f PROVE ObjectFits(o)'
  <2>1. phase'[f] = "done" /\ ~GivenUp(f) /\ ~GivenUp(f)'
    BY <1>1, <1>2 DEF IInv, TypeOK, GivenUp
  <2>2. ObjectFits(o) /\ (o \notin tree[f] => stored[o] = None)
    BY <1>1, <1>6 DEF IInv, ObjectFits
  <2>. QED  BY <1>1, <1>6, <2>1, <2>2 DEF ObjectFits
<1>7. RequestFits'
  BY <1>1, <1>2 DEF IInv, TypeOK, RequestFits, Pending, OnRequest, MissingFields
<1>. QED  BY <1>3, <1>4, <1>5, <1>6, <1>7 DEF IInv

LEMMA RunFileRejectsKeeps ==
  ASSUME IInv, NEW f \in Files, RunFileRejects(f)
  PROVE  IInv'
<1>1. /\ phase[f] = "cleaning" /\ tree[f] \intersect removing = {}
      /\ phase' = [phase EXCEPT ![f] = "failed"]
      /\ \/ temp' = temp \ {f} /\ left' = left
         \/ temp' = temp /\ left' = left \union {f}
      /\ failedUpload' = TRUE
      /\ UNCHANGED <<request, readAll, step, truncated, tempPath, results, tree, uploaded,
                     stored, removing, deletes, kept, succeeded>>
  BY DEF RunFileRejects, CleanupTempFile, IInv, PartFits, PipelineOf, storageVars
<1>2. request = "uploading"
  BY <1>1 DEF IInv, RequestFits, Pending
<1>3. TypeOK'
  BY <1>1 DEF IInv, TypeOK
<1>4. /\ \A g \in Files \ {f} : PartFits(g)'
      /\ \A o \in Objects : o[1] # f => ObjectFits(o)'
  BY <1>1, PartsElsewhere DEF IInv, TypeOK
<1>5. PartFits(f)'
  BY <1>1 DEF IInv, TypeOK, PartFits
<1>6. \A o \in Objects : o[1] = f => ObjectFits(o)'
  BY <1>1, <1>2 DEF IInv, TypeOK, ObjectFits, GivenUp
<1>7. RequestFits'
  BY <1>1, <1>2 DEF IInv, TypeOK, RequestFits, Pending, OnRequest, MissingFields
<1>. QED  BY <1>3, <1>4, <1>5, <1>6, <1>7 DEF IInv

-----------------------------------------------------------------------------
(* Storage and the request *)

LEMMA DeleteAnswered ==
  ASSUME IInv, NEW o \in Objects, DeleteReturns(o) \/ DeleteFails(o)
  PROVE  IInv'
<1>1. /\ o \in removing /\ removing' = removing \ {o}
      /\ \/ stored' = [stored EXCEPT ![o] = None] /\ kept' = kept
         \/ stored' = stored /\ kept' = kept \union {o}
      /\ UNCHANGED <<request, readAll, failedUpload, phase, step, truncated, temp, left, tempPath,
                     results, tree, uploaded, deletes, succeeded>>
  BY DEF DeleteReturns, DeleteFails, multerVars, pipelineVars
<1>2. o \in tree[o[1]] /\ GivenUp(o[1])
  BY <1>1 DEF IInv, ObjectFits
<1>3. TypeOK'
  BY <1>1 DEF IInv, TypeOK
<1>4. \A g \in Files : PartFits(g)'
  BY <1>1 DEF IInv, PartFits
<1>5. ASSUME NEW q \in Objects PROVE ObjectFits(q)'
  <2>1. GivenUp(q[1])' <=> GivenUp(q[1])
    BY <1>1 DEF GivenUp
  <2>. QED  BY <1>1, <1>2, <2>1 DEF IInv, TypeOK, ObjectFits
<1>6. RequestFits'
  BY <1>1 DEF IInv, RequestFits, Pending, OnRequest, MissingFields
<1>. QED  BY <1>3, <1>4, <1>5, <1>6 DEF IInv

\* UploadRejects, Handle and HandlerEmits: the request goes on, no object does.
LEMMA RequestGoesOn ==
  ASSUME IInv, UploadRejects \/ Handle \/ HandlerEmits
  PROVE  IInv'
<1>1. /\ request' # "failed" /\ request # "failed"
      /\ UNCHANGED <<readAll, failedUpload, phase, step, truncated, temp, left, tempPath, results,
                     tree, uploaded, stored, removing, deletes, kept>>
  BY DEF UploadRejects, Handle, HandlerEmits, UploadResolves, multerVars, pipelineVars,
         storageVars
<1>2. \A g \in Files : PartFits(g)'
  BY <1>1 DEF IInv, PartFits
<1>3. \A o \in Objects : ObjectFits(o)'
  BY <1>1 DEF IInv, ObjectFits, GivenUp
<1>4. OnRequest \subseteq Objects
  BY DEF IInv, TypeOK, OnRequest
<1>5. TypeOK'
  BY <1>1, <1>4 DEF UploadRejects, Handle, HandlerEmits, IInv, TypeOK
<1>6. RequestFits'
  BY <1>1 DEF UploadRejects, Handle, HandlerEmits, UploadResolves, IInv, RequestFits,
              Pending, OnRequest, MissingFields
<1>. QED  BY <1>2, <1>3, <1>5, <1>6 DEF IInv

\* FileMissing and HandlerErrors: deleteFilesOnError gives up exactly the objects
\* that no pipeline's catch block has given up.
LEMMA RequestFails ==
  ASSUME IInv, FileMissing \/ HandlerErrors
  PROVE  IInv'
<1>1. /\ request \in {"uploading", "handling", "answered"} /\ request' = "failed"
      /\ Pending = {} /\ ~failedUpload
      /\ DeleteAll(OnRequest)
      /\ UNCHANGED <<readAll, failedUpload, phase, step, truncated, temp, left, tempPath, results,
                     tree, uploaded, stored, succeeded>>
  BY DEF FileMissing, HandlerErrors, UploadResolves, IInv, RequestFits, multerVars,
         pipelineVars
<1>2. \A f \in Files : phase[f] \in {"absent", "done"}
  BY <1>1 DEF IInv, TypeOK, RequestFits, Pending
<1>3. ASSUME NEW o \in Objects PROVE o \in OnRequest <=> o \in tree[o[1]]
  <2>1. o \in tree[o[1]] => phase[o[1]] = "done"
    BY <1>2, ObjectParts, OwnObjects DEF IInv, PartFits
  <2>2. \A f \in Files : o \in tree[f] => o[1] = f
    BY OwnObjects
  <2>. QED  BY <2>1, <2>2, ObjectParts DEF OnRequest, IInv, RequestFits
<1>4. OnRequest \subseteq Objects
  BY DEF IInv, TypeOK, OnRequest
<1>5. TypeOK'
  BY <1>1, <1>4 DEF DeleteAll, IInv, TypeOK
<1>6. \A g \in Files : PartFits(g)'
  BY <1>1 DEF IInv, PartFits
<1>7. ASSUME NEW o \in Objects PROVE ObjectFits(o)'
  <2>1. /\ deletes'[o] = deletes[o] + IF o \in tree[o[1]] THEN 1 ELSE 0
        /\ o \in removing' <=> o \in removing \/ o \in tree[o[1]]
        /\ kept' = kept
    BY <1>1, <1>3 DEF DeleteAll
  <2>2. ~GivenUp(o[1]) /\ (o \in tree[o[1]] => GivenUp(o[1])')
    <3>1. o \in tree[o[1]] => phase[o[1]] = "done"
      BY <1>2, ObjectParts, OwnObjects DEF IInv, PartFits
    <3>. QED  BY <1>1, <1>2, <3>1, ObjectParts DEF GivenUp
  <2>3. o[1] \in Files /\ ObjectFits(o)
    BY ObjectParts DEF IInv
  <2>. QED  BY <1>1, <1>2, <2>1, <2>2, <2>3 DEF ObjectFits
<1>8. RequestFits'
  BY <1>1 DEF IInv, RequestFits, Pending, OnRequest, MissingFields
<1>. QED  BY <1>5, <1>6, <1>7, <1>8 DEF IInv

LEMMA Inductive == Spec => []IInv
<1>1. IInv /\ UNCHANGED vars => IInv'
  <2>. SUFFICES ASSUME IInv, UNCHANGED vars PROVE IInv'
    OBVIOUS
  <2>1. UNCHANGED <<request, readAll, failedUpload, phase, step, truncated, temp, left, tempPath,
                    results, tree, uploaded, stored, removing, deletes, kept, succeeded>>
    BY DEF vars, multerVars, pipelineVars, storageVars
  <2>2. TypeOK' /\ RequestFits'
    BY <2>1 DEF IInv, TypeOK, RequestFits, Pending, OnRequest, MissingFields
  <2>3. \A f \in Files : PartFits(f)'
    BY <2>1 DEF IInv, PartFits
  <2>4. \A o \in Objects : ObjectFits(o)'
    BY <2>1 DEF IInv, ObjectFits, GivenUp
  <2>. QED  BY <2>2, <2>3, <2>4 DEF IInv
<1>2. IInv /\ Next => IInv'
  BY HandleFileKeeps, RefuseFileKeeps, LimitReachedKeeps, BodyReadKeeps, StepForward,
     CatchKeeps, StoreStartsKeeps, StoreReturnsKeeps, RunFileReturnsKeeps,
     RunFileRejectsKeeps, DeleteAnswered, RequestGoesOn, RequestFails DEF Next, RunFile
<1>. QED  BY InitHolds, <1>1, <1>2, PTL DEF Spec

-----------------------------------------------------------------------------
\* Every variable of an upload has its type.
THEOREM TypeCorrect == Spec => []TypeOK
<1>1. IInv => TypeOK
  BY DEF IInv
<1>. QED  BY Inductive, <1>1, PTL

\* The handler runs on every required file, and on whole files only, whatever
\* the pipelines and the order in which their steps happen.
THEOREM HandlerAlwaysSeesWholeFiles == Spec => []HandlerSeesWholeFiles
<1>1. IInv => HandlerSeesWholeFiles
  <2>. SUFFICES ASSUME IInv, request = "handling" PROVE HandlerSeesWholeFiles
    BY DEF HandlerSeesWholeFiles
  <2>1. \A f \in Files : phase[f] \in {"absent", "done"}
    BY DEF IInv, TypeOK, RequestFits, Pending
  <2>2. \A d \in Required : \E f \in uploaded : FieldOf[f] = d
    BY DEF IInv, RequestFits, MissingFields
  <2>3. truncated = {}
    BY DEF IInv, RequestFits
  <2>4. ASSUME NEW f \in uploaded
        PROVE  /\ tree[f] = {<<f, i>> : i \in StoringSteps(f)}
               /\ \A o \in tree[f] : stored[o] = f
    <3>1. f \in Files /\ phase[f] = "done" /\ ~GivenUp(f)
      BY DEF IInv, RequestFits, GivenUp
    <3>2. {j \in StoringSteps(f) : j < step[f]} = StoringSteps(f)
      BY <3>1, ObjectParts DEF IInv, PartFits
    <3>3. \A o \in tree[f] : o \in Objects /\ o[1] = f
      BY <3>1, OwnObjects
    <3>. QED  BY <3>1, <3>2, <3>3 DEF IInv, PartFits, ObjectFits
  <2>5. ASSUME NEW o \in Objects, stored[o] # None PROVE o[1] \in uploaded
    <3>1. o[1] \in Files
      BY ObjectParts
    <3>2. phase[o[1]] = "absent" => o \notin tree[o[1]]
      BY <3>1, ObjectParts, OwnObjects DEF IInv, PartFits
    <3>. QED  BY <2>1, <2>5, <3>1, <3>2 DEF IInv, ObjectFits, RequestFits
  <2>. QED  BY <2>2, <2>3, <2>4, <2>5 DEF HandlerSeesWholeFiles
<1>. QED  BY Inductive, <1>1, PTL

\* No object is deleted twice, whatever fails where.
THEOREM NothingIsDeletedTwice == Spec => []DeletedOnce
<1>1. IInv => DeletedOnce
  BY DEF IInv, ObjectFits, DeletedOnce
<1>. QED  BY Inductive, <1>1, PTL

\* A temporary file lives as long as its pipeline may read it, and longer only
\* if unlinkSync threw.
THEOREM TempFilesAreAlwaysScratch == Spec => []TempFilesAreScratch
<1>1. IInv => TempFilesAreScratch
  BY DEF IInv, RequestFits, TempFilesAreScratch
<1>. QED  BY Inductive, <1>1, PTL

\* A pipeline that rejected left no object of its results behind.
THEOREM FailedPipelinesLeaveNothing == Spec => []FailedPipelineLeavesNothing
<1>1. IInv => FailedPipelineLeavesNothing
  <2>. SUFFICES ASSUME IInv, NEW f \in Files, phase[f] = "failed",
                       NEW o \in results[f] \ kept
                PROVE  stored[o] = None
    BY DEF FailedPipelineLeavesNothing, PipelineOf
  <2>1. o \in Objects /\ o[1] = f /\ o \in tree[f]
    BY OwnObjects DEF IInv, PartFits
  <2>. QED  BY <2>1 DEF IInv, ObjectFits, GivenUp
<1>. QED  BY Inductive, <1>1, PTL

\* While an answer stands, so do the objects it was given for.
THEOREM SucceededAlwaysStay == Spec => []SucceededStay
<1>1. IInv => SucceededStay
  <2>. SUFFICES ASSUME IInv, request = "answered", NEW o \in succeeded
                PROVE  stored[o] = o[1] /\ o \notin removing
    BY DEF SucceededStay
  <2>1. PICK f \in uploaded : o \in tree[f]
    BY DEF IInv, RequestFits, OnRequest
  <2>2. f \in Files /\ phase[f] = "done" /\ ~GivenUp(f)
    BY <2>1 DEF IInv, RequestFits, GivenUp
  <2>3. o \in Objects /\ o[1] = f
    BY <2>1, <2>2, OwnObjects
  <2>. QED  BY <2>1, <2>2, <2>3 DEF IInv, ObjectFits
<1>. QED  BY Inductive, <1>1, PTL
=============================================================================
