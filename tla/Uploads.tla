------------------------------- MODULE Uploads -------------------------------
(***************************************************************************)
(* src/src/uploader: one request through UploadInterceptor.  Each file     *)
(* part is copied to a temporary file and run through its own clone of the *)
(* field's pipeline, whose actions check it or put an object in storage;   *)
(* the parts of one request run concurrently.  multer, busboy and the      *)
(* storage behind the manager are modelled from how the code uses them.    *)
(***************************************************************************)
EXTENDS Integers, Sequences, FiniteSets

CONSTANTS
    Files,       \* file parts the request may hold
    Fields,      \* fields of the interceptor's fileDescriptors
    FieldOf,     \* [Files -> Fields]
    Required,    \* the fields without isOptional
    Pipeline,    \* [Files -> Seq({"check", "store"})], in the order run
    Local,       \* LOCAL storage (a file is created, then filled), else AWS
    None

ASSUME FilesAssumption ==
    /\ IsFiniteSet(Files) /\ None \notin Files
    /\ FieldOf \in [Files -> Fields] /\ Required \subseteq Fields
    /\ Pipeline \in [Files -> Seq({"check", "store"})]
    /\ Local \in BOOLEAN

\* The storage objects an upload creates, one per storing action.
Objects == UNION {{<<f, i>> : i \in DOMAIN Pipeline[f]} : f \in Files}

VARIABLES
    request,     \* how far the interceptor is
    readAll,     \* busboy read the whole body
    failedUpload,\* multer was told of an error
    phase,       \* how far each part is
    step,        \* the action its pipeline is at
    truncated,   \* parts cut off at maxSizeInMegabytes
    temp,        \* parts whose temporary file is on disk
    left,        \* parts whose temporary file could not be unlinked
    tempPath,    \* _tempFilePath of each pipeline object
    results,     \* _resultingFiles of each pipeline object
    tree,        \* the file a pipeline returns, with its processedFiles
    uploaded,    \* parts in request.uploadedFiles
    stored,      \* the content of each object: a part's, half of one, or None
    removing,    \* objects with a delete under way
    deletes,     \* calls of each object's delete
    kept,        \* objects whose delete storage refused
    succeeded    \* objects whose onSuccess was called

multerVars   == <<readAll, failedUpload>>
pipelineVars == <<phase, step, truncated, temp, left, tempPath, results, tree>>
storageVars  == <<stored, removing, deletes, kept>>
vars == <<request, multerVars, pipelineVars, uploaded, storageVars, succeeded>>

Init ==
    /\ request = "uploading" /\ readAll = FALSE /\ failedUpload = FALSE
    /\ phase = [f \in Files |-> "absent"] /\ step = [f \in Files |-> 0]
    /\ truncated = {} /\ temp = {} /\ left = {}
    /\ tempPath = [p \in Files |-> None]
    /\ results = [p \in Files |-> {}] /\ tree = [f \in Files |-> {}]
    /\ uploaded = {}
    /\ stored = [o \in Objects |-> None] /\ removing = {}
    /\ deletes = [o \in Objects |-> 0] /\ kept = {} /\ succeeded = {}

\* Mutant: the field's pipeline is used without clone.
PipelineOfField(f) == CHOOSE g \in Files : FieldOf[g] = FieldOf[f]

\* The pipeline object a part runs on: a clone of its own.
PipelineOf(f) == f

\* Parts whose _handleFile has not called back: multer's pendingWrites.
Pending == {f \in Files : phase[f] \in {"temp", "step", "storing", "cleaning"}}

\* _cleanupTempFile: an error of unlinkSync is only logged, and the file stays.
CleanupTempFile(p) ==
    \/ temp' = temp \ {tempPath[p]} /\ UNCHANGED left
    \/ tempPath[p] \in temp /\ left' = left \union {tempPath[p]} /\ UNCHANGED temp

\* Calls delete of every object in objs, which nobody here waits for.
DeleteAll(objs) ==
    /\ removing' = removing \union objs /\ UNCHANGED kept
    /\ deletes' = [o \in Objects |-> deletes[o] + IF o \in objs THEN 1 ELSE 0]

-----------------------------------------------------------------------------
(* multer hands the parts over *)

\* busboy still reports parts: an upload that has failed is over at once when
\* no _handleFile is pending, and multer stops listening.
Listening == request = "uploading" /\ ~readAll /\ ~(failedUpload /\ Pending = {})

\* fileFilter and maxCount let the part in: runFile starts with storeTemp.
HandleFile(f) ==
    /\ Listening /\ phase[f] = "absent"
    /\ phase' = [phase EXCEPT ![f] = "temp"]
    /\ temp' = temp \union {f}
    /\ tempPath' = [tempPath EXCEPT ![PipelineOf(f)] = f]
    /\ results' = [results EXCEPT ![PipelineOf(f)] = {}]
    /\ UNCHANGED <<request, multerVars, step, truncated, left, tree, uploaded,
                   storageVars, succeeded>>

\* They do not: multer fails the upload.
RefuseFile(f) ==
    /\ Listening /\ phase[f] = "absent"
    /\ phase' = [phase EXCEPT ![f] = "refused"]
    /\ failedUpload' = TRUE
    /\ UNCHANGED <<request, readAll, step, truncated, temp, left, tempPath, results,
                   tree, uploaded, storageVars, succeeded>>

\* The part is too long: its stream ends early and the upload has failed.
LimitReached(f) ==
    /\ phase[f] = "temp" /\ f \notin truncated
    /\ truncated' = truncated \union {f}
    /\ failedUpload' = TRUE
    /\ UNCHANGED <<request, readAll, phase, step, temp, left, tempPath, results, tree,
                   uploaded, storageVars, succeeded>>

BodyRead ==
    /\ Listening
    /\ readAll' = TRUE
    /\ UNCHANGED <<request, failedUpload, pipelineVars, uploaded, storageVars,
                   succeeded>>

-----------------------------------------------------------------------------
(* runFile *)

TempStored(f) ==
    /\ phase[f] = "temp"
    /\ phase' = [phase EXCEPT ![f] = "step"]
    /\ step' = [step EXCEPT ![f] = 1]
    /\ UNCHANGED <<request, multerVars, truncated, temp, left, tempPath, results, tree,
                   uploaded, storageVars, succeeded>>

\* The catch block: deletes what the pipeline stored, and waits for it.
Catch(f) ==
    /\ phase' = [phase EXCEPT ![f] = "cleaning"]
    /\ DeleteAll(results[PipelineOf(f)])

\* The write stream fails, after it created the file or before.
TempFails(f) ==
    /\ phase[f] = "temp"
    /\ temp' \in {temp, temp \ {f}}
    /\ Catch(f)
    /\ UNCHANGED <<request, multerVars, step, truncated, left, tempPath, results,
                   tree, uploaded, stored, succeeded>>

At(f, action) ==
    /\ phase[f] = "step" /\ step[f] <= Len(Pipeline[f])
    /\ Pipeline[f][step[f]] = action

\* validate, or watermark, which only prepares later actions.
CheckPasses(f) ==
    /\ At(f, "check")
    /\ step' = [step EXCEPT ![f] = @ + 1]
    /\ UNCHANGED <<request, multerVars, phase, truncated, temp, left, tempPath, results,
                   tree, uploaded, storageVars, succeeded>>

CheckThrows(f) ==
    /\ At(f, "check")
    /\ Catch(f)
    /\ UNCHANGED <<request, multerVars, step, truncated, temp, left, tempPath, results,
                   tree, uploaded, stored, succeeded>>

\* persistFile and createThumbnail: storage opens the object ...
StoreStarts(f) ==
    /\ At(f, "store")
    /\ phase' = [phase EXCEPT ![f] = "storing"]
    /\ stored' = IF Local THEN [stored EXCEPT ![<<f, step[f]>>] = "partial"]
                          ELSE stored
    /\ UNCHANGED <<request, multerVars, step, truncated, temp, left, tempPath, results,
                   tree, uploaded, removing, deletes, kept, succeeded>>

\* ... and has copied the temporary file, or
StoreReturns(f) ==
    LET p == PipelineOf(f)
        o == <<f, step[f]>>
    IN  /\ phase[f] = "storing" /\ tempPath[p] \in temp
        /\ phase' = [phase EXCEPT ![f] = "step"]
        /\ step' = [step EXCEPT ![f] = @ + 1]
        /\ stored' = [stored EXCEPT ![o] = tempPath[p]]
        /\ results' = [results EXCEPT ![p] = @ \union {o}]
        /\ tree' = [tree EXCEPT ![f] = @ \union {o}]
        /\ UNCHANGED <<request, multerVars, truncated, temp, left, tempPath, uploaded,
                       removing, deletes, kept, succeeded>>

\* fails: what it wrote so far stays, and _resultingFiles never held it.
StoreFails(f) ==
    /\ phase[f] = "storing"
    /\ Catch(f)
    /\ UNCHANGED <<request, multerVars, step, truncated, temp, left, tempPath, results,
                   tree, uploaded, stored, succeeded>>

\* Mutant: no callback once the upload has failed.
RunFileReturnsIfAwaited(f) ==
    /\ phase[f] = "step" /\ step[f] > Len(Pipeline[f]) /\ ~failedUpload
    /\ phase' = [phase EXCEPT ![f] = "done"]
    /\ CleanupTempFile(PipelineOf(f))
    /\ uploaded' = uploaded \union {f}
    /\ UNCHANGED <<request, multerVars, step, truncated, tempPath, results, tree,
                   storageVars, succeeded>>

\* The finally block unlinks the temporary file; _handleFile then puts the
\* result on the request, also when multer has failed the upload by now.
RunFileReturns(f) ==
    /\ phase[f] = "step" /\ step[f] > Len(Pipeline[f])
    /\ phase' = [phase EXCEPT ![f] = "done"]
    /\ CleanupTempFile(PipelineOf(f))
    /\ uploaded' = uploaded \union {f}
    /\ UNCHANGED <<request, multerVars, step, truncated, tempPath, results, tree,
                   storageVars, succeeded>>

\* Mutant: the deletes are not awaited.
RunFileRejectsAtOnce(f) ==
    /\ phase[f] = "cleaning"
    /\ phase' = [phase EXCEPT ![f] = "failed"]
    /\ CleanupTempFile(PipelineOf(f))
    /\ failedUpload' = TRUE
    /\ UNCHANGED <<request, readAll, step, truncated, tempPath, results, tree,
                   uploaded, storageVars, succeeded>>

\* Mutant: the temporary file is removed after a success only.
RunFileRejectsKeepsTemp(f) ==
    /\ phase[f] = "cleaning" /\ results[PipelineOf(f)] \intersect removing = {}
    /\ phase' = [phase EXCEPT ![f] = "failed"]
    /\ failedUpload' = TRUE
    /\ UNCHANGED <<request, readAll, step, truncated, temp, left, tempPath, results,
                   tree, uploaded, storageVars, succeeded>>

\* The deletes are settled: runFile rejects and multer fails the upload.
RunFileRejects(f) ==
    /\ phase[f] = "cleaning" /\ results[PipelineOf(f)] \intersect removing = {}
    /\ phase' = [phase EXCEPT ![f] = "failed"]
    /\ CleanupTempFile(PipelineOf(f))
    /\ failedUpload' = TRUE
    /\ UNCHANGED <<request, readAll, step, truncated, tempPath, results, tree,
                   uploaded, storageVars, succeeded>>

-----------------------------------------------------------------------------
(* Storage answers a delete *)

DeleteReturns(o) ==
    /\ o \in removing
    /\ removing' = removing \ {o}
    /\ stored' = [stored EXCEPT ![o] = None]
    /\ UNCHANGED <<request, multerVars, pipelineVars, uploaded, deletes, kept,
                   succeeded>>

DeleteFails(o) ==
    /\ o \in removing
    /\ removing' = removing \ {o} /\ kept' = kept \union {o}
    /\ UNCHANGED <<request, multerVars, pipelineVars, uploaded, stored, deletes,
                   succeeded>>

-----------------------------------------------------------------------------
(* intercept *)

\* Mutant: without the processed files.
OnRequestMainOnly ==
    {o \in UNION {tree[f] : f \in uploaded} : \A q \in tree[o[1]] : o[2] <= q[2]}

\* The objects of every file on the request, processed files included.
OnRequest == UNION {tree[f] : f \in uploaded}

\* The upload callback got multer's error, after _removeFile did nothing.
UploadRejects ==
    /\ request = "uploading" /\ failedUpload /\ Pending = {}
    /\ request' = "rejected"
    /\ UNCHANGED <<multerVars, pipelineVars, uploaded, storageVars, succeeded>>

UploadResolves ==
    request = "uploading" /\ readAll /\ ~failedUpload /\ Pending = {}

MissingFields == {d \in Required : \A f \in uploaded : FieldOf[f] # d}

\* Mutant: the exception is created, not thrown.
FileMissingGoesOn ==
    /\ UploadResolves /\ MissingFields # {}
    /\ request' = "handling"
    /\ DeleteAll(OnRequest)
    /\ UNCHANGED <<multerVars, pipelineVars, uploaded, stored, succeeded>>

FileMissing ==
    /\ UploadResolves /\ MissingFields # {}
    /\ request' = "failed"
    /\ DeleteAll(OnRequest)
    /\ UNCHANGED <<multerVars, pipelineVars, uploaded, stored, succeeded>>

Handle ==
    /\ UploadResolves /\ MissingFields = {}
    /\ request' = "handling"
    /\ UNCHANGED <<multerVars, pipelineVars, uploaded, storageVars, succeeded>>

\* tap: the handler emitted a value.
HandlerEmits ==
    /\ request = "handling"
    /\ request' = "answered"
    /\ succeeded' = OnRequest
    /\ UNCHANGED <<multerVars, pipelineVars, uploaded, storageVars>>

\* Mutant: catchError deletes the files and answers with an empty value.
HandlerErrorsSwallowed ==
    /\ request \in {"handling", "answered"}
    /\ request' = "answered"
    /\ DeleteAll(OnRequest)
    /\ UNCHANGED <<multerVars, pipelineVars, uploaded, stored, succeeded>>

\* catchError: before a value, or after one when the handler returns an
\* Observable that goes on.
HandlerErrors ==
    /\ request \in {"handling", "answered"}
    /\ request' = "failed"
    /\ DeleteAll(OnRequest)
    /\ UNCHANGED <<multerVars, pipelineVars, uploaded, stored, succeeded>>

-----------------------------------------------------------------------------
RunFile(f) ==
    \/ TempStored(f) \/ TempFails(f)
    \/ CheckPasses(f) \/ CheckThrows(f)
    \/ StoreStarts(f) \/ StoreReturns(f) \/ StoreFails(f)
    \/ RunFileReturns(f) \/ RunFileRejects(f)

Next ==
    \/ \E f \in Files :
          \/ HandleFile(f) \/ RefuseFile(f) \/ LimitReached(f)
          \/ RunFile(f)
    \/ BodyRead
    \/ \E o \in Objects : DeleteReturns(o) \/ DeleteFails(o)
    \/ UploadRejects \/ FileMissing \/ Handle
    \/ HandlerEmits \/ HandlerErrors

Spec == Init /\ [][Next]_vars

\* The body is read to its end, pipelines go on, storage answers, the handler
\* returns.
Fairness ==
    /\ WF_vars(BodyRead) /\ \A f \in Files : WF_vars(RunFile(f))
    /\ \A o \in Objects : WF_vars(DeleteReturns(o) \/ DeleteFails(o))
    /\ WF_vars(UploadRejects \/ FileMissing \/ Handle)
    /\ WF_vars(HandlerEmits \/ HandlerErrors)

FairSpec == Spec /\ Fairness

-----------------------------------------------------------------------------
(* Properties *)

\* The type of each variable.
TypeOK ==
    /\ request \in {"uploading", "rejected", "handling", "answered", "failed"}
    /\ readAll \in BOOLEAN /\ failedUpload \in BOOLEAN
    /\ phase \in [Files -> {"absent", "refused", "temp", "step", "storing",
                            "cleaning", "done", "failed"}]
    /\ step \in [Files -> Nat] /\ \A f \in Files : step[f] <= Len(Pipeline[f]) + 1
    /\ truncated \subseteq Files /\ temp \subseteq Files /\ left \subseteq Files
    /\ uploaded \subseteq Files
    /\ tempPath \in [Files -> Files \union {None}]
    /\ results \in [Files -> SUBSET Objects] /\ tree \in [Files -> SUBSET Objects]
    /\ stored \in [Objects -> Files \union {None, "partial"}]
    /\ removing \subseteq Objects /\ succeeded \subseteq Objects
    /\ deletes \in [Objects -> Nat] /\ kept \subseteq Objects

StoringSteps(f) == {i \in DOMAIN Pipeline[f] : Pipeline[f][i] = "store"}

\* When the handler runs, every required field is there and every object of
\* every part that was sent is in storage, whole, with that part's own bytes;
\* nothing else is.  (intercept resolves only if no part failed.)
HandlerSeesWholeFiles ==
    request = "handling" =>
        /\ \A d \in Required : \E f \in uploaded : FieldOf[f] = d
        /\ truncated = {}
        /\ \A f \in uploaded :
              /\ tree[f] = {<<f, i>> : i \in StoringSteps(f)}
              /\ \A o \in tree[f] : stored[o] = f
        /\ \A o \in Objects : stored[o] # None => o[1] \in uploaded

\* The pipeline's catch block and deleteFilesOnError never both delete an
\* object, nor one of them twice ("THIS SHOULD NOT HAPPEN", local-storage.ts:132;
\* the second call of such a delete would never settle).
DeletedOnce == \A o \in Objects : deletes[o] <= 1

\* When runFile rejects, the objects it had stored are gone, but for those that
\* storage would not delete: it waits for its deletes (Promise.allSettled,
\* pipeline-base.ts:135).
FailedPipelineLeavesNothing ==
    \A f \in Files : phase[f] = "failed" =>
        \A o \in results[PipelineOf(f)] \ kept : stored[o] = None

\* A part's temporary file is there as long as its pipeline may read it, whatever
\* the other parts do, and outlives the pipeline only if unlinkSync threw.
TempFilesAreScratch ==
    /\ \A f \in Files : phase[f] \in {"step", "storing"} => f \in temp
    /\ temp \subseteq Pending \union left

\* While the answer stands, every object whose onSuccess was called is there,
\* whole, and nobody deletes it.  A handler that fails after its first value
\* takes the answer back, and the objects with it.
SucceededStay ==
    request = "answered" =>
        \A o \in succeeded : stored[o] = o[1] /\ o \notin removing

\* A request that was rejected leaves no object behind: "store results holding
\* any delete callbacks should an error occur", "handle file deletion upon
\* request failure" (plan.txt:4-5).
RejectedLeavesNothing ==
    request = "rejected" => \A o \in Objects : stored[o] = None

\* A request that failed after the upload, for a missing field or in the
\* handler, leaves no object behind but those that storage would not delete.
FailedLeavesNothing ==
    request = "failed" ~> \A o \in Objects : stored[o] = None \/ o \in kept

\* The interceptor answers: no failed or truncated part makes it wait forever.
RequestsEnd == <>(request \in {"rejected", "answered", "failed"})
=============================================================================
