----------------------------- MODULE MediaUploads -----------------------------
(***************************************************************************)
(* One upload of an owner (lib/media/uploads), the media asset made of it  *)
(* and the conversions bought for it (lib/media/processing, cloudconvert). *)
(* Browsers put the file into the object store; route handlers keep a      *)
(* session row and an asset row, and every handler is a sequence of calls  *)
(* to the database, the store and the provider between which all others    *)
(* may run, and after any of which its invocation may be killed.           *)
(***************************************************************************)
EXTENDS Naturals, Sequences, FiniteSets

CONSTANTS
  Calls,          \* invocations of route handlers under way at once
  Modes,          \* of "single" and "multipart"
  Strategies,     \* of "direct_ready", "needs_approval" and "convert"
  Parts,          \* parts of a multipart file
  MaxAssets,      \* bound: rows made of this source, one after the other
  MaxJobs,        \* bound: jobs created at the provider
  MaxGrants,      \* bound: conversions decided on or approved
  MaxFaults       \* bound: invocations killed and answers lost

ASSUME CallsAssumption == IsFiniteSet(Calls)
ASSUME BoundsAssumption == {MaxAssets, MaxJobs, MaxGrants, MaxFaults} \subseteq Nat
ASSUME ChoicesAssumption ==
  /\ Modes \subseteq {"single", "multipart"}
  /\ Strategies \subseteq {"direct_ready", "needs_approval", "convert"}

VARIABLES
  mode,           \* upload_mode of the session
  session,        \* row of media_upload_sessions; lapsed: its window is over
  store,          \* R2: the multipart upload, the source, the converted objects
  wiped,          \* assets whose objects the owner began to delete
  asset,          \* row of media_assets with this source, or NoAsset
  jobs,           \* jobs of the provider in the order of their creation
  grants,         \* conversions decided on at completion or approved since
  calls,          \* what each invocation does next and what it has read
  faults

vars == <<mode, session, store, wiped, asset, jobs, grants, calls, faults>>

-----------------------------------------------------------------------------
(* Rows, calls *)

AssetIds == 1..MaxAssets
JobIds == 1..MaxJobs

NoAsset == [id |-> 0, status |-> "none", processing |-> "none", strategy |-> "none",
            job |-> 0, key |-> FALSE]
NoCall == [at |-> "idle", id |-> 0, job |-> 0, seen |-> "none", upload |-> FALSE,
           parts |-> {}]

\* Handlers that work on the upload, and on an asset of which they know the identifier.
ForUpload(at, parts) == [NoCall EXCEPT !.at = at, !.upload = TRUE, !.parts = parts]
ForAsset(at, id, seen) == [NoCall EXCEPT !.at = at, !.id = id, !.seen = seen]

At(c, at) == calls[c].at = at
Start(c, call) == At(c, "idle") /\ calls' = [calls EXCEPT ![c] = call]
Continue(c, call) == calls' = [calls EXCEPT ![c] = call]
Proceed(c, at) == Continue(c, [calls[c] EXCEPT !.at = at])
Return(c) == Continue(c, NoCall)

\* Mutant of Stored: writes are upserts.
Upserted(c) == TRUE

\* The row this invocation works on is still there.
Stored(c) == asset # NoAsset /\ asset.id = calls[c].id

\* Neither rows nor objects change; nor does what was bought.
Reads == UNCHANGED <<mode, session, store, wiped, asset, jobs, grants, faults>>
Elsewhere == UNCHANGED <<mode, wiped, jobs, grants, faults>>

WriteSession(s) == session' = s /\ UNCHANGED <<store, asset>> /\ Elsewhere
WriteAsset(a) == asset' = a /\ UNCHANGED <<mode, session, store, wiped, jobs, faults>>
WriteStore(s) == store' = s /\ UNCHANGED <<session, asset>> /\ Elsewhere

-----------------------------------------------------------------------------
(* The browser and the window of the session *)

Init ==
  /\ mode \in Modes
  /\ session = [status |-> "pending", asset |-> 0, parts |-> {}, lapsed |-> FALSE]
  /\ store = [open |-> mode = "multipart", put |-> {}, source |-> FALSE, converted |-> {}]
  /\ wiped = {} /\ asset = NoAsset /\ jobs = <<>> /\ grants = 0
  /\ calls = [c \in Calls |-> NoCall] /\ faults = 0

\* A signed URL lives as long as the session of a single upload.
PutObject ==
  /\ mode = "single" /\ ~session.lapsed /\ ~store.source
  /\ WriteStore([store EXCEPT !.source = TRUE]) /\ UNCHANGED calls

PutPart(p) ==
  /\ store.open /\ p \notin store.put
  /\ WriteStore([store EXCEPT !.put = @ \union {p}]) /\ UNCHANGED calls

WindowCloses ==
  /\ ~session.lapsed
  /\ WriteSession([session EXCEPT !.lapsed = TRUE]) /\ UNCHANGED calls

-----------------------------------------------------------------------------
(* Progress, resuming, failing, aborting, cleaning up *)

Recoverable == mode = "multipart" /\ ~session.lapsed /\ session.status \notin {"aborted", "ready"}

\* Parts the browser has uploaded are merged with those in the row as it was read.
RecordParts(c, uploaded) ==
  /\ Recoverable /\ Start(c, ForUpload("save", uploaded \union session.parts)) /\ Reads

\* Read together with the parts R2 lists.
ResumeUpload(c) ==
  /\ Recoverable /\ store.open
  /\ Start(c, ForUpload("save", store.put \union session.parts)) /\ Reads

SaveParts(c) ==
  /\ At(c, "save") /\ Return(c)
  /\ WriteSession([session EXCEPT !.parts = calls[c].parts, !.status = "uploading"])

FailUpload(c) ==
  /\ session.status \notin {"ready", "aborted"}
  /\ Start(c, [ForUpload("end", {}) EXCEPT !.seen = "failed"]) /\ Reads

AbortUpload(c) ==
  /\ Start(c, [ForUpload(IF mode = "multipart" THEN "abort" ELSE "end", {})
                 EXCEPT !.seen = "aborted"])
  /\ Reads

\* Mutant of Abandoned: an upload that was being completed is left to itself.
AbandonedBefore == session.status \in {"pending", "uploading", "failed"}

Abandoned == session.status \in {"pending", "uploading", "failed", "completing"}

\* One session of a daily pass over the expired ones.
CleanUp(c) ==
  /\ mode = "multipart" /\ session.asset = 0 /\ Abandoned /\ session.lapsed
  /\ Start(c, [ForUpload("abort", {}) EXCEPT !.seen = "expired"]) /\ Reads

\* An upload that is gone already counts as aborted.
AbortInStore(c) ==
  /\ At(c, "abort") /\ Proceed(c, "end") /\ WriteStore([store EXCEPT !.open = FALSE])

EndSession(c) ==
  /\ At(c, "end") /\ Return(c) /\ WriteSession([session EXCEPT !.status = calls[c].seen])

-----------------------------------------------------------------------------
(* Completion *)

\* The asset of the session, or of its source, is there already; otherwise the upload has
\* to be in time, and not aborted or done.
CompleteUpload(c, uploaded) ==
  /\ IF asset # NoAsset
     THEN Start(c, ForAsset("attach", asset.id,
                     IF asset.status = "ready" THEN "ready" ELSE "processing"))
     ELSE IF mode = "single" THEN Start(c, ForUpload("head", {}))
     ELSE /\ uploaded \union session.parts = Parts
          /\ Start(c, ForUpload("mark", Parts))
  /\ \/ asset # NoAsset /\ session.asset = asset.id
     \/ ~session.lapsed /\ session.status \notin {"aborted", "ready"}
  /\ Reads

MarkCompleting(c) ==
  /\ At(c, "mark") /\ Proceed(c, "assemble")
  /\ WriteSession([session EXCEPT !.parts = calls[c].parts, !.status = "completing"])

\* R2 joins the parts of an open upload; the handler fails if there is none, or if it
\* does not hear of it.
Assemble(c) ==
  /\ At(c, "assemble")
  /\ IF store.open
     THEN /\ store' = [store EXCEPT !.open = FALSE, !.source = TRUE]
          /\ UNCHANGED <<mode, session, wiped, asset, jobs, grants>>
          /\ \/ Proceed(c, "head") /\ UNCHANGED faults
             \/ faults < MaxFaults /\ faults' = faults + 1 /\ Return(c)
     ELSE Return(c) /\ Reads

\* Mutant of SourceExists: nobody asks for the object.
SourceAssumed == TRUE

SourceExists == store.source

\* HEAD of the source.
CheckSource(c) ==
  /\ At(c, "head") /\ Reads /\ IF SourceExists THEN Proceed(c, "insert") ELSE Return(c)

\* The row an upload is recorded as, by the strategy decided on for its file.
Inserted(id, strategy) ==
  [NoAsset EXCEPT
     !.id = id, !.strategy = strategy,
     !.status = IF strategy = "direct_ready" THEN "ready" ELSE "processing",
     !.processing = CASE strategy = "direct_ready" -> "not_required"
                      [] strategy = "needs_approval" -> "approval_required"
                      [] strategy = "convert" -> "queued"]

\* The unique index refuses a second row of the same source.
InsertAsset(c, strategy) ==
  /\ At(c, "insert")
  /\ IF asset = NoAsset
     THEN LET id == Cardinality(wiped) + 1 IN
          /\ id <= MaxAssets /\ (strategy = "convert" => grants < MaxGrants)
          /\ WriteAsset(Inserted(id, strategy))
          /\ grants' = IF strategy = "convert" THEN grants + 1 ELSE grants
          /\ Continue(c, [calls[c] EXCEPT !.at = "link", !.id = id, !.seen = strategy])
     ELSE /\ Reads
          /\ Continue(c, ForAsset("attach", asset.id,
                           IF asset.status = "ready" THEN "ready" ELSE "processing"))

\* The foreign key refuses a row that is gone.
LinkAsset(c) ==
  /\ At(c, "link")
  /\ IF Stored(c)
     THEN /\ WriteSession([session EXCEPT !.asset = asset.id,
               !.status = IF calls[c].seen = "direct_ready" THEN "ready" ELSE "processing"])
          /\ IF calls[c].seen = "convert" THEN Proceed(c, "claim") ELSE Return(c)
     ELSE Return(c) /\ Reads

AttachAsset(c) ==
  /\ At(c, "attach") /\ Return(c)
  /\ IF Stored(c)
     THEN WriteSession([session EXCEPT !.asset = asset.id, !.status = calls[c].seen])
     ELSE Reads

-----------------------------------------------------------------------------
(* Conversion *)

Active == asset.job # 0 /\ asset.processing \in {"queued", "processing"}

\* The owner approves an asset that waits for it, or retries one that failed.
Approve(c) ==
  /\ asset # NoAsset /\ asset.status # "ready" /\ asset.processing # "ready" /\ ~Active
  /\ asset.strategy = "needs_approval" \/ asset.processing = "failed"
  /\ Start(c, ForAsset("approve", asset.id, "none")) /\ Reads

\* The update asks for nothing but the row.
RecordApproval(c) ==
  /\ At(c, "approve")
  /\ IF Stored(c)
     THEN /\ grants < MaxGrants /\ grants' = grants + 1
          /\ WriteAsset([asset EXCEPT !.status = "processing", !.processing = "queued",
                                      !.strategy = "convert", !.job = 0])
          /\ Proceed(c, "claim")
     ELSE Return(c) /\ Reads

Unclaimed(c) == Stored(c) /\ asset.processing = "queued" /\ asset.job = 0

\* Of all that would start the conversion, one gets the row.
Claim(c) ==
  /\ At(c, "claim")
  /\ IF Unclaimed(c)
     THEN /\ WriteAsset([asset EXCEPT !.status = "processing", !.processing = "processing",
                                      !.strategy = "convert"])
          /\ UNCHANGED grants /\ Proceed(c, "order")
     ELSE Return(c) /\ Reads

\* Mutant of NotStarted: the handler asks once more.
OrderedAgain(c) == Proceed(c, "order")

\* After a job could not be started: the session is told by the upload that began it.
NotStarted(c) ==
  Continue(c, [calls[c] EXCEPT !.at = IF calls[c].upload THEN "tell upload" ELSE "publish",
                               !.seen = "failed"])

\* The provider creates a job, refuses, or creates one and is not heard.
OrderJob(c) ==
  /\ At(c, "order") /\ UNCHANGED <<mode, session, store, wiped, asset, grants>>
  /\ \/ NotStarted(c) /\ UNCHANGED <<jobs, faults>>
     \/ /\ Len(jobs) < MaxJobs
        /\ jobs' = Append(jobs, [asset |-> calls[c].id, status |-> "running"])
        /\ \/ /\ Continue(c, [calls[c] EXCEPT !.at = "note", !.job = Len(jobs) + 1])
              /\ UNCHANGED faults
           \/ NotStarted(c) /\ faults < MaxFaults /\ faults' = faults + 1

NoteJob(c) ==
  /\ At(c, "note")
  /\ IF Stored(c)
     THEN /\ WriteAsset([asset EXCEPT !.job = calls[c].job, !.processing = "queued",
                                      !.strategy = "convert", !.key = TRUE])
          /\ UNCHANGED grants /\ Return(c)
     ELSE NotStarted(c) /\ Reads

TellUpload(c) ==
  /\ At(c, "tell upload") /\ Proceed(c, "publish")
  /\ WriteSession([session EXCEPT !.status = "failed"])

\* A job ends; the provider has exported what it converted.
JobFinishes(j) ==
  /\ jobs[j].status = "running"
  /\ jobs' = [jobs EXCEPT ![j] = [jobs[j] EXCEPT !.status = "finished"]]
  /\ store' = [store EXCEPT !.converted = @ \union {jobs[j].asset}]
  /\ UNCHANGED <<mode, session, wiped, asset, grants, calls, faults>>

JobFails(j) ==
  /\ jobs[j].status = "running"
  /\ jobs' = [jobs EXCEPT ![j] = [jobs[j] EXCEPT !.status = "failed"]]
  /\ UNCHANGED <<mode, session, store, wiped, asset, grants, calls, faults>>

\* A page that shows the asset asks for its job; row and job are read here, and what they
\* say is written below.
Poll(c) ==
  /\ asset # NoAsset /\ asset.job # 0 /\ asset.processing \notin {"ready", "failed"}
  /\ Start(c, ForAsset("publish", asset.id, jobs[asset.job].status)) /\ Reads

\* A report of the provider, late or once more, of how a job is or was; one of another
\* job than the row names is ignored.
Webhook(c, j, said) ==
  /\ asset # NoAsset /\ asset.id = jobs[j].asset /\ asset.job \in {0, j}
  /\ said \in {"running", jobs[j].status}
  /\ Start(c, ForAsset("publish", asset.id, said)) /\ Reads

Outcome(said) == CASE said = "finished" -> "ready" [] said = "failed" -> "failed"
                   [] said = "running" -> "processing"

\* The row takes what was read, whatever it says by now.
Publish(c) ==
  LET outcome == Outcome(calls[c].seen) IN
  /\ At(c, "publish")
  /\ IF Stored(c)
     THEN /\ WriteAsset([asset EXCEPT !.status = outcome, !.processing = outcome,
                                      !.key = @ \/ outcome = "ready"])
          /\ UNCHANGED grants
          /\ IF outcome = "processing" THEN Return(c)
             ELSE Continue(c, ForAsset("tell", calls[c].id, outcome))
     ELSE Return(c) /\ Reads

TellSession(c) ==
  /\ At(c, "tell") /\ Return(c)
  /\ IF session.asset = calls[c].id
     THEN WriteSession([session EXCEPT !.status = calls[c].seen])
     ELSE Reads

-----------------------------------------------------------------------------
(* Deletion, death of an invocation *)

\* First the objects the row names,
DeleteObjects(c) ==
  /\ asset # NoAsset /\ Start(c, ForAsset("drop", asset.id, "none"))
  /\ store' = [store EXCEPT !.source = FALSE,
                            !.converted = IF asset.key THEN @ \ {asset.id} ELSE @]
  /\ wiped' = wiped \union {asset.id}
  /\ UNCHANGED <<mode, session, asset, jobs, grants, faults>>

\* then the row, and with it what the session names.
DeleteAsset(c) ==
  /\ At(c, "drop") /\ Return(c)
  /\ IF Stored(c)
     THEN /\ asset' = NoAsset
          /\ session' = [session EXCEPT !.asset = IF @ = calls[c].id THEN 0 ELSE @]
          /\ UNCHANGED <<store>> /\ Elsewhere
     ELSE Reads

Dies(c) ==
  /\ ~At(c, "idle") /\ faults < MaxFaults /\ faults' = faults + 1 /\ Return(c)
  /\ UNCHANGED <<mode, session, store, wiped, asset, jobs, grants>>

-----------------------------------------------------------------------------
(* Specification *)

Request(c) ==
  \/ \E uploaded \in SUBSET store.put : RecordParts(c, uploaded) \/ CompleteUpload(c, uploaded)
  \/ ResumeUpload(c) \/ FailUpload(c) \/ AbortUpload(c)
  \/ Approve(c) \/ DeleteObjects(c)

Background(c) ==
  \/ CleanUp(c) \/ Poll(c)
  \/ \E j \in DOMAIN jobs : \E said \in {"running", "finished", "failed"} : Webhook(c, j, said)

GoesOn(c) ==
  \/ SaveParts(c) \/ AbortInStore(c) \/ EndSession(c)
  \/ MarkCompleting(c) \/ Assemble(c) \/ CheckSource(c)
  \/ \E strategy \in Strategies : InsertAsset(c, strategy)
  \/ LinkAsset(c) \/ AttachAsset(c)
  \/ RecordApproval(c) \/ Claim(c) \/ OrderJob(c) \/ NoteJob(c) \/ TellUpload(c)
  \/ Publish(c) \/ TellSession(c) \/ DeleteAsset(c)

Browser == PutObject \/ (\E p \in Parts : PutPart(p)) \/ WindowCloses

Converts == \E j \in DOMAIN jobs : JobFinishes(j) \/ JobFails(j)

Next ==
  \/ Browser \/ Converts
  \/ \E c \in Calls : Request(c) \/ Background(c) \/ GoesOn(c) \/ Dies(c)

Spec == Init /\ [][Next]_vars

\* Handlers run to their end, and the daily pass comes again and again. Nobody must poll:
\* a page gives up after 45 minutes or at a refused answer, and no pass asks for jobs.
Fairness ==
  /\ \A c \in Calls : WF_vars(GoesOn(c))
  /\ SF_vars(\E c \in Calls : CleanUp(c))

FairSpec == Spec /\ Fairness

-----------------------------------------------------------------------------
(* Properties *)

Statuses == {"pending", "uploading", "completing", "processing", "ready", "failed",
             "aborted", "expired"}

\* Types of all variables; a session names the one row there is, parts it lists were
\* uploaded, and a row has an identifier no deleted one had.
TypeOK ==
  /\ mode \in Modes /\ faults \in 0..MaxFaults /\ grants \in 0..MaxGrants
  /\ session.status \in Statuses /\ session.lapsed \in BOOLEAN
  /\ session.parts \subseteq store.put
  /\ session.asset # 0 => session.asset = asset.id
  /\ store.open \in BOOLEAN /\ store.source \in BOOLEAN
  /\ store.put \subseteq Parts /\ store.converted \subseteq AssetIds
  /\ wiped \subseteq AssetIds
  /\ asset # NoAsset => asset.id \in wiped \union {Cardinality(wiped) + 1}
  /\ Len(jobs) <= MaxJobs /\ \A j \in DOMAIN jobs : jobs[j].asset \in AssetIds
  /\ \A c \in Calls : calls[c].parts \subseteq store.put

\* What the library shows as ready can be played: the file is there, or its conversion,
\* unless the owner has begun to delete it; also when the row takes a job's outcome that
\* was read before other jobs were started.
ReadyIsPlayable ==
  asset.status = "ready" /\ wiped = {} =>
    IF asset.strategy = "direct_ready" THEN store.source ELSE asset.id \in store.converted

\* No more jobs are paid for than were decided on or approved: however often an upload is
\* completed at once or again, and whoever else would start its conversion, each of these
\* buys one job at most; a file that plays as it is buys none.
JobsAreGranted == Len(jobs) <= grants

\* Documented: repeated completion or retry requests do not create several jobs for the
\* same source. Two approvals under way at once do.
OneJobAtATime ==
  Cardinality({j \in DOMAIN jobs : jobs[j].status = "running"}) <= 1

\* Parts nobody will join do not stay in the store: an upload that is given up, by its
\* owner or by the clock, is aborted, whatever was under way.
PartsAreReleased == session.lapsed ~> ~store.open
=============================================================================
