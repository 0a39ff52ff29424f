------------------------- MODULE MediaUploadsProofs -------------------------
(***************************************************************************)
(* What holds of an upload, its asset and its conversions for any number   *)
(* of invocations, assets, jobs, grants and faults.                        *)
(***************************************************************************)
EXTENDS MediaUploads, FiniteSetTheorems, SequenceTheorems, TLAPS

-----------------------------------------------------------------------------
(* The inductive invariant *)

Sessions == [status : Statuses, asset : Nat, parts : SUBSET Parts, lapsed : BOOLEAN]
Stores == [open : BOOLEAN, put : SUBSET Parts, source : BOOLEAN, converted : SUBSET AssetIds]
OnAsset == {"link", "attach", "approve", "claim", "order", "note", "tell upload",
            "publish", "tell", "drop"}
Points == OnAsset \union {"idle", "save", "abort", "end", "mark", "assemble", "head", "insert"}
Read == {"none", "ready", "processing", "failed", "aborted", "expired", "direct_ready",
         "needs_approval", "convert", "running", "finished"}

Rows == [id : Nat, status : {"none", "processing", "ready", "failed"},
         processing : {"none", "not_required", "approval_required", "queued", "processing",
                       "ready", "failed"},
         strategy : {"none", "direct_ready", "needs_approval", "convert"},
         job : Nat, key : BOOLEAN]
JobRows == [asset : AssetIds, status : {"running", "finished", "failed"}]
CallRows == [at : Points, id : Nat, job : Nat, seen : Read, upload : BOOLEAN,
             parts : SUBSET Parts]

\* What a call has read fits what it does next.
Fits(k) ==
  /\ k.at \in {"abort", "end"} => k.seen \in {"failed", "aborted", "expired"}
  /\ k.at = "attach" => k.seen \in {"ready", "processing"}
  /\ k.at = "tell" => k.seen \in {"ready", "failed"}
  /\ k.at = "publish" => k.seen \in {"running", "finished", "failed"}
  /\ k.at = "tell upload" => k.seen = "failed"
  /\ k.at \in OnAsset => k.id \in AssetIds

Rest == /\ mode \in Modes /\ faults \in 0..MaxFaults /\ grants \in 0..MaxGrants
        /\ session \in Sessions /\ store \in Stores /\ wiped \subseteq AssetIds
        /\ asset \in Rows /\ (asset # NoAsset => asset.id \in AssetIds)
        /\ jobs \in Seq(JobRows) /\ Len(jobs) <= MaxJobs

Callers == calls \in [Calls -> CallRows] /\ \A c \in Calls : Fits(calls[c])

Types == Rest /\ Callers

\* A call knows parts that were put, and a job that is noted is one of its asset.
Noted(k) ==
  /\ k.parts \subseteq store.put
  /\ k.at = "note" => k.job \in DOMAIN jobs /\ jobs[k.job].asset = k.id

Agree ==
  /\ session.parts \subseteq store.put
  /\ session.asset # 0 => session.asset = asset.id
  /\ asset # NoAsset => asset.id \in wiped \union {Cardinality(wiped) + 1}
  /\ asset.job # 0 => asset.job \in DOMAIN jobs /\ jobs[asset.job].asset = asset.id
  /\ \A c \in Calls : Noted(calls[c])

-----------------------------------------------------------------------------
(* What becomes of a call *)

LEMMA NoCallTyped ==
  /\ NoCall \in CallRows /\ Fits(NoCall) /\ NoCall.at = "idle" /\ NoCall.parts = {}
  /\ NoAsset \in Rows /\ NoAsset.id = 0 /\ NoAsset.job = 0 /\ NoAsset.processing = "none"
  /\ NoAsset.strategy = "none" /\ NoAsset.status = "none"
  <1>1. NoCall \in CallRows /\ NoCall.at = "idle" /\ NoCall.parts = {}
    BY DEF NoCall, CallRows, Points, Read
  <1>2. Fits(NoCall)
    BY <1>1 DEF Fits, OnAsset
  <1>3. NoAsset \in Rows
    BY DEF NoAsset, Rows
  <1>4. /\ NoAsset.id = 0 /\ NoAsset.job = 0 /\ NoAsset.processing = "none"
        /\ NoAsset.strategy = "none" /\ NoAsset.status = "none"
    BY DEF NoAsset
  <1> QED BY <1>1, <1>2, <1>3, <1>4

LEMMA Returned ==
  ASSUME Callers, NEW c \in Calls, Return(c)
  PROVE  /\ Callers' /\ calls'[c] = NoCall
         /\ \A d \in Calls : d # c => calls'[d] = calls[d]
  BY NoCallTyped DEF Callers, Return, Continue

LEMMA Proceeded ==
  ASSUME Callers, NEW c \in Calls, NEW at \in Points, Proceed(c, at)
  PROVE  /\ calls' \in [Calls -> CallRows]
         /\ \A d \in Calls : d # c => calls'[d] = calls[d]
         /\ calls'[c].at = at /\ calls'[c].id = calls[c].id /\ calls'[c].job = calls[c].job
         /\ calls'[c].seen = calls[c].seen /\ calls'[c].upload = calls[c].upload
         /\ calls'[c].parts = calls[c].parts
  <1> DEFINE k == [calls[c] EXCEPT !.at = at]
  <1>1. calls[c] \in CallRows
    BY DEF Callers
  <1>2. /\ k \in CallRows /\ k.at = at /\ k.id = calls[c].id /\ k.job = calls[c].job
        /\ k.seen = calls[c].seen /\ k.upload = calls[c].upload /\ k.parts = calls[c].parts
    BY <1>1 DEF CallRows
  <1>3. calls' = [calls EXCEPT ![c] = k]
    BY DEF Proceed, Continue
  <1> HIDE DEF k
  <1> QED BY <1>2, <1>3 DEF Callers

LEMMA AssetCall ==
  ASSUME NEW at \in Points, NEW id \in Nat, NEW seen \in Read
  PROVE  /\ ForAsset(at, id, seen) \in CallRows /\ ForAsset(at, id, seen).at = at
         /\ ForAsset(at, id, seen).id = id /\ ForAsset(at, id, seen).seen = seen
         /\ ForAsset(at, id, seen).parts = {}
  BY NoCallTyped DEF ForAsset, CallRows

LEMMA UploadCall ==
  ASSUME NEW at \in Points, NEW parts \in SUBSET Parts
  PROVE  /\ ForUpload(at, parts) \in CallRows /\ ForUpload(at, parts).at = at
         /\ ForUpload(at, parts).parts = parts
  BY NoCallTyped DEF ForUpload, CallRows

LEMMA Continued ==
  ASSUME Callers, NEW c \in Calls, NEW k \in CallRows, Continue(c, k)
  PROVE  /\ calls' \in [Calls -> CallRows] /\ calls'[c] = k
         /\ \A d \in Calls : d # c => calls'[d] = calls[d]
  BY DEF Callers, Continue

\* A call that is begun was idle.
LEMMA Started ==
  ASSUME Callers, NEW c \in Calls, NEW k \in CallRows, Start(c, k)
  PROVE  /\ calls' \in [Calls -> CallRows] /\ calls'[c] = k /\ calls[c].at = "idle"
         /\ \A d \in Calls : d # c => calls'[d] = calls[d]
  BY DEF Callers, Start, At

LEMMA CallersKept ==
  ASSUME Callers, NEW c \in Calls, calls' \in [Calls -> CallRows], Fits(calls'[c]),
         \A d \in Calls : d # c => calls'[d] = calls[d]
  PROVE  Callers'
  BY DEF Callers

\* Rows after a write.
LEMMA Written ==
  ASSUME asset \in Rows, NEW status \in {"processing", "ready", "failed"},
         NEW processing \in {"queued", "processing", "ready", "failed"}
  PROVE  [asset EXCEPT !.status = status, !.processing = processing] \in Rows
  BY DEF Rows
-----------------------------------------------------------------------------
(* Steps that leave asset, jobs and grants alone *)

\* What a call may do next after such a step.
MayBe(c, k) ==
  \/ k.at \in {"idle", "save", "end", "abort", "attach", "head", "mark", "assemble"}
  \/ k.at = "insert" /\ store.source
  \/ k.at = "approve" /\ asset # NoAsset /\ asset.status # "ready"
  \/ /\ k.at = "publish" /\ asset # NoAsset /\ k.id = asset.id
     /\ \E j \in DOMAIN jobs : jobs[j].asset = asset.id /\ k.seen \in {"running", jobs[j].status}
  \/ /\ k.at \in {"tell upload", "publish"} /\ k.seen = "failed"
     /\ calls[c].at \in {"order", "note", "tell upload"}
  \/ k.at = "claim" /\ calls[c].at = "link" /\ calls[c].seen = "convert"

Aside(c) ==
  /\ UNCHANGED <<mode, wiped, asset, jobs, grants>> /\ faults' \in 0..MaxFaults
  /\ session' \in Sessions /\ session'.parts \subseteq store.put
  /\ session'.asset # 0 => session'.asset = asset.id
  /\ store' \in Stores /\ store'.put = store.put /\ store'.converted = store.converted
  /\ store.source => store'.source
  /\ calls' \in [Calls -> CallRows] /\ \A d \in Calls : d # c => calls'[d] = calls[d]
  /\ Fits(calls'[c]) /\ calls'[c].parts \subseteq store.put /\ MayBe(c, calls'[c])

LEMMA BegunAside ==
  ASSUME Types, Agree, NEW c \in Calls, NEW k \in CallRows, Start(c, k), Reads, Fits(k),
         k.parts \subseteq store.put, MayBe(c, k)
  PROVE  Aside(c)
  <1>1. /\ calls' \in [Calls -> CallRows] /\ calls'[c] = k
        /\ \A d \in Calls : d # c => calls'[d] = calls[d]
    BY Started DEF Types
  <1> QED BY <1>1 DEF Aside, Types, Rest, Agree, Reads

LEMMA UploadBegins ==
  ASSUME Types, Agree, NEW c \in Calls, NEW parts \in SUBSET store.put,
         NEW at \in {"save", "head", "mark"}, Start(c, ForUpload(at, parts)), Reads
  PROVE  Aside(c)
  <1> DEFINE k == ForUpload(at, parts)
  <1>1. parts \in SUBSET Parts
    BY DEF Types, Rest, Stores
  <1>2. k \in CallRows /\ k.at = at /\ k.parts = parts
    BY <1>1, UploadCall DEF Points
  <1>3. Fits(k) /\ MayBe(c, k)
    BY <1>2 DEF Fits, OnAsset, MayBe
  <1> HIDE DEF k
  <1> QED BY <1>2, <1>3, BegunAside DEF k

LEMMA UploadEnds ==
  ASSUME Types, Agree, NEW c \in Calls, NEW at \in {"end", "abort"},
         NEW seen \in {"failed", "aborted", "expired"},
         Start(c, [ForUpload(at, {}) EXCEPT !.seen = seen]), Reads
  PROVE  Aside(c)
  <1> DEFINE k == [ForUpload(at, {}) EXCEPT !.seen = seen]
  <1>1. ForUpload(at, {}) \in CallRows /\ ForUpload(at, {}).at = at /\ ForUpload(at, {}).parts = {}
    BY UploadCall DEF Points
  <1>2. k \in CallRows /\ k.at = at /\ k.parts = {} /\ k.seen = seen
    BY <1>1 DEF CallRows, Read
  <1>3. Fits(k) /\ MayBe(c, k)
    BY <1>2 DEF Fits, OnAsset, MayBe
  <1> HIDE DEF k
  <1> QED BY <1>2, <1>3, BegunAside DEF k

LEMMA AssetBegins ==
  ASSUME Types, Agree, NEW c \in Calls, NEW at \in {"attach", "approve", "publish"},
         NEW seen \in Read, asset # NoAsset,
         Start(c, ForAsset(at, asset.id, seen)), Reads,
         at = "attach" => seen \in {"ready", "processing"},
         at = "approve" => asset.status # "ready",
         at = "publish" => \E j \in DOMAIN jobs :
                             jobs[j].asset = asset.id /\ seen \in {"running", jobs[j].status}
  PROVE  Aside(c)
  <1> DEFINE k == ForAsset(at, asset.id, seen)
  <1>1. asset.id \in Nat /\ asset.id \in AssetIds
    BY DEF Types, Rest, Rows
  <1>0. at \in Points
    BY DEF Points, OnAsset
  <1>2. k \in CallRows /\ k.at = at /\ k.parts = {} /\ k.seen = seen /\ k.id = asset.id
    BY <1>0, <1>1, AssetCall
  <1>3. at = "publish" => seen \in {"running", "finished", "failed"}
    <2>1. \A j \in DOMAIN jobs : jobs[j] \in JobRows
      BY DEF Types, Rest
    <2> QED BY <2>1 DEF JobRows
  <1>4. Fits(k)
    BY <1>1, <1>2, <1>3 DEF Fits
  <1>5. MayBe(c, k)
    BY <1>2 DEF MayBe
  <1> HIDE DEF k
  <1> QED BY <1>2, <1>4, <1>5, BegunAside DEF k

LEMMA RequestsAside ==
  ASSUME Types, Agree, NEW c \in Calls, Request(c) \/ Background(c)
  PROVE  Aside(c) \/ DeleteObjects(c)
  <1>0. /\ session.parts \subseteq store.put /\ Parts \in SUBSET Parts
        /\ {"ready", "processing", "failed", "finished", "running", "none"} \subseteq Read
    BY DEF Agree, Read
  <1>1. ASSUME NEW uploaded \in SUBSET store.put, RecordParts(c, uploaded) PROVE Aside(c)
    BY <1>0, <1>1, UploadBegins DEF RecordParts
  <1>2. ASSUME NEW uploaded \in SUBSET store.put, CompleteUpload(c, uploaded) PROVE Aside(c)
    <2>1. CASE asset # NoAsset
      BY <1>0, <1>2, <2>1, AssetBegins DEF CompleteUpload
    <2>2. CASE asset = NoAsset /\ mode = "single"
      BY <1>2, <2>2, UploadBegins DEF CompleteUpload
    <2>3. CASE asset = NoAsset /\ mode # "single"
      <3>1. Parts \in SUBSET store.put
        BY <1>0, <1>2, <2>3 DEF CompleteUpload
      <3> QED BY <3>1, <1>2, <2>3, UploadBegins DEF CompleteUpload
    <2> QED BY <2>1, <2>2, <2>3
  <1>3. CASE ResumeUpload(c)
    BY <1>0, <1>3, UploadBegins DEF ResumeUpload
  <1>4. CASE FailUpload(c)
    BY <1>4, UploadEnds DEF FailUpload
  <1>5. CASE AbortUpload(c)
    BY <1>5, UploadEnds DEF AbortUpload
  <1>6. CASE CleanUp(c)
    BY <1>6, UploadEnds DEF CleanUp
  <1>7. CASE Approve(c)
    BY <1>0, <1>7, AssetBegins DEF Approve
  <1>8. CASE Poll(c)
    <2>1. asset.job \in DOMAIN jobs /\ jobs[asset.job].asset = asset.id
      BY <1>8 DEF Poll, Agree
    <2>2. jobs[asset.job] \in JobRows
      BY <2>1 DEF Types, Rest
    <2>3. jobs[asset.job].status \in Read
      BY <2>2 DEF JobRows, Read
    <2> QED BY <1>8, <2>1, <2>3, AssetBegins DEF Poll
  <1>9. ASSUME NEW j \in DOMAIN jobs, NEW said \in {"running", "finished", "failed"},
               Webhook(c, j, said)
        PROVE  Aside(c)
    BY <1>0, <1>9, AssetBegins DEF Webhook
  <1> QED BY <1>1, <1>2, <1>3, <1>4, <1>5, <1>6, <1>7, <1>8, <1>9 DEF Request, Background

\* Of the others, these write the session, the store, or nothing.
LEMMA SessionWritten ==
  ASSUME Types, Agree, NEW c \in Calls, NEW s \in Sessions, WriteSession(s),
         s.parts \subseteq store.put, s.asset # 0 => s.asset = asset.id,
         calls' \in [Calls -> CallRows], \A d \in Calls : d # c => calls'[d] = calls[d],
         Fits(calls'[c]), calls'[c].parts \subseteq store.put, MayBe(c, calls'[c])
  PROVE  Aside(c)
  BY DEF Types, Rest, Aside, WriteSession, Elsewhere

LEMMA NothingWritten ==
  ASSUME Types, Agree, NEW c \in Calls, Reads,
         calls' \in [Calls -> CallRows], \A d \in Calls : d # c => calls'[d] = calls[d],
         Fits(calls'[c]), calls'[c].parts \subseteq store.put, MayBe(c, calls'[c])
  PROVE  Aside(c)
  BY DEF Types, Rest, Agree, Aside, Reads

LEMMA ReturnAside ==
  ASSUME Types, NEW c \in Calls, Return(c)
  PROVE  /\ calls' \in [Calls -> CallRows] /\ \A d \in Calls : d # c => calls'[d] = calls[d]
         /\ Fits(calls'[c]) /\ calls'[c].parts \subseteq store.put /\ MayBe(c, calls'[c])
         /\ calls'[c].at = "idle"
  BY Returned, NoCallTyped DEF Types, MayBe, Callers

\* A call of one kind goes on to another: what it read stays.
LEMMA ProceedAside ==
  ASSUME Types, Agree, NEW c \in Calls,
         NEW at \in {"end", "assemble", "head", "insert", "claim", "publish"}, Proceed(c, at),
         at = "end" => calls[c].at = "abort", at = "insert" => store.source,
         at = "claim" => calls[c].at = "link" /\ calls[c].seen = "convert",
         at = "publish" => calls[c].at = "tell upload"
  PROVE  /\ calls' \in [Calls -> CallRows] /\ \A d \in Calls : d # c => calls'[d] = calls[d]
         /\ Fits(calls'[c]) /\ calls'[c].parts \subseteq store.put /\ MayBe(c, calls'[c])
  <1>0. at \in Points
    BY DEF Points, OnAsset
  <1>1. /\ calls' \in [Calls -> CallRows] /\ \A d \in Calls : d # c => calls'[d] = calls[d]
        /\ calls'[c].at = at /\ calls'[c].id = calls[c].id /\ calls'[c].seen = calls[c].seen
        /\ calls'[c].parts = calls[c].parts
    BY <1>0, Proceeded DEF Types
  <1>2. Fits(calls[c]) /\ calls[c].parts \subseteq store.put
    BY DEF Types, Callers, Agree, Noted
  <1>3. Fits(calls'[c])
    BY <1>1, <1>2 DEF Fits, OnAsset
  <1>4. MayBe(c, calls'[c])
    BY <1>1, <1>2 DEF MayBe, Fits
  <1> QED BY <1>1, <1>2, <1>3, <1>4

LEMMA SavePartsAside ==
  ASSUME Types, Agree, NEW c \in Calls, SaveParts(c)
  PROVE  Aside(c)
  <1> DEFINE s == [session EXCEPT !.parts = calls[c].parts, !.status = "uploading"]
  <1>1. calls[c].parts \in SUBSET Parts /\ calls[c].parts \subseteq store.put
    BY DEF Types, Callers, CallRows, Agree, Noted
  <1>2. s \in Sessions /\ s.parts = calls[c].parts /\ s.asset = session.asset
    BY <1>1 DEF Types, Rest, Sessions, Statuses
  <1>3. WriteSession(s) /\ Return(c)
    BY DEF SaveParts
  <1> HIDE DEF s
  <1> QED BY <1>1, <1>2, <1>3, ReturnAside, SessionWritten DEF Agree

LEMMA EndSessionAside ==
  ASSUME Types, Agree, NEW c \in Calls, EndSession(c)
  PROVE  Aside(c)
  <1> DEFINE s == [session EXCEPT !.status = calls[c].seen]
  <1>1. calls[c].seen \in Statuses
    BY DEF EndSession, At, Types, Callers, Fits, Statuses
  <1>2. s \in Sessions /\ s.parts = session.parts /\ s.asset = session.asset
    BY <1>1 DEF Types, Rest, Sessions
  <1>3. WriteSession(s) /\ Return(c)
    BY DEF EndSession
  <1> HIDE DEF s
  <1> QED BY <1>2, <1>3, ReturnAside, SessionWritten DEF Agree

LEMMA MarkCompletingAside ==
  ASSUME Types, Agree, NEW c \in Calls, MarkCompleting(c)
  PROVE  Aside(c)
  <1> DEFINE s == [session EXCEPT !.parts = calls[c].parts, !.status = "completing"]
  <1>1. calls[c].parts \in SUBSET Parts /\ calls[c].parts \subseteq store.put
    BY DEF Types, Callers, CallRows, Agree, Noted
  <1>2. s \in Sessions /\ s.parts = calls[c].parts /\ s.asset = session.asset
    BY <1>1 DEF Types, Rest, Sessions, Statuses
  <1>3. WriteSession(s) /\ Proceed(c, "assemble")
    BY DEF MarkCompleting
  <1> HIDE DEF s
  <1> QED BY <1>1, <1>2, <1>3, ProceedAside, SessionWritten DEF Agree

LEMMA LinkAssetAside ==
  ASSUME Types, Agree, NEW c \in Calls, LinkAsset(c)
  PROVE  Aside(c)
  <1>1. CASE Stored(c)
    <2> DEFINE s == [session EXCEPT !.asset = asset.id,
                 !.status = IF calls[c].seen = "direct_ready" THEN "ready" ELSE "processing"]
    <2>1. s \in Sessions /\ s.parts = session.parts /\ s.asset = asset.id
      BY DEF Types, Rest, Sessions, Rows, Statuses
    <2>2. WriteSession(s) /\ IF calls[c].seen = "convert" THEN Proceed(c, "claim") ELSE Return(c)
      BY <1>1 DEF LinkAsset
    <2>3. calls[c].at = "link"
      BY DEF LinkAsset, At
    <2> HIDE DEF s
    <2> QED BY <2>1, <2>2, <2>3, ProceedAside, ReturnAside, SessionWritten DEF Agree
  <1>2. CASE ~Stored(c)
    BY <1>2, ReturnAside, NothingWritten DEF LinkAsset
  <1> QED BY <1>1, <1>2

LEMMA AttachAssetAside ==
  ASSUME Types, Agree, NEW c \in Calls, AttachAsset(c)
  PROVE  Aside(c)
  <1>1. CASE Stored(c)
    <2> DEFINE s == [session EXCEPT !.asset = asset.id, !.status = calls[c].seen]
    <2>0. calls[c].seen \in Statuses
      BY DEF AttachAsset, At, Types, Callers, Fits, Statuses
    <2>1. s \in Sessions /\ s.parts = session.parts /\ s.asset = asset.id
      BY <2>0 DEF Types, Rest, Sessions, Rows
    <2>2. WriteSession(s) /\ Return(c)
      BY <1>1 DEF AttachAsset
    <2> HIDE DEF s
    <2> QED BY <2>1, <2>2, ReturnAside, SessionWritten DEF Agree
  <1>2. CASE ~Stored(c)
    BY <1>2, ReturnAside, NothingWritten DEF AttachAsset
  <1> QED BY <1>1, <1>2

LEMMA TellUploadAside ==
  ASSUME Types, Agree, NEW c \in Calls, TellUpload(c)
  PROVE  Aside(c)
  <1> DEFINE s == [session EXCEPT !.status = "failed"]
  <1>1. s \in Sessions /\ s.parts = session.parts /\ s.asset = session.asset
    BY DEF Types, Rest, Sessions, Statuses
  <1>2. WriteSession(s) /\ Proceed(c, "publish") /\ calls[c].at = "tell upload"
    BY DEF TellUpload, At
  <1> HIDE DEF s
  <1> QED BY <1>1, <1>2, ProceedAside, SessionWritten DEF Agree

LEMMA TellSessionAside ==
  ASSUME Types, Agree, NEW c \in Calls, TellSession(c)
  PROVE  Aside(c)
  <1>1. CASE session.asset = calls[c].id
    <2> DEFINE s == [session EXCEPT !.status = calls[c].seen]
    <2>0. calls[c].seen \in Statuses
      BY DEF TellSession, At, Types, Callers, Fits, Statuses
    <2>1. s \in Sessions /\ s.parts = session.parts /\ s.asset = session.asset
      BY <2>0 DEF Types, Rest, Sessions
    <2>2. WriteSession(s) /\ Return(c)
      BY <1>1 DEF TellSession
    <2> HIDE DEF s
    <2> QED BY <2>1, <2>2, ReturnAside, SessionWritten DEF Agree
  <1>2. CASE session.asset # calls[c].id
    BY <1>2, ReturnAside, NothingWritten DEF TellSession
  <1> QED BY <1>1, <1>2

LEMMA StoreAside ==
  ASSUME Types, Agree, NEW c \in Calls, AbortInStore(c) \/ Assemble(c) \/ CheckSource(c) \/ Dies(c)
  PROVE  Aside(c)
  <1>1. CASE AbortInStore(c)
    <2>1. Proceed(c, "end") /\ calls[c].at = "abort" /\ WriteStore([store EXCEPT !.open = FALSE])
      BY <1>1 DEF AbortInStore, At
    <2> QED BY <2>1, ProceedAside DEF Types, Rest, Agree, Aside, WriteStore, Elsewhere, Stores
  <1>2. CASE Assemble(c)
    <2>1. CASE store.open
      <3>1. store' = [store EXCEPT !.open = FALSE, !.source = TRUE]
        BY <1>2, <2>1 DEF Assemble
      <3>2. UNCHANGED <<mode, session, wiped, asset, jobs, grants>>
        BY <1>2, <2>1 DEF Assemble
      <3>3. \/ Proceed(c, "head") /\ faults' = faults
            \/ Return(c) /\ faults < MaxFaults /\ faults' = faults + 1
        BY <1>2, <2>1 DEF Assemble
      <3>4. faults' \in 0..MaxFaults
        BY <3>3, BoundsAssumption DEF Types, Rest
      <3> QED BY <3>1, <3>2, <3>3, <3>4, ProceedAside, ReturnAside
              DEF Types, Rest, Agree, Aside, Stores
    <2>2. CASE ~store.open
      BY <1>2, <2>2, ReturnAside, NothingWritten DEF Assemble
    <2> QED BY <2>1, <2>2
  <1>3. CASE CheckSource(c)
    BY <1>3, ProceedAside, ReturnAside, NothingWritten DEF CheckSource, SourceExists
  <1>4. CASE Dies(c)
    <2>1. faults' \in 0..MaxFaults
      BY <1>4, BoundsAssumption DEF Dies, Types, Rest
    <2> QED BY <1>4, <2>1, ReturnAside DEF Dies, Types, Rest, Agree, Aside
  <1> QED BY <1>1, <1>2, <1>3, <1>4

\* The job could not be started, or nothing is left to note it on.
LEMMA NotStartedAside ==
  ASSUME Types, Agree, NEW c \in Calls, NotStarted(c), calls[c].at \in {"order", "note"}
  PROVE  /\ calls' \in [Calls -> CallRows] /\ \A d \in Calls : d # c => calls'[d] = calls[d]
         /\ Fits(calls'[c]) /\ calls'[c].parts \subseteq store.put /\ MayBe(c, calls'[c])
         /\ calls'[c].at \in {"tell upload", "publish"}
  <1> DEFINE at == IF calls[c].upload THEN "tell upload" ELSE "publish"
             k == [calls[c] EXCEPT !.at = at, !.seen = "failed"]
  <1>1. calls[c] \in CallRows /\ Fits(calls[c]) /\ calls[c].parts \subseteq store.put
    BY DEF Types, Callers, Agree, Noted
  <1>2. at \in Points /\ "failed" \in Read /\ at \in {"tell upload", "publish"}
    BY DEF Points, OnAsset, Read
  <1>3. Continue(c, k)
    BY DEF NotStarted
  <1> HIDE DEF at
  <1>4. /\ k \in CallRows /\ k.at = at /\ k.seen = "failed" /\ k.id = calls[c].id
        /\ k.parts = calls[c].parts
    BY <1>1, <1>2 DEF CallRows
  <1>5. Fits(k)
    BY <1>1, <1>2, <1>4 DEF Fits, OnAsset
  <1>6. MayBe(c, k)
    BY <1>2, <1>4 DEF MayBe
  <1> HIDE DEF k
  <1> QED BY <1>1, <1>2, <1>3, <1>4, <1>5, <1>6, Continued DEF Types

\* The steps that do write the asset, buy a job or delete something.
Deciding(c) ==
  \/ \E strategy \in Strategies : InsertAsset(c, strategy) /\ asset = NoAsset
  \/ RecordApproval(c) /\ Stored(c)
  \/ Claim(c) /\ Unclaimed(c)
  \/ OrderJob(c) /\ jobs' # jobs
  \/ NoteJob(c) /\ Stored(c)
  \/ Publish(c) /\ Stored(c)
  \/ DeleteObjects(c)
  \/ DeleteAsset(c) /\ Stored(c)

LEMMA WorkAside ==
  ASSUME Types, Agree, NEW c \in Calls, GoesOn(c) \/ Dies(c)
  PROVE  Aside(c) \/ Deciding(c)
  <1>1. CASE SaveParts(c) \/ AbortInStore(c) \/ EndSession(c) \/ MarkCompleting(c)
    BY <1>1, SavePartsAside, StoreAside, EndSessionAside, MarkCompletingAside
  <1>2. CASE Assemble(c) \/ CheckSource(c) \/ Dies(c)
    BY <1>2, StoreAside
  <1>3. CASE LinkAsset(c) \/ AttachAsset(c) \/ TellUpload(c) \/ TellSession(c)
    BY <1>3, LinkAssetAside, AttachAssetAside, TellUploadAside, TellSessionAside
  <1>4. ASSUME NEW strategy \in Strategies, InsertAsset(c, strategy), asset # NoAsset
        PROVE  Aside(c)
    <2> DEFINE seen == IF asset.status = "ready" THEN "ready" ELSE "processing"
               k == ForAsset("attach", asset.id, seen)
    <2>1. Reads /\ Continue(c, k)
      BY <1>4 DEF InsertAsset
    <2>2. asset.id \in Nat /\ asset.id \in AssetIds /\ "attach" \in Points /\ seen \in Read
      BY <1>4 DEF Types, Rest, Rows, Points, OnAsset, Read
    <2>3. seen \in {"ready", "processing"}
      OBVIOUS
    <2> HIDE DEF seen
    <2>4. k \in CallRows /\ k.at = "attach" /\ k.parts = {} /\ k.seen = seen /\ k.id = asset.id
      BY <2>2, AssetCall
    <2>5. Fits(k) /\ MayBe(c, k)
      BY <2>2, <2>3, <2>4 DEF Fits, MayBe
    <2> HIDE DEF k
    <2> QED BY <2>1, <2>4, <2>5, Continued, NothingWritten DEF Types
  <1>5. CASE RecordApproval(c) /\ ~Stored(c)
    BY <1>5, ReturnAside, NothingWritten DEF RecordApproval
  <1>6. CASE Claim(c) /\ ~Unclaimed(c)
    BY <1>6, ReturnAside, NothingWritten DEF Claim
  <1>7. CASE OrderJob(c) /\ jobs' = jobs
    <2>1. NotStarted(c) /\ UNCHANGED faults
      BY <1>7 DEF OrderJob, Types, Rest
    <2>2. calls[c].at = "order" /\ Reads
      BY <1>7, <2>1 DEF OrderJob, At, Reads
    <2> QED BY <2>1, <2>2, NotStartedAside, NothingWritten
  <1>8. CASE NoteJob(c) /\ ~Stored(c)
    <2>1. NotStarted(c) /\ Reads /\ calls[c].at = "note"
      BY <1>8 DEF NoteJob, At
    <2> QED BY <2>1, NotStartedAside, NothingWritten
  <1>9. CASE Publish(c) /\ ~Stored(c)
    BY <1>9, ReturnAside, NothingWritten DEF Publish
  <1>10. CASE DeleteAsset(c) /\ ~Stored(c)
    BY <1>10, ReturnAside, NothingWritten DEF DeleteAsset
  <1> QED BY <1>1, <1>2, <1>3, <1>4, <1>5, <1>6, <1>7, <1>8, <1>9, <1>10 DEF GoesOn, Deciding

-----------------------------------------------------------------------------
(* Types and agreement are preserved *)

LEMMA AsidePreserves ==
  ASSUME Types, Agree, NEW c \in Calls, Aside(c)
  PROVE  Types' /\ Agree'
  <1>1. Rest'
    BY DEF Types, Rest, Aside
  <1>2. Callers'
    BY CallersKept DEF Types, Aside
  <1>3. (\A d \in Calls : Noted(calls[d]))'
    <2>1. calls'[c].at # "note"
      BY DEF Aside, MayBe
    <2> QED BY <2>1 DEF Aside, Agree, Noted
  <1> QED BY <1>1, <1>2, <1>3 DEF Types, Agree, Aside

LEMMA BrowserPreserves ==
  ASSUME Types, Agree, Browser
  PROVE  Types' /\ Agree'
  <1> USE DEF Types, Rest, Callers, Agree, Noted
  <1>1. CASE PutObject
    BY <1>1 DEF PutObject, WriteStore, Elsewhere, Stores
  <1>2. ASSUME NEW p \in Parts, PutPart(p) PROVE Types' /\ Agree'
    BY <1>2 DEF PutPart, WriteStore, Elsewhere, Stores
  <1>3. CASE WindowCloses
    BY <1>3 DEF WindowCloses, WriteSession, Elsewhere, Sessions
  <1> QED BY <1>1, <1>2, <1>3 DEF Browser

\* How a job ends.
LEMMA JobEnds ==
  ASSUME Types, NEW j \in DOMAIN jobs, JobFinishes(j) \/ JobFails(j)
  PROVE  /\ jobs' \in Seq(JobRows) /\ Len(jobs') = Len(jobs) /\ DOMAIN jobs' = DOMAIN jobs
         /\ \A i \in DOMAIN jobs : jobs'[i].asset = jobs[i].asset
         /\ \A i \in DOMAIN jobs : i # j => jobs'[i] = jobs[i]
         /\ jobs'[j].status = "finished" => JobFinishes(j)
         /\ jobs[j].asset \in AssetIds
  <1>1. jobs[j] \in JobRows /\ jobs \in Seq(JobRows)
    BY DEF Types, Rest
  <1> DEFINE done == [jobs[j] EXCEPT !.status = "finished"]
             failed == [jobs[j] EXCEPT !.status = "failed"]
  <1>2. /\ done \in JobRows /\ done.asset = jobs[j].asset
        /\ failed \in JobRows /\ failed.asset = jobs[j].asset /\ failed.status = "failed"
    BY <1>1 DEF JobRows
  <1>3. \/ jobs' = [jobs EXCEPT ![j] = done] /\ JobFinishes(j)
        \/ jobs' = [jobs EXCEPT ![j] = failed]
    BY DEF JobFinishes, JobFails
  <1>4. jobs[j].asset \in AssetIds
    BY <1>1 DEF JobRows
  <1> HIDE DEF done, failed
  <1> QED BY <1>1, <1>2, <1>3, <1>4

LEMMA ConvertsPreserves ==
  ASSUME Types, Agree, NEW j \in DOMAIN jobs, JobFinishes(j) \/ JobFails(j)
  PROVE  Types' /\ Agree'
  <1>1. store' \in Stores /\ store'.put = store.put
    BY JobEnds DEF JobFinishes, JobFails, Types, Rest, Stores
  <1>2. UNCHANGED <<mode, session, wiped, asset, grants, calls, faults>>
    BY DEF JobFinishes, JobFails
  <1>3. Types'
    BY <1>1, <1>2, JobEnds DEF Types, Rest, Callers
  <1>4. Agree'
    BY <1>1, <1>2, JobEnds DEF Agree, Noted
  <1> QED BY <1>3, <1>4

\* What a write of the row does, whoever makes it.
LEMMA AssetWritten ==
  ASSUME Types, Agree, NEW c \in Calls, Stored(c), NEW a \in Rows, WriteAsset(a),
         a.id = asset.id, grants' \in 0..MaxGrants,
         a.job # 0 => a.job \in DOMAIN jobs /\ jobs[a.job].asset = asset.id,
         calls' \in [Calls -> CallRows], \A d \in Calls : d # c => calls'[d] = calls[d],
         Fits(calls'[c]), calls'[c].parts \subseteq store.put, calls'[c].at # "note"
  PROVE  Types' /\ Agree'
  <1>1. Rest'
    BY DEF WriteAsset, Types, Rest, Stored
  <1>2. Callers'
    BY CallersKept DEF Types
  <1>3. Agree'
    BY DEF WriteAsset, Agree, Noted, Stored
  <1> QED BY <1>1, <1>2, <1>3 DEF Types

LEMMA ApprovalWrites ==
  ASSUME Types, Agree, NEW c \in Calls, RecordApproval(c), Stored(c)
  PROVE  /\ Types' /\ Agree' /\ calls[c].at = "approve" /\ calls'[c].at = "claim"
         /\ calls' \in [Calls -> CallRows] /\ \A d \in Calls : d # c => calls'[d] = calls[d]
         /\ UNCHANGED <<store, wiped, jobs>> /\ grants' = grants + 1
         /\ asset'.id = asset.id /\ asset'.strategy = "convert"
         /\ asset'.status = "processing"
  <1> DEFINE a == [asset EXCEPT !.status = "processing", !.processing = "queued",
                                !.strategy = "convert", !.job = 0]
  <1>1. /\ WriteAsset(a) /\ grants < MaxGrants /\ grants' = grants + 1
        /\ Proceed(c, "claim") /\ calls[c].at = "approve"
    BY DEF RecordApproval, At
  <1>2. /\ a \in Rows /\ a.id = asset.id /\ a.job = 0 /\ a.strategy = "convert"
        /\ a.status = "processing"
    BY DEF Types, Rest, Rows
  <1>3. /\ calls' \in [Calls -> CallRows] /\ \A d \in Calls : d # c => calls'[d] = calls[d]
        /\ calls'[c].at = "claim" /\ calls'[c].id = calls[c].id
        /\ calls'[c].parts = calls[c].parts
    BY <1>1, Proceeded DEF Types, Points, OnAsset
  <1>4. Fits(calls'[c]) /\ calls'[c].parts \subseteq store.put
    BY <1>1, <1>3 DEF Types, Callers, Fits, OnAsset, Agree, Noted
  <1>5. grants' \in 0..MaxGrants
    BY <1>1, BoundsAssumption DEF Types, Rest
  <1> HIDE DEF a
  <1>6. Types' /\ Agree'
    BY <1>1, <1>2, <1>3, <1>4, <1>5, AssetWritten
  <1> QED BY <1>1, <1>2, <1>3, <1>6 DEF WriteAsset

LEMMA ClaimWrites ==
  ASSUME Types, Agree, NEW c \in Calls, Claim(c), Unclaimed(c)
  PROVE  /\ Types' /\ Agree' /\ calls[c].at = "claim" /\ calls'[c].at = "order"
         /\ calls' \in [Calls -> CallRows] /\ \A d \in Calls : d # c => calls'[d] = calls[d]
         /\ UNCHANGED <<store, wiped, jobs, grants>>
         /\ asset'.id = asset.id /\ asset'.strategy = "convert"
         /\ asset'.status = "processing" /\ asset'.processing = "processing"
  <1> DEFINE a == [asset EXCEPT !.status = "processing", !.processing = "processing",
                                !.strategy = "convert"]
  <1>1. /\ WriteAsset(a) /\ grants' = grants /\ Stored(c)
        /\ Proceed(c, "order") /\ calls[c].at = "claim"
    BY DEF Claim, At, Unclaimed
  <1>2. /\ a \in Rows /\ a.id = asset.id /\ a.job = asset.job /\ a.strategy = "convert"
        /\ a.status = "processing" /\ a.processing = "processing"
    BY DEF Types, Rest, Rows
  <1>3. /\ calls' \in [Calls -> CallRows] /\ \A d \in Calls : d # c => calls'[d] = calls[d]
        /\ calls'[c].at = "order" /\ calls'[c].id = calls[c].id
        /\ calls'[c].parts = calls[c].parts
    BY <1>1, Proceeded DEF Types, Points, OnAsset
  <1>4. Fits(calls'[c]) /\ calls'[c].parts \subseteq store.put
    BY <1>1, <1>3 DEF Types, Callers, Fits, OnAsset, Agree, Noted
  <1>5. a.job # 0 => a.job \in DOMAIN jobs /\ jobs[a.job].asset = asset.id
    BY <1>2 DEF Agree
  <1> HIDE DEF a
  <1>6. Types' /\ Agree'
    BY <1>1, <1>2, <1>3, <1>4, <1>5, AssetWritten DEF Types, Rest
  <1> QED BY <1>1, <1>2, <1>3, <1>6 DEF WriteAsset

LEMMA NoteWrites ==
  ASSUME Types, Agree, NEW c \in Calls, NoteJob(c), Stored(c)
  PROVE  /\ Types' /\ Agree' /\ calls[c].at = "note" /\ calls'[c].at = "idle"
         /\ calls' \in [Calls -> CallRows] /\ \A d \in Calls : d # c => calls'[d] = calls[d]
         /\ UNCHANGED <<store, wiped, jobs, grants>>
         /\ asset'.id = asset.id /\ asset'.strategy = "convert"
         /\ asset'.status = asset.status /\ asset'.job # 0
  <1> DEFINE a == [asset EXCEPT !.job = calls[c].job, !.processing = "queued",
                                !.strategy = "convert", !.key = TRUE]
  <1>1. WriteAsset(a) /\ grants' = grants /\ Return(c) /\ calls[c].at = "note"
    BY DEF NoteJob, At
  <1>2. /\ calls[c].job \in DOMAIN jobs /\ jobs[calls[c].job].asset = asset.id
        /\ calls[c].job \in Nat /\ calls[c].job # 0
    BY <1>1 DEF Agree, Noted, Stored, Types, Rest
  <1>3. /\ a \in Rows /\ a.id = asset.id /\ a.job = calls[c].job /\ a.strategy = "convert"
        /\ a.status = asset.status
    BY <1>2 DEF Types, Rest, Rows
  <1> HIDE DEF a
  <1>4. Types' /\ Agree'
    BY <1>1, <1>2, <1>3, ReturnAside, AssetWritten DEF Types, Rest
  <1> QED BY <1>1, <1>2, <1>3, <1>4, ReturnAside DEF WriteAsset

LEMMA PublishWrites ==
  ASSUME Types, Agree, NEW c \in Calls, Publish(c), Stored(c)
  PROVE  /\ Types' /\ Agree' /\ calls[c].at = "publish" /\ calls'[c].at \in {"idle", "tell"}
         /\ calls' \in [Calls -> CallRows] /\ \A d \in Calls : d # c => calls'[d] = calls[d]
         /\ UNCHANGED <<store, wiped, jobs, grants>>
         /\ asset'.id = asset.id /\ asset'.strategy = asset.strategy
         /\ asset'.processing # "queued"
         /\ asset'.status = "ready" => calls[c].seen = "finished"
  <1> DEFINE outcome == Outcome(calls[c].seen)
             a == [asset EXCEPT !.status = outcome, !.processing = outcome,
                                !.key = @ \/ outcome = "ready"]
             k == ForAsset("tell", calls[c].id, outcome)
  <1>0. calls[c].at = "publish"
    BY DEF Publish, At
  <1>1. calls[c].seen \in {"running", "finished", "failed"} /\ calls[c].id \in AssetIds
    BY <1>0 DEF Types, Callers, Fits, OnAsset
  <1>2. /\ outcome \in {"processing", "ready", "failed"}
        /\ outcome = "ready" => calls[c].seen = "finished"
    BY <1>1 DEF Outcome
  <1>3. /\ WriteAsset(a) /\ grants' = grants
        /\ IF outcome = "processing" THEN Return(c) ELSE Continue(c, k)
    BY DEF Publish
  <1> HIDE DEF outcome
  <1>4. /\ a \in Rows /\ a.id = asset.id /\ a.job = asset.job /\ a.strategy = asset.strategy
        /\ a.status = outcome /\ a.processing = outcome
    BY <1>2 DEF Types, Rest, Rows
  <1>5. CASE outcome = "processing"
    BY <1>0, <1>2, <1>3, <1>4, <1>5, ReturnAside, AssetWritten
       DEF Agree, WriteAsset, Types, Rest
  <1>6. CASE outcome # "processing"
    <2>0. "tell" \in Points /\ calls[c].id \in Nat /\ outcome \in Read
      BY <1>1, <1>2, BoundsAssumption DEF Points, OnAsset, Read, AssetIds
    <2>1. /\ k \in CallRows /\ k.at = "tell" /\ k.id = calls[c].id /\ k.seen = outcome
          /\ k.parts = {}
      BY <2>0, AssetCall
    <2>2. Fits(k)
      BY <1>1, <1>2, <1>6, <2>1 DEF Fits
    <2> HIDE DEF k, a
    <2>3. /\ calls' \in [Calls -> CallRows] /\ calls'[c] = k
          /\ \A d \in Calls : d # c => calls'[d] = calls[d]
      BY <1>3, <1>6, <2>1, Continued DEF Types
    <2>4. a.job # 0 => a.job \in DOMAIN jobs /\ jobs[a.job].asset = asset.id
      BY <1>4 DEF Agree
    <2>5. Types' /\ Agree'
      BY <1>3, <1>4, <2>1, <2>2, <2>3, <2>4, AssetWritten DEF Types, Rest
    <2> QED BY <1>0, <1>2, <1>3, <1>4, <2>1, <2>3, <2>5 DEF WriteAsset
  <1> QED BY <1>5, <1>6

LEMMA WipedCounted ==
  ASSUME Types
  PROVE  Cardinality(wiped) \in Nat
  <1>0. 1 \in Int /\ MaxAssets \in Int
    BY BoundsAssumption
  <1>1. IsFiniteSet(AssetIds)
    BY <1>0, FS_Interval DEF AssetIds
  <1> QED BY <1>1, FS_Subset, FS_CardinalityType DEF Types, Rest

LEMMA InsertWrites ==
  ASSUME Types, Agree, NEW c \in Calls, NEW strategy \in Strategies,
         InsertAsset(c, strategy), asset = NoAsset
  PROVE  /\ Types' /\ Agree' /\ calls[c].at = "insert"
         /\ calls'[c].at = "link" /\ calls'[c].seen = strategy
         /\ calls' \in [Calls -> CallRows] /\ \A d \in Calls : d # c => calls'[d] = calls[d]
         /\ UNCHANGED <<store, wiped, jobs>>
         /\ grants' = IF strategy = "convert" THEN grants + 1 ELSE grants
         /\ asset'.strategy = strategy
         /\ asset'.status = (IF strategy = "direct_ready" THEN "ready" ELSE "processing")
         /\ asset'.processing = "queued" => strategy = "convert"
  <1> DEFINE id == Cardinality(wiped) + 1
             a == Inserted(id, strategy)
             k == [calls[c] EXCEPT !.at = "link", !.id = id, !.seen = strategy]
  <1>0. strategy \in {"direct_ready", "needs_approval", "convert"}
    BY ChoicesAssumption
  <1>1. /\ id <= MaxAssets /\ (strategy = "convert" => grants < MaxGrants) /\ WriteAsset(a)
        /\ grants' = (IF strategy = "convert" THEN grants + 1 ELSE grants)
        /\ Continue(c, k) /\ calls[c].at = "insert"
    BY DEF InsertAsset, At
  <1>2. id \in AssetIds /\ id \in Nat
    BY <1>1, WipedCounted, BoundsAssumption DEF AssetIds
  <1>3. grants' \in 0..MaxGrants
    BY <1>1, BoundsAssumption DEF Types, Rest
  <1> HIDE DEF id
  <1>4. /\ a \in Rows /\ a.id = id /\ a.strategy = strategy /\ a.job = 0
        /\ a.status = (IF strategy = "direct_ready" THEN "ready" ELSE "processing")
        /\ a.processing = "queued" => strategy = "convert"
    <2> DEFINE processing == CASE strategy = "direct_ready" -> "not_required"
                               [] strategy = "needs_approval" -> "approval_required"
                               [] strategy = "convert" -> "queued"
               status == IF strategy = "direct_ready" THEN "ready" ELSE "processing"
    <2>1. /\ processing \in {"not_required", "approval_required", "queued"}
          /\ processing = "queued" => strategy = "convert"
      BY <1>0
    <2>2. status \in {"ready", "processing"}
      OBVIOUS
    <2>3. a = [NoAsset EXCEPT !.id = id, !.strategy = strategy, !.status = status,
                              !.processing = processing]
      BY DEF Inserted
    <2> HIDE DEF processing, a
    <2>4. a \in Rows /\ a.id = id /\ a.strategy = strategy /\ a.job = 0
      BY <1>0, <1>2, <2>1, <2>2, <2>3, NoCallTyped DEF Rows
    <2>5. a.processing = processing /\ a.status = status
      BY <2>3, NoCallTyped DEF Rows
    <2> QED BY <2>1, <2>4, <2>5
  <1>5. /\ k \in CallRows /\ k.at = "link" /\ k.id = id /\ k.seen = strategy
        /\ k.parts = calls[c].parts /\ calls[c].parts \subseteq store.put
    <2>1. calls[c] \in CallRows /\ calls[c].parts \subseteq store.put
      BY DEF Types, Callers, Agree, Noted
    <2>2. "link" \in Points /\ strategy \in Read
      BY <1>0 DEF Points, OnAsset, Read
    <2> QED BY <1>2, <2>1, <2>2 DEF CallRows
  <1>6. Fits(k)
    BY <1>2, <1>5 DEF Fits
  <1> HIDE DEF a, k
  <1>7. /\ calls' \in [Calls -> CallRows] /\ calls'[c] = k
        /\ \A d \in Calls : d # c => calls'[d] = calls[d]
    BY <1>1, <1>5, Continued DEF Types
  <1>8. UNCHANGED <<mode, session, store, wiped, jobs, faults>> /\ asset' = a
    BY <1>1 DEF WriteAsset
  <1>9. Types'
    BY <1>2, <1>3, <1>4, <1>6, <1>7, <1>8, CallersKept DEF Types, Rest
  <1>10. Agree'
    <2>1. session.asset = 0
      BY NoCallTyped DEF Agree
    <2>2. (\A d \in Calls : Noted(calls[d]))'
      BY <1>5, <1>7, <1>8 DEF Agree, Noted
    <2>3. a.id \in wiped \union {Cardinality(wiped) + 1}
      BY <1>4 DEF id
    <2> QED BY <1>4, <1>8, <2>1, <2>2, <2>3 DEF Agree
  <1> QED BY <1>1, <1>4, <1>5, <1>7, <1>8, <1>9, <1>10

LEMMA OrderWrites ==
  ASSUME Types, Agree, NEW c \in Calls, OrderJob(c), jobs' # jobs
  PROVE  /\ Types' /\ Agree' /\ calls[c].at = "order"
         /\ calls'[c].at \in {"note", "tell upload", "publish"}
         /\ calls'[c].at = "publish" => calls'[c].seen = "failed"
         /\ calls' \in [Calls -> CallRows] /\ \A d \in Calls : d # c => calls'[d] = calls[d]
         /\ UNCHANGED <<store, wiped, asset, grants>>
         /\ jobs' = Append(jobs, [asset |-> calls[c].id, status |-> "running"])
  <1> DEFINE job == [asset |-> calls[c].id, status |-> "running"]
             k == [calls[c] EXCEPT !.at = "note", !.job = Len(jobs) + 1]
  <1>1. /\ calls[c].at = "order" /\ UNCHANGED <<mode, session, store, wiped, asset, grants>>
        /\ Len(jobs) < MaxJobs /\ jobs' = Append(jobs, job)
        /\ \/ Continue(c, k) /\ faults' = faults
           \/ NotStarted(c) /\ faults < MaxFaults /\ faults' = faults + 1
    BY DEF OrderJob, At
  <1>2. calls[c] \in CallRows /\ Fits(calls[c]) /\ calls[c].parts \subseteq store.put
    BY DEF Types, Callers, Agree, Noted
  <1>3. calls[c].id \in AssetIds
    BY <1>1, <1>2 DEF Fits, OnAsset
  <1>4. job \in JobRows /\ job.asset = calls[c].id
    BY <1>3 DEF JobRows
  <1> HIDE DEF job
  <1>5. /\ jobs' \in Seq(JobRows) /\ Len(jobs') = Len(jobs) + 1 /\ Len(jobs') <= MaxJobs
        /\ DOMAIN jobs \subseteq DOMAIN jobs' /\ \A j \in DOMAIN jobs : jobs'[j] = jobs[j]
        /\ Len(jobs) + 1 \in DOMAIN jobs' /\ jobs'[Len(jobs) + 1] = job
        /\ Len(jobs) + 1 \in Nat
    BY <1>1, <1>4, BoundsAssumption DEF Types, Rest
  <1>6. faults' \in 0..MaxFaults
    BY <1>1, BoundsAssumption DEF Types, Rest
  <1>7. Rest'
    BY <1>1, <1>5, <1>6 DEF Types, Rest
  <1>8. \A d \in Calls : Noted(calls[d]) /\ calls[d].at = "note" =>
           calls[d].job \in DOMAIN jobs' /\ jobs'[calls[d].job].asset = calls[d].id
    BY <1>5 DEF Noted
  <1>9. asset.job # 0 => asset.job \in DOMAIN jobs' /\ jobs'[asset.job].asset = asset.id
    BY <1>5 DEF Agree
  <1>10. CASE Continue(c, k)
    <2>1. /\ k \in CallRows /\ k.at = "note" /\ k.id = calls[c].id /\ k.seen = calls[c].seen
          /\ k.parts = calls[c].parts /\ k.job = Len(jobs) + 1
      BY <1>2, <1>5 DEF CallRows, Points, OnAsset
    <2>2. Fits(k)
      BY <1>3, <2>1 DEF Fits
    <2> HIDE DEF k
    <2>3. /\ calls' \in [Calls -> CallRows] /\ calls'[c] = k
          /\ \A d \in Calls : d # c => calls'[d] = calls[d]
      BY <1>10, <2>1, Continued DEF Types
    <2>4. Callers'
      BY <2>2, <2>3, CallersKept DEF Types
    <2>5. (\A d \in Calls : Noted(calls[d]))'
      BY <1>1, <1>2, <1>4, <1>5, <1>8, <2>1, <2>3 DEF Agree, Noted
    <2> QED BY <1>1, <1>7, <1>9, <2>1, <2>3, <2>4, <2>5 DEF Types, Agree, job
  <1>11. CASE NotStarted(c)
    <2>1. /\ calls' \in [Calls -> CallRows] /\ \A d \in Calls : d # c => calls'[d] = calls[d]
          /\ Fits(calls'[c]) /\ calls'[c].parts \subseteq store.put
          /\ calls'[c].at \in {"tell upload", "publish"} /\ MayBe(c, calls'[c])
      BY <1>1, <1>11, NotStartedAside
    <2>2. Callers'
      BY <2>1, CallersKept DEF Types
    <2>3. (\A d \in Calls : Noted(calls[d]))'
      BY <1>1, <1>8, <2>1 DEF Agree, Noted
    <2>4. calls'[c].seen = "failed"
      BY <1>2, <1>11, Continued DEF NotStarted, Types, Callers, Continue, CallRows
    <2> QED BY <1>1, <1>7, <1>9, <2>1, <2>2, <2>3, <2>4 DEF Types, Agree, job
  <1> QED BY <1>1, <1>10, <1>11

LEMMA DropWrites ==
  ASSUME Types, Agree, NEW c \in Calls, DeleteObjects(c)
  PROVE  /\ Types' /\ Agree' /\ calls[c].at = "idle" /\ calls'[c].at = "drop"
         /\ calls' \in [Calls -> CallRows] /\ \A d \in Calls : d # c => calls'[d] = calls[d]
         /\ UNCHANGED <<asset, jobs, grants>> /\ wiped' # {}
  <1> DEFINE k == ForAsset("drop", asset.id, "none")
  <1>1. /\ asset # NoAsset /\ Start(c, k) /\ wiped' = wiped \union {asset.id}
        /\ UNCHANGED <<mode, session, asset, jobs, grants, faults>>
    BY DEF DeleteObjects
  <1>2. asset.id \in AssetIds /\ asset.id \in Nat /\ "drop" \in Points /\ "none" \in Read
    BY <1>1 DEF Types, Rest, Rows, Points, OnAsset, Read
  <1>3. k \in CallRows /\ k.at = "drop" /\ k.id = asset.id /\ k.parts = {}
    BY <1>2, AssetCall
  <1>4. Fits(k)
    BY <1>2, <1>3 DEF Fits
  <1> HIDE DEF k
  <1>5. /\ calls' \in [Calls -> CallRows] /\ calls'[c] = k /\ calls[c].at = "idle"
        /\ \A d \in Calls : d # c => calls'[d] = calls[d]
    BY <1>1, <1>3, Started DEF Types
  <1>6. store' \in Stores /\ store'.put = store.put
    BY DEF DeleteObjects, Types, Rest, Stores
  <1>7. Types'
    BY <1>1, <1>2, <1>4, <1>5, <1>6, CallersKept DEF Types, Rest
  <1>8. (\A d \in Calls : Noted(calls[d]))'
    BY <1>1, <1>3, <1>5, <1>6 DEF Agree, Noted
  <1>9. Agree'
    BY <1>1, <1>6, <1>8 DEF Agree
  <1> QED BY <1>1, <1>3, <1>5, <1>7, <1>9

LEMMA DeleteWrites ==
  ASSUME Types, Agree, NEW c \in Calls, DeleteAsset(c), Stored(c)
  PROVE  /\ Types' /\ Agree' /\ calls[c].at = "drop" /\ calls'[c].at = "idle"
         /\ calls' \in [Calls -> CallRows] /\ \A d \in Calls : d # c => calls'[d] = calls[d]
         /\ UNCHANGED <<store, wiped, jobs, grants>> /\ asset' = NoAsset
  <1> DEFINE s == [session EXCEPT !.asset = IF @ = calls[c].id THEN 0 ELSE @]
  <1>1. /\ calls[c].at = "drop" /\ Return(c) /\ asset' = NoAsset /\ session' = s
        /\ UNCHANGED <<store, mode, wiped, jobs, grants, faults>>
    BY DEF DeleteAsset, At, Elsewhere
  <1>2. s \in Sessions /\ s.parts = session.parts /\ s.asset = 0
    BY DEF Types, Rest, Sessions, Agree, Stored
  <1> HIDE DEF s
  <1>3. Types'
    BY <1>1, <1>2, NoCallTyped, ReturnAside, CallersKept DEF Types, Rest
  <1>4. (\A d \in Calls : Noted(calls[d]))'
    BY <1>1, ReturnAside DEF Agree, Noted
  <1>5. Agree'
    BY <1>1, <1>2, <1>4, NoCallTyped DEF Agree
  <1> QED BY <1>1, <1>3, <1>5, ReturnAside

LEMMA DecidingPreserves ==
  ASSUME Types, Agree, NEW c \in Calls, Deciding(c)
  PROVE  Types' /\ Agree'
  BY InsertWrites, ApprovalWrites, ClaimWrites, OrderWrites, NoteWrites, PublishWrites,
     DropWrites, DeleteWrites DEF Deciding

\* Every step is of one of these kinds.
LEMMA StepKinds ==
  ASSUME Types, Agree, Next
  PROVE  \/ Browser \/ Converts
         \/ \E c \in Calls : Aside(c) \/ Deciding(c)
  BY RequestsAside, WorkAside DEF Next, Deciding

LEMMA TypesPreserved ==
  ASSUME Types, Agree, [Next]_vars
  PROVE  Types' /\ Agree'
  <1>1. CASE UNCHANGED vars
    BY <1>1 DEF vars, Types, Rest, Callers, Agree, Noted
  <1>2. CASE Browser
    BY <1>2, BrowserPreserves
  <1>3. CASE Converts
    BY <1>3, ConvertsPreserves DEF Converts
  <1>4. ASSUME NEW c \in Calls, Aside(c) \/ Deciding(c) PROVE Types' /\ Agree'
    BY <1>4, AsidePreserves, DecidingPreserves
  <1> QED BY <1>1, <1>2, <1>3, <1>4, StepKinds

LEMMA InitTypes == Init => Types /\ Agree
  <1> SUFFICES ASSUME Init PROVE Types /\ Agree
    OBVIOUS
  <1>1. session \in Sessions /\ store \in Stores
    BY DEF Init, Sessions, Stores, Statuses
  <1>2. jobs \in Seq(JobRows) /\ Len(jobs) = 0 /\ wiped \subseteq AssetIds /\ asset \in Rows
    BY NoCallTyped DEF Init
  <1>3. Rest
    BY <1>1, <1>2, BoundsAssumption DEF Init, Rest
  <1>4. Callers
    BY NoCallTyped DEF Init, Callers
  <1>5. Agree
    BY <1>1, NoCallTyped DEF Init, Agree, Noted
  <1> QED BY <1>3, <1>4, <1>5 DEF Types

\* Every reachable state is typed, and rows, calls and jobs refer to one another as they
\* should.
THEOREM CoreInvariant == Spec => [](Types /\ Agree)
  <1>1. Init => Types /\ Agree
    BY InitTypes
  <1>2. (Types /\ Agree) /\ [Next]_vars => (Types /\ Agree)'
    BY TypesPreserved
  <1> QED BY <1>1, <1>2, PTL DEF Spec

\* Type correctness: the types of all variables, and that a session names the one row
\* there is.
THEOREM TypeCorrect == Spec => []TypeOK
  <1>1. Types /\ Agree => TypeOK
    <2> SUFFICES ASSUME Types, Agree PROVE TypeOK
      OBVIOUS
    <2>1. /\ session.status \in Statuses /\ session.lapsed \in BOOLEAN
          /\ store.open \in BOOLEAN /\ store.source \in BOOLEAN
          /\ store.put \subseteq Parts /\ store.converted \subseteq AssetIds
      BY DEF Types, Rest, Sessions, Stores
    <2>2. \A j \in DOMAIN jobs : jobs[j].asset \in AssetIds
      <3>1. \A j \in DOMAIN jobs : jobs[j] \in JobRows
        BY DEF Types, Rest
      <3> QED BY <3>1 DEF JobRows
    <2> QED BY <2>1, <2>2 DEF Types, Rest, Agree, Noted, TypeOK
  <1> QED BY <1>1, CoreInvariant, PTL

-----------------------------------------------------------------------------
(* What is bought was granted *)

\* Calls that are about to order a job, and a row that may still be claimed for one,
\* have a grant of their own.
Ordering == {c \in Calls : calls[c].at = "order"}
Claimable == IF asset.processing = "queued" /\ asset.job = 0 THEN 1 ELSE 0
Budget == Len(jobs) + Cardinality(Ordering) + Claimable <= grants

LEMMA OrderingFinite == IsFiniteSet(Ordering) /\ Cardinality(Ordering) \in Nat
  <1>1. Ordering \subseteq Calls
    BY DEF Ordering
  <1> QED BY <1>1, CallsAssumption, FS_Subset, FS_CardinalityType

\* A call that is not about to order a job after a step took one away, if any.
LEMMA OrderingShrinks ==
  ASSUME NEW c \in Calls, \A d \in Calls : d # c => calls'[d] = calls[d],
         calls'[c].at # "order"
  PROVE  /\ Cardinality(Ordering') \in Nat /\ Cardinality(Ordering') <= Cardinality(Ordering)
         /\ calls[c].at = "order" => Cardinality(Ordering') = Cardinality(Ordering) - 1
  <1>1. Ordering' = Ordering \ {c}
    BY DEF Ordering
  <1>2. calls[c].at = "order" => c \in Ordering
    BY DEF Ordering
  <1>3. calls[c].at # "order" => c \notin Ordering
    BY DEF Ordering
  <1>4. IsFiniteSet(Ordering) /\ Cardinality(Ordering) \in Nat
    BY OrderingFinite
  <1>5. CASE c \in Ordering
    <2>1. Cardinality(Ordering \ {c}) = Cardinality(Ordering) - 1 /\ IsFiniteSet(Ordering \ {c})
      BY <1>4, <1>5, FS_RemoveElement
    <2>2. Cardinality(Ordering \ {c}) \in Nat
      BY <2>1, FS_CardinalityType
    <2> QED BY <1>1, <1>4, <2>1, <2>2
  <1>6. CASE c \notin Ordering
    <2>1. Ordering' = Ordering
      BY <1>1, <1>6
    <2>2. calls[c].at # "order"
      BY <1>2, <1>6
    <2>3. Cardinality(Ordering') = Cardinality(Ordering)
      BY <2>1
    <2>4. Cardinality(Ordering') \in Nat /\ Cardinality(Ordering') <= Cardinality(Ordering)
      BY <1>4, <2>3
    <2> QED BY <2>2, <2>4
  <1> QED BY <1>5, <1>6

LEMMA OrderingGrows ==
  ASSUME NEW c \in Calls, \A d \in Calls : d # c => calls'[d] = calls[d],
         calls'[c].at = "order", calls[c].at # "order"
  PROVE  Cardinality(Ordering') = Cardinality(Ordering) + 1
  <1>1. Ordering' = Ordering \union {c} /\ c \notin Ordering
    BY DEF Ordering
  <1> QED BY <1>1, OrderingFinite, FS_AddElement

LEMMA BudgetPreserved ==
  ASSUME Types, Agree, Budget, [Next]_vars
  PROVE  Budget'
  <1> DEFINE n == Cardinality(Ordering)
             b == Claimable
             l == Len(jobs)
  <1>0. /\ n \in Nat /\ b \in 0..1 /\ l \in Nat /\ grants \in Nat /\ l + n + b <= grants
    BY OrderingFinite DEF Types, Rest, Budget, Claimable
  <1>1. CASE UNCHANGED vars
    <2>1. Ordering' = Ordering
      BY <1>1 DEF vars, Ordering
    <2> QED BY <1>1, <2>1 DEF vars, Budget, Claimable
  <1>2. CASE Browser
    <2>1. UNCHANGED <<asset, jobs, grants, calls>>
      BY <1>2 DEF Browser, PutObject, PutPart, WindowCloses, WriteStore, WriteSession, Elsewhere
    <2>2. Ordering' = Ordering
      BY <2>1 DEF Ordering
    <2> QED BY <2>1, <2>2 DEF Budget, Claimable
  <1>3. CASE Converts
    <2>1. UNCHANGED <<asset, grants, calls>> /\ Len(jobs') = Len(jobs)
      BY <1>3, JobEnds DEF Converts, JobFinishes, JobFails
    <2>2. Ordering' = Ordering
      BY <2>1 DEF Ordering
    <2> QED BY <2>1, <2>2 DEF Budget, Claimable
  <1>4. ASSUME NEW c \in Calls, Aside(c) PROVE Budget'
    <2>1. /\ UNCHANGED <<asset, jobs, grants>> /\ calls'[c].at # "order"
          /\ \A d \in Calls : d # c => calls'[d] = calls[d]
      BY <1>4 DEF Aside, MayBe
    <2> QED BY <1>0, <2>1, OrderingShrinks DEF Budget, Claimable
  <1>5. ASSUME NEW c \in Calls, NEW strategy \in Strategies, InsertAsset(c, strategy),
               asset = NoAsset
        PROVE  Budget'
    <2>1. /\ jobs' = jobs /\ calls'[c].at # "order"
          /\ \A d \in Calls : d # c => calls'[d] = calls[d]
          /\ grants' = IF strategy = "convert" THEN grants + 1 ELSE grants
          /\ asset'.processing = "queued" => strategy = "convert"
      BY <1>5, InsertWrites
    <2>2. Claimable' \in 0..1 /\ (strategy # "convert" => Claimable' = 0) /\ Claimable = 0
      BY <1>5, <2>1, NoCallTyped DEF Claimable
    <2>3. Cardinality(Ordering') \in Nat /\ Cardinality(Ordering') <= Cardinality(Ordering)
      BY <2>1, OrderingShrinks
    <2>4. CASE strategy = "convert"
      <3>1. grants' = grants + 1 /\ Claimable' \in 0..1 /\ Claimable = 0 /\ jobs' = jobs
        BY <2>1, <2>2, <2>4
      <3> QED BY <1>0, <2>3, <3>1 DEF Budget
    <2>5. CASE strategy # "convert"
      <3>1. grants' = grants /\ Claimable' = 0 /\ Claimable = 0 /\ jobs' = jobs
        BY <2>1, <2>2, <2>5
      <3> QED BY <1>0, <2>3, <3>1 DEF Budget
    <2> QED BY <2>4, <2>5
  <1>6. ASSUME NEW c \in Calls, RecordApproval(c), Stored(c) PROVE Budget'
    <2>1. /\ jobs' = jobs /\ calls'[c].at # "order" /\ grants' = grants + 1
          /\ \A d \in Calls : d # c => calls'[d] = calls[d]
      BY <1>6, ApprovalWrites
    <2>2. Claimable' \in 0..1
      BY DEF Claimable
    <2> QED BY <1>0, <2>1, <2>2, OrderingShrinks DEF Budget
  <1>7. ASSUME NEW c \in Calls, Claim(c), Unclaimed(c) PROVE Budget'
    <2>1. /\ jobs' = jobs /\ grants' = grants /\ Claimable = 1 /\ Claimable' = 0
          /\ calls[c].at = "claim" /\ calls'[c].at = "order"
          /\ \A d \in Calls : d # c => calls'[d] = calls[d]
      BY <1>7, ClaimWrites DEF Claimable, Unclaimed
    <2> QED BY <1>0, <2>1, OrderingGrows DEF Budget
  <1>8. ASSUME NEW c \in Calls, OrderJob(c), jobs' # jobs PROVE Budget'
    <2>1. /\ asset' = asset /\ grants' = grants /\ Len(jobs') = Len(jobs) + 1
          /\ calls[c].at = "order" /\ calls'[c].at # "order"
          /\ \A d \in Calls : d # c => calls'[d] = calls[d]
      <3> DEFINE job == [asset |-> calls[c].id, status |-> "running"]
      <3>1. /\ asset' = asset /\ grants' = grants /\ jobs' = Append(jobs, job)
            /\ calls[c].at = "order" /\ calls'[c].at # "order"
            /\ \A d \in Calls : d # c => calls'[d] = calls[d]
        BY <1>8, OrderWrites
      <3>2. job \in JobRows
        BY <3>1 DEF Types, Callers, Fits, OnAsset, JobRows
      <3>3. Len(Append(jobs, job)) = Len(jobs) + 1
        BY <3>2, AppendProperties DEF Types, Rest
      <3> QED BY <3>1, <3>3
    <2> QED BY <1>0, <2>1, OrderingShrinks DEF Budget, Claimable
  <1>9. ASSUME NEW c \in Calls, (NoteJob(c) /\ Stored(c)) \/ (Publish(c) /\ Stored(c))
        PROVE  Budget'
    <2>1. /\ jobs' = jobs /\ grants' = grants /\ Claimable' = 0 /\ calls'[c].at # "order"
          /\ \A d \in Calls : d # c => calls'[d] = calls[d]
      BY <1>9, NoteWrites, PublishWrites DEF Claimable
    <2> QED BY <1>0, <2>1, OrderingShrinks DEF Budget
  <1>10. ASSUME NEW c \in Calls, DeleteObjects(c) PROVE Budget'
    <2>1. /\ UNCHANGED <<asset, jobs, grants>> /\ calls'[c].at # "order"
          /\ \A d \in Calls : d # c => calls'[d] = calls[d]
      BY <1>10, DropWrites
    <2> QED BY <1>0, <2>1, OrderingShrinks DEF Budget, Claimable
  <1>11. ASSUME NEW c \in Calls, DeleteAsset(c), Stored(c) PROVE Budget'
    <2>1. /\ jobs' = jobs /\ grants' = grants /\ Claimable' = 0 /\ calls'[c].at # "order"
          /\ \A d \in Calls : d # c => calls'[d] = calls[d]
      BY <1>11, DeleteWrites, NoCallTyped DEF Claimable
    <2> QED BY <1>0, <2>1, OrderingShrinks DEF Budget
  <1> HIDE DEF n, b, l
  <1> QED BY <1>1, <1>2, <1>3, <1>4, <1>5, <1>6, <1>7, <1>8, <1>9, <1>10, <1>11, StepKinds
          DEF Deciding

LEMMA InitBudget == Init => Budget
  <1> SUFFICES ASSUME Init PROVE Budget
    OBVIOUS
  <1>1. Ordering = {}
    BY NoCallTyped DEF Init, Ordering
  <1>2. Cardinality(Ordering) = 0
    BY <1>1, FS_EmptySet
  <1> QED BY <1>2, NoCallTyped DEF Init, Budget, Claimable

\* No more jobs are bought than were granted, however many completions, approvals,
\* retries, polls and reports are under way at once and however many of them die.
THEOREM GrantsCoverJobs == Spec => []JobsAreGranted
  <1>1. Init => Budget
    BY InitBudget
  <1>2. (Types /\ Agree) /\ Budget /\ [Next]_vars => Budget'
    BY BudgetPreserved
  <1>3. Types /\ Budget => JobsAreGranted
    <2> SUFFICES ASSUME Types, Budget PROVE Len(jobs) <= grants
      BY DEF JobsAreGranted
    <2>1. Cardinality(Ordering) \in Nat /\ Claimable \in 0..1 /\ Len(jobs) \in Nat /\ grants \in Nat
      BY OrderingFinite DEF Claimable, Types, Rest
    <2> QED BY <2>1 DEF Budget
  <1> QED BY <1>1, <1>2, <1>3, CoreInvariant, PTL DEF Spec

-----------------------------------------------------------------------------
(* What is ready can be played *)

\* Steps of a call after which a conversion may have been bought.
Buying == {"approve", "claim", "order", "note", "tell upload", "publish"}
Plain == asset = NoAsset \/ asset.strategy = "direct_ready"

Unspoilt(k) ==
  /\ k.at # "drop"
  /\ k.at = "insert" => store.source
  /\ k.at = "publish" /\ k.seen = "finished" => k.id \in store.converted
  /\ Plain => k.at \notin Buying /\ (k.at = "link" => k.seen = "direct_ready")

\* As long as nothing was deleted: nobody converts what plays as it is, and what a job
\* or a call knows to be converted is in the store.
Sound ==
  /\ Plain => jobs = <<>>
  /\ asset.strategy = "direct_ready" => asset.status = "ready" /\ store.source
  /\ asset.status = "ready" /\ asset.strategy # "direct_ready" => asset.id \in store.converted
  /\ \A j \in DOMAIN jobs : jobs[j].status = "finished" => jobs[j].asset \in store.converted
  /\ \A c \in Calls : Unspoilt(calls[c])

LEMMA BrowserKeepsSound ==
  ASSUME Types, Sound, Browser
  PROVE  Sound'
  <1>1. UNCHANGED <<asset, jobs, calls>> /\ store'.converted = store.converted
    BY DEF Browser, PutObject, PutPart, WindowCloses, WriteStore, WriteSession, Elsewhere,
           Types, Rest, Stores
  <1>2. store.source => store'.source
    BY DEF Browser, PutObject, PutPart, WindowCloses, WriteStore, WriteSession, Types, Rest,
           Stores
  <1> QED BY <1>1, <1>2 DEF Sound, Unspoilt, Plain

LEMMA JobsKeepSound ==
  ASSUME Types, Sound, NEW j \in DOMAIN jobs, JobFinishes(j) \/ JobFails(j)
  PROVE  Sound'
  <1>1. UNCHANGED <<asset, calls>> /\ jobs # <<>>
    BY DEF JobFinishes, JobFails
  <1>2. /\ store'.source = store.source /\ store.converted \subseteq store'.converted
        /\ JobFinishes(j) => jobs[j].asset \in store'.converted
    BY DEF JobFinishes, JobFails, Types, Rest, Stores
  <1>3. (\A i \in DOMAIN jobs : jobs[i].status = "finished" => jobs[i].asset \in store.converted)'
    BY <1>2, JobEnds DEF Sound
  <1> QED BY <1>1, <1>2, <1>3 DEF Sound, Unspoilt, Plain

LEMMA AsideKeepsSound ==
  ASSUME Types, Agree, Sound, NEW c \in Calls, Aside(c)
  PROVE  Sound'
  <1>1. /\ UNCHANGED <<asset, jobs>> /\ store'.converted = store.converted
        /\ (store.source => store'.source) /\ MayBe(c, calls'[c])
        /\ \A d \in Calls : d # c => calls'[d] = calls[d]
    BY DEF Aside
  <1>2. Unspoilt(calls[c])
    BY DEF Sound
  <1>3. Plain => /\ calls'[c].at \notin Buying
                 /\ calls'[c].at = "link" => calls'[c].seen = "direct_ready"
    <2> SUFFICES ASSUME Plain
                 PROVE  /\ calls'[c].at \notin Buying
                        /\ calls'[c].at = "link" => calls'[c].seen = "direct_ready"
      OBVIOUS
    <2>1. DOMAIN jobs = {} /\ (asset = NoAsset \/ asset.status = "ready")
      BY DEF Sound, Plain
    <2>2. calls[c].at \notin Buying /\ (calls[c].at = "link" => calls[c].seen # "convert")
      BY <1>2 DEF Unspoilt
    <2>3. calls'[c].at \in {"idle", "save", "end", "abort", "attach", "head", "mark",
                           "assemble", "insert"}
      BY <1>1, <2>1, <2>2 DEF MayBe, Buying
    <2> QED BY <2>3 DEF Buying
  <1>4. calls'[c].at = "publish" /\ calls'[c].seen = "finished"
          => calls'[c].id \in store.converted
    BY <1>1 DEF MayBe, Sound
  <1>5. calls'[c].at # "drop" /\ (calls'[c].at = "insert" => store.source)
    BY <1>1 DEF MayBe
  <1>6. Unspoilt(calls[c])'
    BY <1>1, <1>3, <1>4, <1>5 DEF Unspoilt, Plain
  <1>7. (\A d \in Calls : Unspoilt(calls[d]))'
    BY <1>1, <1>6 DEF Sound, Unspoilt, Plain
  <1> QED BY <1>1, <1>7 DEF Sound, Plain

LEMMA InsertKeepsSound ==
  ASSUME Types, Agree, Sound, NEW c \in Calls, NEW strategy \in Strategies,
         InsertAsset(c, strategy), asset = NoAsset
  PROVE  Sound'
  <1>1. /\ calls[c].at = "insert" /\ calls'[c].at = "link" /\ calls'[c].seen = strategy
        /\ \A d \in Calls : d # c => calls'[d] = calls[d]
        /\ UNCHANGED <<store, jobs>> /\ asset'.strategy = strategy
        /\ asset'.status = (IF strategy = "direct_ready" THEN "ready" ELSE "processing")
    BY InsertWrites
  <1>2. strategy \in {"direct_ready", "needs_approval", "convert"}
    BY ChoicesAssumption
  <1>3. store.source /\ Plain /\ jobs = <<>> /\ (Plain' <=> strategy = "direct_ready")
    BY <1>1, <1>2, NoCallTyped DEF Sound, Unspoilt, Plain
  <1>4. (\A d \in Calls : Unspoilt(calls[d]))'
    BY <1>1, <1>3 DEF Sound, Unspoilt, Buying
  <1>5. (asset.strategy = "direct_ready" => asset.status = "ready" /\ store.source)'
    BY <1>1, <1>3
  <1>6. (asset.status = "ready" => asset.strategy = "direct_ready")'
    BY <1>1, <1>2
  <1> QED BY <1>1, <1>3, <1>4, <1>5, <1>6 DEF Sound

LEMMA OrderKeepsSound ==
  ASSUME Types, Agree, Sound, NEW c \in Calls, OrderJob(c), jobs' # jobs
  PROVE  Sound'
  <1> DEFINE job == [asset |-> calls[c].id, status |-> "running"]
  <1>1. /\ calls[c].at = "order" /\ calls'[c].at \in {"note", "tell upload", "publish"}
        /\ calls'[c].at = "publish" => calls'[c].seen = "failed"
        /\ \A d \in Calls : d # c => calls'[d] = calls[d]
        /\ UNCHANGED <<store, asset>> /\ jobs' = Append(jobs, job)
    BY OrderWrites
  <1>2. job \in JobRows /\ job.status = "running"
    BY <1>1 DEF Types, Callers, Fits, OnAsset, JobRows
  <1>3. ~Plain
    BY <1>1 DEF Sound, Unspoilt, Buying
  <1> HIDE DEF job
  <1>4. \A j \in DOMAIN jobs' : \/ jobs'[j] = job
                                \/ j \in DOMAIN jobs /\ jobs'[j] = jobs[j]
    <2>1. jobs \in Seq(JobRows) /\ Len(jobs) \in Nat /\ DOMAIN jobs = 1..Len(jobs)
      BY DEF Types, Rest
    <2>2. /\ DOMAIN jobs' = 1..(Len(jobs) + 1) /\ jobs'[Len(jobs) + 1] = job
          /\ \A j \in 1..Len(jobs) : jobs'[j] = jobs[j]
      <3>1. jobs' = Append(jobs, job)
        BY <1>1
      <3>2. Len(jobs') = Len(jobs) + 1 /\ jobs' \in Seq(JobRows)
        BY <1>2, <2>1, <3>1, AppendProperties
      <3>3. DOMAIN jobs' = 1..(Len(jobs) + 1)
        BY <2>1, <3>2
      <3>4. /\ \A i \in 1..Len(jobs) : Append(jobs, job)[i] = jobs[i]
            /\ Append(jobs, job)[Len(jobs) + 1] = job
        <4>1. job \in JobRows
          BY <1>2
        <4> QED BY <2>1, <4>1, AppendProperties
      <3> QED BY <3>1, <3>3, <3>4, Zenon
    <2> QED BY <2>1, <2>2
  <1>5. (\A j \in DOMAIN jobs : jobs[j].status = "finished" => jobs[j].asset \in store.converted)'
    BY <1>1, <1>2, <1>4 DEF Sound
  <1>6. (\A d \in Calls : Unspoilt(calls[d]))'
    BY <1>1, <1>3 DEF Sound, Unspoilt, Plain
  <1> QED BY <1>1, <1>3, <1>5, <1>6 DEF Sound, Plain

\* The row is written for a conversion, or with the outcome of one.
LEMMA ConvertKeepsSound ==
  ASSUME Types, Agree, Sound, NEW c \in Calls, calls[c].at \in Buying,
         calls'[c].at \in {"idle", "claim", "order", "tell"},
         \A d \in Calls : d # c => calls'[d] = calls[d],
         UNCHANGED <<store, jobs>>, asset'.id = asset.id,
         asset'.strategy \in {"convert", asset.strategy},
         asset'.status = "ready" => asset.id \in store.converted
  PROVE  Sound'
  <1>1. ~Plain
    BY DEF Sound, Unspoilt
  <1>2. ~Plain'
    <2>1. asset # NoAsset /\ asset.strategy # "direct_ready"
      BY <1>1 DEF Plain
    <2>2. asset'.id # 0
      BY <2>1, BoundsAssumption DEF Types, Rest, AssetIds
    <2> QED BY <2>1, <2>2, NoCallTyped DEF Plain
  <1>3. (\A d \in Calls : Unspoilt(calls[d]))'
    BY <1>2 DEF Sound, Unspoilt
  <1>4. (asset.strategy # "direct_ready")'
    BY <1>2 DEF Plain
  <1> QED BY <1>2, <1>3, <1>4 DEF Sound

LEMMA SoundPreserved ==
  ASSUME Types, Agree, Sound, [Next]_vars
  PROVE  wiped' # {} \/ Sound'
  <1>1. CASE UNCHANGED vars
    BY <1>1 DEF vars, Sound, Unspoilt, Plain
  <1>2. CASE Browser
    BY <1>2, BrowserKeepsSound
  <1>3. CASE Converts
    BY <1>3, JobsKeepSound DEF Converts
  <1>4. ASSUME NEW c \in Calls, Aside(c) PROVE Sound'
    BY <1>4, AsideKeepsSound
  <1>5. ASSUME NEW c \in Calls, NEW strategy \in Strategies, InsertAsset(c, strategy),
               asset = NoAsset
        PROVE  Sound'
    BY <1>5, InsertKeepsSound
  <1>6. ASSUME NEW c \in Calls, RecordApproval(c), Stored(c) PROVE Sound'
    BY <1>6, ApprovalWrites, ConvertKeepsSound DEF Buying
  <1>7. ASSUME NEW c \in Calls, Claim(c), Unclaimed(c) PROVE Sound'
    BY <1>7, ClaimWrites, ConvertKeepsSound DEF Buying
  <1>8. ASSUME NEW c \in Calls, OrderJob(c), jobs' # jobs PROVE Sound'
    BY <1>8, OrderKeepsSound
  <1>9. ASSUME NEW c \in Calls, NoteJob(c), Stored(c) PROVE Sound'
    <2>1. calls[c].at = "note" /\ ~Plain
      BY <1>9, NoteWrites DEF Sound, Unspoilt, Buying
    <2>2. asset.status = "ready" => asset.id \in store.converted
      BY <2>1 DEF Sound, Plain
    <2> QED BY <1>9, <2>2, NoteWrites, ConvertKeepsSound DEF Buying
  <1>10. ASSUME NEW c \in Calls, Publish(c), Stored(c) PROVE Sound'
    <2>1. calls[c].at = "publish" /\ Unspoilt(calls[c]) /\ calls[c].id = asset.id
      BY <1>10, PublishWrites DEF Sound, Stored
    <2>2. asset'.status = "ready" => asset.id \in store.converted
      BY <1>10, <2>1, PublishWrites DEF Unspoilt
    <2> QED BY <1>10, <2>1, <2>2, PublishWrites, ConvertKeepsSound DEF Buying
  <1>11. ASSUME NEW c \in Calls, DeleteObjects(c) PROVE wiped' # {}
    BY <1>11, DropWrites
  <1>12. ASSUME NEW c \in Calls, DeleteAsset(c), Stored(c) PROVE FALSE
    BY <1>12, DeleteWrites DEF Sound, Unspoilt
  <1> QED BY <1>1, <1>2, <1>3, <1>4, <1>5, <1>6, <1>7, <1>8, <1>9, <1>10, <1>11, <1>12,
             StepKinds DEF Deciding

\* A deletion that has begun is not undone.
LEMMA WipedStays ==
  ASSUME Types, Agree, wiped # {}, [Next]_vars
  PROVE  wiped' # {}
  <1>1. CASE Browser \/ Converts \/ UNCHANGED vars
    BY <1>1 DEF vars, Browser, PutObject, PutPart, WindowCloses, WriteStore, WriteSession,
       Elsewhere, Converts, JobFinishes, JobFails
  <1>2. ASSUME NEW c \in Calls, Aside(c) \/ Deciding(c) PROVE wiped' # {}
    <2>1. CASE Aside(c)
      BY <2>1 DEF Aside
    <2>2. CASE Deciding(c)
      BY <2>2, InsertWrites, ApprovalWrites, ClaimWrites, NoteWrites, PublishWrites,
         OrderWrites, DropWrites, DeleteWrites DEF Deciding
    <2> QED BY <1>2, <2>1, <2>2
  <1> QED BY <1>1, <1>2, StepKinds

\* What the library shows as ready can be played, whichever outcomes of jobs were read
\* before and are written late, as long as its owner has not begun to delete it.
THEOREM ReadyCanBePlayed == Spec => []ReadyIsPlayable
  <1> DEFINE Inv == wiped # {} \/ Sound
  <1>1. Init => Inv
    <2> SUFFICES ASSUME Init PROVE Sound
      OBVIOUS
    <2>1. asset = NoAsset /\ jobs = <<>> /\ \A c \in Calls : calls[c] = NoCall
      BY DEF Init
    <2>2. (\A c \in Calls : Unspoilt(calls[c]))
      BY <2>1, NoCallTyped DEF Unspoilt, Buying
    <2> QED BY <2>1, <2>2, NoCallTyped DEF Sound
  <1>2. (Types /\ Agree) /\ Inv /\ [Next]_vars => Inv'
    BY SoundPreserved, WipedStays
  <1>3. Inv => ReadyIsPlayable
    BY DEF Sound, ReadyIsPlayable
  <1> HIDE DEF Inv
  <1> QED BY <1>1, <1>2, <1>3, CoreInvariant, PTL DEF Spec
=============================================================================
