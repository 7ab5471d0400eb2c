---------------------------- MODULE IntakeProofs ----------------------------
(***************************************************************************)
(* Proofs about Intake, for any requests, contents and artifacts.          *)
(*                                                                         *)
(* What a request holds follows from its stage (CallInv).  An artifact is  *)
(* outside overlapped only while at most one request is to write a record  *)
(* of it, and that one has none to clear first (RebuildInv): so a second   *)
(* record needs an overlap.  A delivery that was not refused is in the     *)
(* table from its insert on, since only uploads are deleted (DeliveryInv). *)
(***************************************************************************)
EXTENDS Intake, TLAPS

CallInv ==
    \A q \in Requests :
        /\ req[q].at \in {"insert", "find"} => req[q].art = None /\ ~req[q].errs
        /\ req[q].errs => req[q].art = None
        /\ At(q, "insert") => req[q].content \in Contents
        /\ req[q].at \in {"fetch", "normalize", "process", "clear", "rebuild", "deduped"} => req[q].art # None

RebuildInv ==
    \A a \in Artifacts : a \notin overlapped =>
        /\ records[a] <= 1
        /\ \A p, q \in Normalizing(a) : p = q
        /\ \A q \in Normalizing(a) : records[a] = 0 \/ At(q, "clear")

Stored(c) == \E a \in Artifacts : Exists(a) /\ raw[a].content = c

DeliveryInv ==
    \A q \in Requests :
        /\ At(q, "deduped") /\ Exists(req[q].art) => raw[req[q].art].content = req[q].content
        /\ At(q, "accepted") => ~Manual
        /\ At(q, "accepted") /\ req[q].content # None => Stored(req[q].content) \/ req[q].run # "completed"
        /\ At(q, "process") => ~Manual
        /\ req[q].at \in {"settle", "process"} /\ ~Manual /\ ~req[q].errs /\ req[q].content # None
             => Stored(req[q].content)

Inv == TypeOK /\ CallInv /\ NoSilentRecordLoss /\ RebuildInv /\ DeliveryInv

-----------------------------------------------------------------------------
LEMMA IdleType == NotCalled \in Called /\ NotCalled.art = None /\ NotCalled.at = "answered" /\ ~NotCalled.errs
BY DEF NotCalled, Called, Answers, Stages, RunRows

LEMMA InitInv == Init => Inv
<1> SUFFICES ASSUME Init PROVE Inv OBVIOUS
<1>1. TypeOK
  BY IdleType, MaxRecordsAssumption DEF Init, TypeOK
<1>2. \A a \in Artifacts : ~Exists(a) /\ records[a] = 0 /\ Normalizing(a) = {}
  BY NoneAssumption, IdleType DEF Init, Exists, Normalizing, Free, Answers
<1>3. CallInv /\ DeliveryInv
  BY IdleType DEF Init, CallInv, DeliveryInv, At
<1> QED BY <1>1, <1>2, <1>3 DEF Inv, NoSilentRecordLoss, RebuildInv

-----------------------------------------------------------------------------
(* One lemma per action.                                                    *)

LEMMA SetArchivedStep == Inv /\ SetArchived => Inv'
<1> SUFFICES ASSUME Inv, SetArchived PROVE Inv' OBVIOUS
<1>1. /\ raw' = raw /\ records' = records /\ req' = req /\ broken' = broken /\ overlapped' = overlapped
      /\ feed' \in Feeds /\ feed'.kind = feed.kind
  BY DEF SetArchived, Inv, TypeOK, Feeds
<1> QED BY <1>1 DEF Inv, TypeOK, CallInv, NoSilentRecordLoss, RebuildInv, DeliveryInv, Stored, Exists,
     Normalizing, Free, At, Manual

\* A request that was free takes a call that holds nothing.
LEMMA StartStep ==
    ASSUME Inv, NEW q \in Requests, NEW call \in Called, Start(q, call),
           call.art = None, ~call.errs,
           \/ call.at = "insert" /\ call.content \in Contents
           \/ call.at = "settle" /\ call.content = None
    PROVE  Inv'
<1>1. /\ req' = [req EXCEPT ![q] = call] /\ Free(q)
      /\ UNCHANGED <<feed, raw, records, broken, overlapped>>
  BY DEF Start
<1>2. TypeOK'
  BY <1>1 DEF Inv, TypeOK
<1>3. \A p \in Requests : req'[p] = IF p = q THEN call ELSE req[p]
  BY <1>1 DEF Inv, TypeOK
<1>4. \A a \in Artifacts : Normalizing(a)' = Normalizing(a)
  BY <1>1, <1>3, NoneAssumption DEF Normalizing, Free
<1>5. CallInv'
  BY <1>3 DEF Inv, CallInv, At
<1>6. DeliveryInv'
  BY <1>1, <1>3 DEF Inv, DeliveryInv, At, Stored, Exists, Manual
<1>7. NoSilentRecordLoss' /\ RebuildInv'
  <2>1. \A a \in Artifacts : \A p \in Normalizing(a) : At(p, "clear")' = At(p, "clear")
    BY <1>1, <1>3, NoneAssumption DEF Normalizing, At, Free
  <2> QED BY <1>1, <1>4, <2>1 DEF Inv, NoSilentRecordLoss, RebuildInv, Exists
<1> QED BY <1>2, <1>5, <1>6, <1>7 DEF Inv

LEMMA CallStep ==
    ASSUME Inv, NEW q \in Requests, Uploads(q) \/ Deliveries(q)
    PROVE  Inv'
<1>1. ASSUME NEW c \in Contents \cup {None}, IngestWebhookResult(q, c) PROVE Inv'
  <2> DEFINE call == [NotCalled EXCEPT !.at = IF c = None THEN "settle" ELSE "insert", !.content = c,
                                       !.run = "running"]
  <2>1. call \in Called /\ call.art = None /\ ~call.errs /\ call.content = c
        /\ call.at = IF c = None THEN "settle" ELSE "insert"
    BY DEF NotCalled, Called, Answers, Stages, RunRows
  <2> QED BY <1>1, <2>1, StartStep DEF IngestWebhookResult
<1>2. ASSUME NEW c \in Contents, NEW shared \in BOOLEAN, IngestManual(q, c, shared) PROVE Inv'
  <2> DEFINE call == [NotCalled EXCEPT !.at = "insert", !.content = c, !.run = "running", !.shared = shared]
  <2>1. call \in Called /\ call.at = "insert" /\ call.art = None /\ ~call.errs /\ call.content = c
    BY DEF NotCalled, Called, Answers, Stages, RunRows
  <2> QED BY <1>2, <2>1, StartStep DEF IngestManual
<1>3. (~feed.blobs) \in BOOLEAN /\ TRUE \in BOOLEAN
  OBVIOUS
<1> QED BY <1>1, <1>2, <1>3 DEF Uploads, Deliveries, IngestManualFile, IngestManualPage, SlackWebhook,
     MattermostWebhook

\* The metadata of a delivery lacks what the normalizer reads.
LEMMA NoMessageKey == \A kind : MessageKey(kind) \notin DeliveryKeys
BY DEF MessageKey, DeliveryKeys

LEMMA InsertStep ==
    ASSUME Inv, NEW q \in Requests, insertRawArtifactRow(q)
    PROVE  Inv'
<1>0. At(q, "insert") /\ req[q].art = None /\ ~req[q].errs /\ req[q] \in Called
      /\ feed' = feed /\ records' = records
  BY DEF insertRawArtifactRow, At, Inv, CallInv, TypeOK
<1>1. CASE SameHash(q) # {}
  <2>1. /\ req' = [req EXCEPT ![q].at = "settle"]
        /\ raw' = raw /\ broken' = broken /\ overlapped' = overlapped
    BY <1>1 DEF insertRawArtifactRow, Go
  <2>2. \A p \in Requests : /\ p # q => req'[p] = req[p]
                            /\ req'[p].art = req[p].art /\ req'[p].errs = req[p].errs
                            /\ req'[p].content = req[p].content /\ req'[p].run = req[p].run
    BY <2>1 DEF Inv, TypeOK, Called
  <2>3. req'[q].at = "settle" /\ req' \in [Requests -> Called]
    BY <2>1, <1>0 DEF Inv, TypeOK, Called, Stages
  <2>4. \A a \in Artifacts : Normalizing(a)' = Normalizing(a) /\ q \notin Normalizing(a)
    BY <1>0, <2>2, NoneAssumption DEF Normalizing, Free
  <2>5. Stored(req[q].content)
    BY <1>1 DEF SameHash, Stored
  <2>6. TypeOK' /\ CallInv'
    BY <1>0, <2>1, <2>2, <2>3 DEF Inv, TypeOK, CallInv, At
  <2>7. NoSilentRecordLoss' /\ RebuildInv'
    BY <1>0, <2>1, <2>2, <2>4 DEF Inv, NoSilentRecordLoss, RebuildInv, Exists, At
  <2>8. DeliveryInv'
    BY <1>0, <2>1, <2>2, <2>3, <2>5 DEF Inv, DeliveryInv, Stored, Exists, At, Manual
  <2> QED BY <2>6, <2>7, <2>8 DEF Inv
<1>2. CASE SameHash(q) = {}
  <2>1. PICK a \in Artifacts :
          /\ Fresh(a)
          /\ raw' = [raw EXCEPT ![a] = [content |-> req[q].content, shared |-> req[q].shared]]
          /\ req' = [req EXCEPT ![q].at = "settle", ![q].art = a]
          /\ broken' = broken \ {a} /\ overlapped' = overlapped \ {a}
    BY <1>2 DEF insertRawArtifactRow
  <2>2. \A p \in Requests : /\ p # q => req'[p] = req[p]
                            /\ req'[p].errs = req[p].errs
                            /\ req'[p].content = req[p].content /\ req'[p].run = req[p].run
    BY <2>1 DEF Inv, TypeOK, Called
  <2>3. req'[q].at = "settle" /\ req'[q].art = a /\ req' \in [Requests -> Called]
    BY <2>1, <1>0 DEF Inv, TypeOK, Called, Stages
  <2>4. records[a] = 0 /\ ~Exists(a)
    BY <2>1 DEF Inv, TypeOK, Fresh, Exists
  <2>5. req[q].content \in Contents
    BY <1>0 DEF Inv, CallInv
  <2>6. raw'[a] # None /\ raw'[a].content = req[q].content /\ \A b \in Artifacts \ {a} : raw'[b] = raw[b]
    <3>1. [content |-> req[q].content, shared |-> req[q].shared] \in RawRows
      BY <1>0, <2>5 DEF RawRows, Called
    <3>2. None \notin RawRows
      BY NoneAssumption DEF RawRows
    <3>3. raw'[a] = [content |-> req[q].content, shared |-> req[q].shared]
      BY <2>1 DEF Inv, TypeOK
    <3> QED BY <2>1, <3>1, <3>2, <3>3 DEF Inv, TypeOK
  <2>7. Normalizing(a)' = {q}
    BY <1>0, <2>1, <2>2, <2>3 DEF Normalizing, Fresh, Free, Answers
  <2>8. \A b \in Artifacts \ {a} : Normalizing(b)' = Normalizing(b) /\ q \notin Normalizing(b)
    BY <1>0, <2>2, <2>3, NoneAssumption DEF Normalizing, Free
  <2>9. TypeOK'
    <3>1. raw' \in [Artifacts -> RawRows \cup {None}]
      BY <1>0, <2>1, <2>5 DEF Inv, TypeOK, RawRows, Called
    <3> QED BY <1>0, <2>1, <2>3, <2>4, <2>6, <3>1 DEF Inv, TypeOK
  <2>10. CallInv'
    BY <1>0, <2>2, <2>3, NoneAssumption DEF Inv, CallInv, At
  <2>11. NoSilentRecordLoss'
    BY <1>0, <2>1, <2>6, <2>7, <2>8 DEF Inv, NoSilentRecordLoss, Exists
  <2>12. RebuildInv'
    <3>1. \A b \in Artifacts \ {a} : \A p \in Normalizing(b) : At(p, "clear") => At(p, "clear")'
      BY <2>2, <2>8 DEF Normalizing, At
    <3>2. \A b \in Artifacts \ {a} : b \notin overlapped' => b \notin overlapped
      BY <2>1
    <3> QED BY <1>0, <2>4, <2>7, <2>8, <3>1, <3>2 DEF Inv, RebuildInv
  <2>13. DeliveryInv'
    <3>1. \A c : Stored(c) => Stored(c)'
      BY <2>4, <2>6 DEF Stored, Exists
    <3>2. Stored(req[q].content)'
      BY <2>2, <2>6 DEF Stored, Exists
    <3>3. \A p \in Requests \ {q} : req[p].art # a
      BY <2>1 DEF Fresh
    <3>4. \A p \in Requests \ {q} : At(p, "deduped") =>
            req[p].art \in Artifacts \ {a} /\ raw'[req[p].art] = raw[req[p].art]
      BY <2>6, <3>3 DEF Inv, TypeOK, Called, CallInv, At
    <3> QED BY <1>0, <2>2, <2>3, <3>1, <3>2, <3>4 DEF Inv, DeliveryInv, At, Exists, Manual
  <2> QED BY <2>9, <2>10, <2>11, <2>12, <2>13 DEF Inv
<1> QED BY <1>1, <1>2

LEMMA InsertFailsStep ==
    ASSUME Inv, NEW q \in Requests, InsertFails(q)
    PROVE  Inv'
<1>1. /\ At(q, "insert") /\ req[q].art = None /\ req[q] \in Called
      /\ req' = [req EXCEPT ![q].at = "settle", ![q].errs = TRUE]
      /\ UNCHANGED <<feed, raw, records, broken, overlapped>>
  BY DEF InsertFails, At, Inv, CallInv, TypeOK
<1>2. \A p \in Requests : p # q => req'[p] = req[p]
  BY <1>1 DEF Inv, TypeOK
<1>3. /\ req'[q].at = "settle" /\ req'[q].art = None /\ req'[q].errs
      /\ req' \in [Requests -> Called]
  BY <1>1 DEF Inv, TypeOK, Called, Stages
<1>4. \A a \in Artifacts : Normalizing(a)' = Normalizing(a) /\ q \notin Normalizing(a)
  BY <1>1, <1>2, <1>3, NoneAssumption DEF Normalizing, Free
<1>5. TypeOK' /\ CallInv'
  BY <1>1, <1>2, <1>3 DEF Inv, TypeOK, CallInv, At
<1>6. NoSilentRecordLoss' /\ RebuildInv'
  <2>1. \A a \in Artifacts : \A p \in Normalizing(a) : At(p, "clear") => At(p, "clear")'
    BY <1>2, <1>4 DEF Normalizing, At
  <2> QED BY <1>1, <1>4, <2>1 DEF Inv, NoSilentRecordLoss, RebuildInv, Exists
<1>7. DeliveryInv'
  BY <1>1, <1>2, <1>3 DEF Inv, DeliveryInv, Stored, Exists, At, Manual
<1> QED BY <1>5, <1>6, <1>7 DEF Inv

\* An answer frees the request: nobody else is touched.
LEMMA Answered ==
    ASSUME Inv, NEW q \in Requests, Answer(q)
    PROVE  /\ req' \in [Requests -> Called]
           /\ \A p \in Requests : req'[p] = IF p = q THEN NotCalled ELSE req[p]
           /\ \A a \in Artifacts : Normalizing(a)' = Normalizing(a) \ {q}
           /\ CallInv'
<1>1. \A p \in Requests : req'[p] = IF p = q THEN NotCalled ELSE req[p]
  BY DEF Answer, Inv, TypeOK
<1>2. req' \in [Requests -> Called]
  BY IdleType DEF Answer, Inv, TypeOK
<1>3. \A a \in Artifacts : Normalizing(a)' = Normalizing(a) \ {q}
  BY <1>1, IdleType, NoneAssumption DEF Normalizing, Free
<1>4. CallInv'
  BY <1>1, IdleType DEF Inv, CallInv, At
<1> QED BY <1>1, <1>2, <1>3, <1>4

\* An answer from a request that owes no record, and that changes nothing else.
LEMMA AnswerStep ==
    ASSUME Inv, NEW q \in Requests, Answer(q), UNCHANGED <<feed, raw, records, broken, overlapped>>,
           \A a \in Artifacts : q \in Normalizing(a) => ~Exists(a)
    PROVE  Inv'
<1>1. TypeOK' /\ CallInv'
  BY Answered DEF Inv, TypeOK
<1>2. NoSilentRecordLoss'
  BY Answered DEF Inv, NoSilentRecordLoss, Exists
<1>3. RebuildInv'
  BY Answered DEF Inv, RebuildInv, At, Normalizing
<1>4. DeliveryInv'
  BY Answered, IdleType DEF Inv, DeliveryInv, Stored, Exists, At, Manual
<1> QED BY <1>1, <1>2, <1>3, <1>4 DEF Inv

LEMMA FinalizeStep ==
    ASSUME Inv, NEW q \in Requests, finalizeIngestionRun(q)
    PROVE  Inv'
<1>1. At(q, "settle") /\ UNCHANGED <<feed, raw, records, broken, overlapped>>
      /\ (req[q].errs => req[q].art = None) /\ req[q] \in Called
  BY DEF finalizeIngestionRun, Inv, CallInv, TypeOK
<1>2. CASE Manual /\ req[q].errs
  <2>1. Answer(q) BY <1>2 DEF finalizeIngestionRun
  <2>2. \A a \in Artifacts : q \notin Normalizing(a)
    BY <1>1, <1>2, NoneAssumption DEF Normalizing
  <2> QED BY <1>1, <2>1, <2>2, AnswerStep
<1>3. CASE ~(Manual /\ req[q].errs)
  <2>1. PICK status \in {FinalStatus(q)} \cup {s \in {"running"} : Faults} :
          req' = [req EXCEPT ![q].run = status, ![q].at = AfterRun(q)]
    BY <1>3 DEF finalizeIngestionRun
  <2>2. status \in RunRows /\ (req[q].errs => status # "completed")
    BY DEF FinalStatus, RunRows
  <2>3. \A p \in Requests : p # q => req'[p] = req[p]
    BY <2>1 DEF Inv, TypeOK
  <2>4. AfterRun(q) \in {"fetch", "process", "find", "accepted"}
        /\ (AfterRun(q) \in {"fetch", "process"} <=> req[q].art # None)
        /\ (AfterRun(q) \in {"process", "accepted"} <=> ~Manual)
    BY DEF AfterRun
  <2>5. /\ req'[q].at = AfterRun(q) /\ req'[q].run = status /\ req'[q].art = req[q].art
        /\ req'[q].errs = req[q].errs /\ req'[q].content = req[q].content
        /\ req' \in [Requests -> Called]
    BY <1>1, <2>1, <2>2, <2>4 DEF Inv, TypeOK, Called, Stages, Answers
  <2>6. \A a \in Artifacts : Normalizing(a)' = Normalizing(a)
    BY <1>1, <2>3, <2>4, <2>5, NoneAssumption DEF Normalizing, Free, At, Answers
  <2>7. TypeOK' /\ CallInv'
    BY <1>1, <1>3, <2>3, <2>4, <2>5 DEF Inv, TypeOK, CallInv, At
  <2>8. NoSilentRecordLoss' /\ RebuildInv'
    <3>1. \A a \in Artifacts : \A p \in Normalizing(a) : At(p, "clear") => At(p, "clear")'
      BY <1>1, <2>3 DEF Normalizing, At
    <3> QED BY <1>1, <2>6, <3>1 DEF Inv, NoSilentRecordLoss, RebuildInv, Exists
  <2>9. DeliveryInv'
    BY <1>1, <2>2, <2>3, <2>4, <2>5 DEF Inv, DeliveryInv, Stored, Exists, At, Manual
  <2> QED BY <2>7, <2>8, <2>9 DEF Inv
<1> QED BY <1>2, <1>3

LEMMA FindStep ==
    ASSUME Inv, NEW q \in Requests, findExistingRawArtifact(q)
    PROVE  Inv'
<1>1. At(q, "find") /\ req[q].art = None /\ UNCHANGED <<feed, raw, records, broken, overlapped>>
      /\ req[q] \in Called /\ ~req[q].errs
  BY DEF findExistingRawArtifact, At, Inv, CallInv, TypeOK
<1>2. CASE SameHash(q) = {}
  <2>1. \A a \in Artifacts : q \notin Normalizing(a)
    BY <1>1, NoneAssumption DEF Normalizing
  <2> QED BY <1>1, <1>2, <2>1, AnswerStep DEF findExistingRawArtifact
<1>3. CASE SameHash(q) # {}
  <2>1. PICK a \in SameHash(q) : req' = [req EXCEPT ![q].at = "deduped", ![q].art = a]
    BY <1>3 DEF findExistingRawArtifact
  <2>2. a \in Artifacts /\ raw[a].content = req[q].content
    BY DEF SameHash
  <2>3. \A p \in Requests : p # q => req'[p] = req[p]
    BY <2>1 DEF Inv, TypeOK
  <2>4. /\ req'[q].at = "deduped" /\ req'[q].art = a /\ req'[q].content = req[q].content
        /\ req'[q].errs = req[q].errs
        /\ req' \in [Requests -> Called]
    BY <1>1, <2>1, <2>2 DEF Inv, TypeOK, Called, Answers
  <2>5. \A b \in Artifacts : Normalizing(b)' = Normalizing(b) /\ q \notin Normalizing(b)
    BY <1>1, <2>3, <2>4, NoneAssumption DEF Normalizing, Free, Answers
  <2>6. TypeOK' /\ CallInv'
    BY <1>1, <2>2, <2>3, <2>4, NoneAssumption DEF Inv, TypeOK, CallInv, At
  <2>7. NoSilentRecordLoss' /\ RebuildInv'
    <3>1. \A b \in Artifacts : \A p \in Normalizing(b) : At(p, "clear") => At(p, "clear")'
      BY <2>3, <2>5 DEF Normalizing, At
    <3> QED BY <1>1, <2>5, <3>1 DEF Inv, NoSilentRecordLoss, RebuildInv, Exists
  <2>8. DeliveryInv'
    BY <1>1, <2>2, <2>3, <2>4 DEF Inv, DeliveryInv, Stored, Exists, At, Manual
  <2> QED BY <2>6, <2>7, <2>8 DEF Inv
<1> QED BY <1>2, <1>3

LEMMA FetchStep ==
    ASSUME Inv, NEW q \in Requests, GetRawArtifact(q)
    PROVE  Inv'
<1>1. At(q, "fetch") /\ UNCHANGED <<feed, raw, records, broken, overlapped>> /\ req[q] \in Called
  BY DEF GetRawArtifact, Inv, TypeOK
<1>2. CASE ~Exists(req[q].art)
  <2>1. \A a \in Artifacts : q \in Normalizing(a) => ~Exists(a)
    BY <1>2 DEF Normalizing
  <2> QED BY <1>1, <1>2, <2>1, AnswerStep DEF GetRawArtifact
<1>3. CASE Exists(req[q].art)
  <2>1. req' = [req EXCEPT ![q].at = "normalize"]
    BY <1>3 DEF GetRawArtifact, Go
  <2>2. \A p \in Requests : p # q => req'[p] = req[p]
    BY <2>1 DEF Inv, TypeOK
  <2>3. /\ req'[q].at = "normalize" /\ req'[q].art = req[q].art /\ req'[q].errs = req[q].errs
        /\ req' \in [Requests -> Called]
    BY <1>1, <2>1 DEF Inv, TypeOK, Called, Stages
  <2>4. \A b \in Artifacts : Normalizing(b)' = Normalizing(b)
    BY <1>1, <2>2, <2>3 DEF Normalizing, Free, At, Answers
  <2>5. TypeOK' /\ CallInv'
    BY <1>1, <2>2, <2>3 DEF Inv, TypeOK, CallInv, At
  <2>6. NoSilentRecordLoss' /\ RebuildInv'
    <3>1. \A b \in Artifacts : \A p \in Normalizing(b) : At(p, "clear") => At(p, "clear")'
      BY <1>1, <2>2 DEF Normalizing, At
    <3> QED BY <1>1, <2>4, <3>1 DEF Inv, NoSilentRecordLoss, RebuildInv, Exists
  <2>7. DeliveryInv'
    BY <1>1, <2>2, <2>3 DEF Inv, DeliveryInv, Stored, Exists, At, Manual
  <2> QED BY <2>5, <2>6, <2>7 DEF Inv
<1> QED BY <1>2, <1>3

\* The one that writes a record was alone and had nothing to clear, or the artifact is overlapped.
LEMMA PersistStep ==
    ASSUME Inv, NEW q \in Requests, At(q, "normalize") \/ At(q, "rebuild"), PersistNormalizedRecord(q)
    PROVE  Inv'
<1> DEFINE a == req[q].art
<1>1. /\ a \in Artifacts /\ q \in Normalizing(a) /\ ~At(q, "clear")
      /\ \A b \in Artifacts \ {a} : q \notin Normalizing(b)
  BY DEF Inv, TypeOK, Called, CallInv, At, Normalizing, Free, Answers
<1>2. /\ Answer(q) /\ UNCHANGED <<feed, raw, broken, overlapped>>
      /\ Exists(a) => records[a] < MaxRecords
      /\ records' = IF Exists(a) THEN [records EXCEPT ![a] = @ + 1] ELSE records
  BY DEF PersistNormalizedRecord
<1>3. /\ \A b \in Artifacts \ {a} : records'[b] = records[b]
      /\ records'[a] = IF Exists(a) THEN records[a] + 1 ELSE records[a]
      /\ records \in [Artifacts -> Nat] /\ records' \in [Artifacts -> 0..MaxRecords]
  BY <1>1, <1>2, MaxRecordsAssumption DEF Inv, TypeOK
<1>4. TypeOK' /\ CallInv'
  BY <1>2, <1>3, Answered DEF Inv, TypeOK, Exists
<1>5. NoSilentRecordLoss'
  BY <1>1, <1>2, <1>3, Answered DEF Inv, NoSilentRecordLoss, Exists
<1>6. RebuildInv'
  <2>1. \A b \in Artifacts : Normalizing(b)' = Normalizing(b) \ {q}
    BY <1>2, Answered
  <2>2. \A b \in Artifacts : \A p \in Normalizing(b) \ {q} : At(p, "clear") => At(p, "clear")'
    BY <1>2, Answered DEF At, Normalizing
  <2>3. a \notin overlapped => records[a] = 0 /\ Normalizing(a) \ {q} = {}
    BY <1>1 DEF Inv, RebuildInv
  <2>4. ASSUME NEW b \in Artifacts, b \notin overlapped, b # a
        PROVE  records'[b] <= 1 /\ (\A p \in Normalizing(b)' : records'[b] = 0 \/ At(p, "clear")')
               /\ \A p \in Normalizing(b)' : \A r \in Normalizing(b)' : p = r
    BY <1>1, <1>3, <2>1, <2>2, <2>4 DEF Inv, RebuildInv
  <2> QED BY <1>2, <1>3, <2>1, <2>3, <2>4 DEF RebuildInv
<1>7. DeliveryInv'
  BY <1>2, Answered, IdleType DEF Inv, DeliveryInv, Stored, Exists, At, Manual
<1> QED BY <1>4, <1>5, <1>6, <1>7 DEF Inv

LEMMA ProcessStep ==
    ASSUME Inv, NEW q \in Requests, ProcessQueuedRawArtifact(q)
    PROVE  Inv'
<1> DEFINE a == req[q].art
<1>1. /\ At(q, "process") /\ a \in Artifacts /\ req[q] \in Called /\ ~req[q].errs
      /\ broken' = broken \cup {a} /\ UNCHANGED <<feed, raw, records, overlapped>>
      /\ req' = [req EXCEPT ![q].at = "accepted", ![q].art = None]
  BY NoMessageKey, NoneAssumption DEF ProcessQueuedRawArtifact, Inv, TypeOK, Called, CallInv, At
<1>2. \A p \in Requests : p # q => req'[p] = req[p]
  BY <1>1 DEF Inv, TypeOK
<1>3. /\ req'[q].at = "accepted" /\ req'[q].art = None /\ req'[q].errs = req[q].errs
      /\ req'[q].content = req[q].content
      /\ req' \in [Requests -> Called]
  BY <1>1 DEF Inv, TypeOK, Called, Answers
<1>4. \A b \in Artifacts : Normalizing(b)' = Normalizing(b) \ {q} /\ (q \in Normalizing(b) => b = a)
  BY <1>1, <1>2, <1>3 DEF Normalizing, Free, Answers
<1>5. TypeOK' /\ CallInv'
  BY <1>1, <1>2, <1>3 DEF Inv, TypeOK, CallInv, At
<1>6. NoSilentRecordLoss'
  BY <1>1, <1>4 DEF Inv, NoSilentRecordLoss, Exists
<1>7. RebuildInv'
  <2>1. \A b \in Artifacts : \A p \in Normalizing(b) \ {q} : At(p, "clear") => At(p, "clear")'
    BY <1>2 DEF Normalizing, At
  <2> QED BY <1>1, <1>4, <2>1 DEF Inv, RebuildInv
<1>8. DeliveryInv'
  <2>1. ~Manual
    BY <1>1 DEF Inv, DeliveryInv
  <2> QED BY <1>1, <1>2, <1>3, <2>1 DEF Inv, DeliveryInv, Stored, Exists, At, Manual
<1> QED BY <1>5, <1>6, <1>7, <1>8 DEF Inv

-----------------------------------------------------------------------------
LEMMA DeleteStep ==
    ASSUME Inv, NEW q \in Requests, NEW a \in Artifacts, DeleteManualArtifact(q, a)
    PROVE  Inv'
<1>1. /\ Free(q) /\ Manual /\ Answer(q) /\ UNCHANGED <<feed, broken, overlapped>>
      /\ raw' = [raw EXCEPT ![a] = None] /\ records' = [records EXCEPT ![a] = 0]
  BY DEF DeleteManualArtifact
<1>2. \A b \in Artifacts : Normalizing(b)' = Normalizing(b) /\ q \notin Normalizing(b)
  BY <1>1, Answered DEF Normalizing
<1>3. /\ \A b \in Artifacts \ {a} : raw'[b] = raw[b] /\ records'[b] = records[b]
      /\ raw'[a] = None /\ records'[a] = 0
      /\ raw' \in [Artifacts -> RawRows \cup {None}] /\ records' \in [Artifacts -> 0..MaxRecords]
  BY <1>1, MaxRecordsAssumption DEF Inv, TypeOK
<1>4. TypeOK' /\ CallInv'
  BY <1>1, <1>3, Answered DEF Inv, TypeOK
<1>5. NoSilentRecordLoss'
  BY <1>1, <1>2, <1>3 DEF Inv, NoSilentRecordLoss, Exists
<1>6. RebuildInv'
  <2>1. \A b \in Artifacts : \A p \in Normalizing(b) : At(p, "clear") => At(p, "clear")'
    BY <1>1, <1>2, Answered DEF Normalizing, At
  <2> QED BY <1>1, <1>2, <1>3, <2>1 DEF Inv, RebuildInv
<1>7. DeliveryInv'
  <2>1. \A p \in Requests : At(p, "deduped") => req[p].art \in Artifacts
    BY DEF Inv, TypeOK, Called, CallInv, At
  <2>2. Manual'
    BY <1>1 DEF Manual
  <2> QED BY <1>1, <1>3, <2>1, <2>2, Answered, IdleType DEF Inv, DeliveryInv, Exists, At
<1> QED BY <1>4, <1>5, <1>6, <1>7 DEF Inv

LEMMA RenormalizeStep ==
    ASSUME Inv, NEW q \in Requests, NEW a \in Artifacts, RenormalizeManualArtifact(q, a)
    PROVE  Inv'
<1> DEFINE call == [NotCalled EXCEPT !.at = "clear", !.art = a]
<1>1. /\ Free(q) /\ Manual /\ Exists(a) /\ UNCHANGED <<feed, raw, records, broken>>
      /\ req' = [req EXCEPT ![q] = call]
      /\ overlapped' = overlapped \cup {i \in {a} : Normalizing(a) # {}}
  BY DEF RenormalizeManualArtifact
<1>2. call \in Called /\ call.at = "clear" /\ call.art = a /\ ~call.errs
  BY DEF NotCalled, Called, Answers, Stages, RunRows
<1>3. \A p \in Requests : req'[p] = IF p = q THEN call ELSE req[p]
  BY <1>1 DEF Inv, TypeOK
<1>4. /\ Normalizing(a)' = Normalizing(a) \cup {q}
      /\ \A b \in Artifacts \ {a} : Normalizing(b)' = Normalizing(b)
      /\ \A b \in Artifacts : q \notin Normalizing(b)
  BY <1>1, <1>2, <1>3 DEF Normalizing, Free, Answers
<1>5. TypeOK' /\ CallInv'
  <2>1. req' \in [Requests -> Called]
    BY <1>1, <1>2 DEF Inv, TypeOK
  <2>2. TypeOK'
    BY <1>1, <2>1 DEF Inv, TypeOK
  <2>3. a # None
    BY NoneAssumption
  <2>4. CallInv'
    <3> HIDE DEF call
    <3> QED BY <1>2, <1>3, <2>3 DEF Inv, CallInv, At
  <2> QED BY <2>2, <2>4
<1>6. NoSilentRecordLoss'
  BY <1>1, <1>4 DEF Inv, NoSilentRecordLoss, Exists
<1>7. RebuildInv'
  <2>1. \A b \in Artifacts : \A p \in Normalizing(b) : At(p, "clear") => At(p, "clear")'
    BY <1>3, <1>4 DEF Normalizing, At
  <2>2. At(q, "clear")'
    BY <1>2, <1>3 DEF At
  <2>3. a \notin overlapped' => a \notin overlapped /\ Normalizing(a)' = {q}
    BY <1>1, <1>4
  <2>4. \A b \in Artifacts \ {a} : b \notin overlapped' => b \notin overlapped
    BY <1>1
  <2> QED BY <1>1, <1>4, <2>1, <2>2, <2>3, <2>4 DEF Inv, RebuildInv
<1>8. DeliveryInv'
  BY <1>1, <1>2, <1>3 DEF Inv, DeliveryInv, Stored, Exists, At, Manual
<1> QED BY <1>5, <1>6, <1>7, <1>8 DEF Inv

LEMMA ClearStep ==
    ASSUME Inv, NEW q \in Requests, ClearRecords(q)
    PROVE  Inv'
<1> DEFINE a == req[q].art
<1>1. /\ At(q, "clear") /\ a \in Artifacts /\ q \in Normalizing(a) /\ req[q] \in Called
      /\ \A b \in Artifacts \ {a} : q \notin Normalizing(b)
  BY DEF ClearRecords, Inv, TypeOK, Called, CallInv, At, Normalizing, Free, Answers
<1>2. /\ UNCHANGED <<feed, raw, broken>>
      /\ records' = [records EXCEPT ![a] = 0] /\ req' = [req EXCEPT ![q].at = "rebuild"]
      /\ overlapped' = IF Normalizing(a) = {q} THEN overlapped \ {a} ELSE overlapped
  BY DEF ClearRecords, Go
<1>3. \A p \in Requests : p # q => req'[p] = req[p]
  BY <1>2 DEF Inv, TypeOK
<1>4. /\ req'[q].at = "rebuild" /\ req'[q].art = a /\ req'[q].errs = req[q].errs
      /\ req' \in [Requests -> Called]
  BY <1>1, <1>2 DEF Inv, TypeOK, Called, Stages
<1>5. \A b \in Artifacts : Normalizing(b)' = Normalizing(b)
  BY <1>1, <1>3, <1>4 DEF Normalizing, Free, At, Answers
<1>6. /\ \A b \in Artifacts \ {a} : records'[b] = records[b]
      /\ records'[a] = 0 /\ records' \in [Artifacts -> 0..MaxRecords]
  BY <1>1, <1>2, MaxRecordsAssumption DEF Inv, TypeOK
<1>7. TypeOK' /\ CallInv'
  BY <1>1, <1>2, <1>3, <1>4, <1>6 DEF Inv, TypeOK, CallInv, At
<1>8. NoSilentRecordLoss'
  BY <1>1, <1>2, <1>5, <1>6 DEF Inv, NoSilentRecordLoss, Exists
<1>9. RebuildInv'
  <2>1. \A b \in Artifacts \ {a} : \A p \in Normalizing(b) : At(p, "clear") => At(p, "clear")'
    BY <1>1, <1>3 DEF Normalizing, At
  <2>2. \A b \in Artifacts \ {a} : b \notin overlapped' => b \notin overlapped
    BY <1>2
  <2>3. a \notin overlapped' => \A p \in Normalizing(a) : \A r \in Normalizing(a) : p = r
    <3>1. a \notin overlapped => \A p \in Normalizing(a) : \A r \in Normalizing(a) : p = r
      BY <1>1 DEF Inv, RebuildInv
    <3> QED BY <1>2, <3>1
  <2> QED BY <1>5, <1>6, <2>1, <2>2, <2>3 DEF Inv, RebuildInv
<1>10. DeliveryInv'
  BY <1>1, <1>2, <1>3, <1>4 DEF Inv, DeliveryInv, Stored, Exists, At, Manual
<1> QED BY <1>7, <1>8, <1>9, <1>10 DEF Inv

LEMMA FailsStep ==
    ASSUME Inv, NEW q \in Requests, Fails(q)
    PROVE  Inv'
<1>1. /\ Answer(q) /\ UNCHANGED <<feed, raw, records, overlapped>>
      /\ broken' = broken \cup {a \in Artifacts : q \in Normalizing(a)}
  BY DEF Fails
<1>2. TypeOK' /\ CallInv'
  BY <1>1, Answered DEF Inv, TypeOK
<1>3. NoSilentRecordLoss'
  BY <1>1, Answered DEF Inv, NoSilentRecordLoss, Exists
<1>4. RebuildInv'
  BY <1>1, Answered DEF Inv, RebuildInv, At, Normalizing
<1>5. DeliveryInv'
  BY <1>1, Answered, IdleType DEF Inv, DeliveryInv, Stored, Exists, At, Manual
<1> QED BY <1>2, <1>3, <1>4, <1>5 DEF Inv

LEMMA NextStep == Inv /\ [Next]_vars => Inv'
<1> SUFFICES ASSUME Inv, [Next]_vars PROVE Inv' OBVIOUS
<1>1. ASSUME NEW q \in Requests, Step(q) PROVE Inv'
  BY <1>1, InsertStep, InsertFailsStep, FinalizeStep, FindStep, FetchStep, PersistStep, ProcessStep,
     ClearStep, FailsStep DEF Step, normalizeManualToDocsPage, normalizeManualArtifactFromMeta
<1>2. CASE Next
  BY <1>1, <1>2, SetArchivedStep, CallStep, DeleteStep, RenormalizeStep DEF Next, Changes
<1>3. CASE UNCHANGED vars
  BY <1>3 DEF vars, Inv, TypeOK, CallInv, NoSilentRecordLoss, RebuildInv, DeliveryInv, Stored, Exists,
     Normalizing, Free, At, Manual
<1> QED BY <1>2, <1>3

-----------------------------------------------------------------------------
\* The invariant of the pushed side of ingestion, for every interleaving of requests and faults.
THEOREM IntakeSafety == Spec => []Inv
<1>1. Init => Inv BY InitInv
<1>2. Inv /\ [Next]_vars => Inv' BY NextStep
<1> QED BY <1>1, <1>2, PTL DEF Spec

\* Every reachable state is well typed, and no record is left of an artifact that is gone.
THEOREM TypeCorrect == Spec => []TypeOK
<1>1. Inv => TypeOK BY DEF Inv
<1> QED BY <1>1, IntakeSafety, PTL

\* An artifact without a record is being normalized, or its normalization broke off or failed.
THEOREM RecordsAccountedFor == Spec => []NoSilentRecordLoss
<1>1. Inv => NoSilentRecordLoss BY DEF Inv
<1> QED BY <1>1, IntakeSafety, PTL

\* Only requests that normalize one artifact at once leave it two records.
THEOREM SingleRecord == Spec => []OneRecordPerArtifact
<1>1. Inv => OneRecordPerArtifact
  <2> SUFFICES ASSUME Inv, NEW a \in Artifacts, records[a] > 1, a \notin overlapped PROVE FALSE
    BY DEF OneRecordPerArtifact
  <2> QED BY DEF Inv, TypeOK, RebuildInv
<1> QED BY <1>1, IntakeSafety, PTL

\* What an upload was told to be a duplicate of, and what a delivery was accepted as, is stored.
THEOREM AnswersHold == Spec => []AnswersAreKept
<1>1. Inv => AnswersAreKept
  BY DEF Inv, DeliveryInv, AnswersAreKept, Stored
<1> QED BY <1>1, IntakeSafety, PTL
=============================================================================
