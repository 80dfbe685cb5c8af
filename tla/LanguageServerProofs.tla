------------------------- MODULE LanguageServerProofs -------------------------
(* Proofs about LanguageServer: for any documents, any number of edits, requests *)
(* and saves, and every order in which the two queues are served.                *)
EXTENDS LanguageServer, FiniteSetTheorems, SequenceTheorems, TLAPS

USE DEF Text, None, Unbuilt

\* Messages that carry a text to the worker carry one.
Carry(m) == m.kind \in {"didOpen", "UpdateSource", "Elaborate"} => m.text \in Text
Carrying == /\ \A i \in 1..Len(requests) : Carry(requests[i])
            /\ \A i \in 1..Len(analysis) : Carry(analysis[i])
TInv == TypeOK /\ Carrying

\* A document the worker holds is a record with a text, and the other way round.
LEMMA AnyDocument ==
  ASSUME NEW doc \in DocType \ {NoDoc}
  PROVE  doc \in [text : Text, version : Text, errors : Text \cup {None},
                  design : Text \cup {None}, root : BOOLEAN]
BY DEF DocType

\* A document the worker holds is not NoDoc.
LEMMA SomeDocument ==
  ASSUME NEW doc \in [text : Text, version : Text, errors : Text \cup {None},
                      design : Text \cup {None}, root : BOOLEAN]
  PROVE  doc \in DocType \ {NoDoc}
<1>1. doc.text # None /\ NoDoc.text = None
  BY DEF NoDoc
<1> QED
  BY <1>1 DEF DocType

\* What the handlers make of a document.
LEMMA DocumentTypes ==
  /\ \A t \in Text : Fresh(t) \in DocType \ {NoDoc}
  /\ \A d \in Docs, doc \in DocType \ {NoDoc} : Analyzed(d, doc) \in DocType \ {NoDoc}
  /\ \A doc \in DocType, m \in MsgType(RequestKinds) :
       Saved(m, doc) \in DocType /\ (doc # NoDoc => Saved(m, doc) # NoDoc)
<1>1. ASSUME NEW t \in Text PROVE Fresh(t) \in DocType \ {NoDoc}
  <2>1. Fresh(t) \in [text : Text, version : Text, errors : Text \cup {None},
                      design : Text \cup {None}, root : BOOLEAN]
    BY DEF Fresh, NoDoc
  <2> QED
    BY <2>1, SomeDocument
<1>2. ASSUME NEW d \in Docs, NEW doc \in DocType \ {NoDoc}
      PROVE  Analyzed(d, doc) \in DocType \ {NoDoc}
  <2> DEFINE inProject == d \in ProjectDocs
             valid     == <<d, doc.text>> \notin Broken
  <2>1. inProject \in BOOLEAN
    OBVIOUS
  <2>2. Analyzed(d, doc) = [doc EXCEPT !.errors = doc.text,
                                       !.design = IF valid THEN doc.text ELSE @,
                                       !.root = inProject]
    BY DEF Analyzed
  <2> HIDE DEF inProject, valid
  <2>3. Analyzed(d, doc) \in [text : Text, version : Text, errors : Text \cup {None},
                              design : Text \cup {None}, root : BOOLEAN]
    BY <2>1, <2>2, AnyDocument
  <2> QED
    BY <2>3, SomeDocument
<1>3. ASSUME NEW doc \in DocType, NEW m \in MsgType(RequestKinds)
      PROVE  Saved(m, doc) \in DocType /\ (doc # NoDoc => Saved(m, doc) # NoDoc)
  <2>1. CASE m.text = None \/ doc = NoDoc
    BY <2>1 DEF Saved
  <2>2. CASE m.text # None /\ doc # NoDoc
    <3>1. m.text \in Text
      BY <2>2 DEF MsgType
    <3> QED
      BY <2>2, <3>1, AnyDocument, SomeDocument DEF Saved
  <2> QED
    BY <2>1, <2>2
<1> QED
  BY <1>1, <1>2, <1>3

\* What the worker publishes are reports.
LEMMA PublishType ==
  ASSUME TypeOK, NEW ds \in [Docs -> DocType], NEW u \in [ProjectDocs -> Text \cup {None, Unbuilt}],
         NEW d \in Docs
  PROVE  Publish([docs |-> ds, unit |-> u], d, published) \in [Docs -> ReportType]
<1>1. \A e \in Present(ds) : OwnReport(ds[e]) \in ReportType
  BY DEF Present, OwnReport, DocType, ReportType, NoDoc
<1>2. \A e \in ProjectDocs : u[e] \in Text => FileReport(u, e) \in ReportType
  BY LanguageServerAssumption DEF FileReport, ReportType, TypeOK
<1> QED
  BY <1>1, <1>2 DEF Publish, TypeOK, Present
-------------------------------------------------------------------------------
(* Types.                                                                       *)

\* Both threads start with nothing.
LEMMA TypeInit == Init => TInv
<1> SUFFICES ASSUME Init PROVE TInv
  OBVIOUS
<1>1. AnyDoc \in Docs
  BY LanguageServerAssumption DEF AnyDoc
<1>2. NoJob \in MsgType({"Elaborate"})
  BY <1>1 DEF NoJob, Msg, MsgType
<1>3. Nothing \in ReportType /\ NoDoc \in DocType
  BY DEF Nothing, ReportType, DocType
<1>4. requests \in Seq(MsgType(RequestKinds)) /\ Len(requests) = 0
  BY EmptySeq DEF Init
<1>5. analysis \in Seq(MsgType(AnalysisKinds)) /\ Len(analysis) = 0
  BY EmptySeq DEF Init
<1>6. unit \in [ProjectDocs -> Text \cup {None, Unbuilt}]
  BY DEF Init, NoUnit
<1>7. TypeOK
  BY <1>2, <1>3, <1>4, <1>5, <1>6, LanguageServerAssumption DEF Init, TypeOK
<1>8. Carrying
  BY <1>4, <1>5 DEF Carrying
<1> QED
  BY <1>7, <1>8 DEF TInv

\* Either queue grows by a message at its end.
LEMMA Enqueued ==
  ASSUME NEW kinds, NEW q \in Seq(MsgType(kinds)), NEW m \in MsgType(kinds)
  PROVE  /\ Append(q, m) \in Seq(MsgType(kinds)) /\ Len(Append(q, m)) = Len(q) + 1
         /\ \A i \in 1..Len(q) : Append(q, m)[i] = q[i]
         /\ Append(q, m)[Len(q) + 1] = m
         /\ Len(q) \in Nat
<1>1. Len(q) \in Nat
  BY LenProperties
<1> QED
  BY <1>1

\* And loses the one at its head.
LEMMA Dequeued ==
  ASSUME NEW kinds, NEW q \in Seq(MsgType(kinds)), q # <<>>
  PROVE  /\ Tail(q) \in Seq(MsgType(kinds)) /\ Head(q) \in MsgType(kinds) /\ Head(q) = q[1]
         /\ Len(q) \in Nat \ {0} /\ Len(Tail(q)) = Len(q) - 1
         /\ \A i \in 1..Len(Tail(q)) : Tail(q)[i] = q[i + 1]
<1>1. Len(q) \in Nat \ {0}
  BY EmptySeq
<1> QED
  BY <1>1, HeadTailProperties

\* What the editor sends on the request channel.
LEMMA TypeEditor ==
  ASSUME TInv, NEW d \in Docs,
         DidOpen(d) \/ DidSave(d) \/ DidClose(d) \/ SendRequest(d)
  PROVE  TInv'
<1>1. TypeOK /\ requests \in Seq(MsgType(RequestKinds)) /\ text[d] \in Nat
  BY DEF TInv, TypeOK
<1>2. PICK m \in MsgType(RequestKinds) : requests' = Append(requests, m) /\ Carry(m)
  BY <1>1 DEF DidOpen, DidSave, DidClose, SendRequest, Enqueue, Msg, MsgType, RequestKinds, Carry
<1>3. requests' \in Seq(MsgType(RequestKinds))
  BY <1>1, <1>2, Enqueued
<1>4. /\ open' \subseteq Docs /\ text' \in [Docs -> Text] /\ since' \in [Docs -> Text]
      /\ disk' \in [Docs -> Text \cup {None}] /\ pending' \subseteq Docs
  <2>1. CASE DidOpen(d)
    BY <1>1, <2>1 DEF DidOpen, TypeOK
  <2>2. CASE DidSave(d)
    BY <1>1, <2>2 DEF DidSave, TypeOK
  <2>3. CASE DidClose(d) \/ SendRequest(d)
    BY <1>1, <2>3 DEF DidClose, SendRequest, TypeOK
  <2> QED
    BY <2>1, <2>2, <2>3
<1>5. asks' \in 0..MaxAsks
  BY <1>1, LanguageServerAssumption DEF DidOpen, DidSave, DidClose, SendRequest, TypeOK
<1>6. UNCHANGED <<analysis, worker>>
  BY DEF DidOpen, DidSave, DidClose, SendRequest
<1>7. TypeOK'
  BY <1>1, <1>3, <1>4, <1>5, <1>6 DEF TypeOK, worker
<1>8. Carrying'
  BY <1>1, <1>2, <1>6, Enqueued DEF Carrying, TInv
<1> QED
  BY <1>7, <1>8 DEF TInv

\* What the main thread puts on the analysis channel.
LEMMA TypeAnalysis ==
  ASSUME TInv, NEW d \in Docs, DidChange(d) \/ TimerFires(d)
  PROVE  TInv'
<1>1. TypeOK /\ analysis \in Seq(MsgType(AnalysisKinds)) /\ text[d] \in Nat
  BY DEF TInv, TypeOK
<1>2. PICK m \in MsgType(AnalysisKinds) : analysis' = Append(analysis, m) /\ Carry(m)
  BY <1>1 DEF DidChange, TimerFires, Msg, MsgType, AnalysisKinds, Carry
<1>3. analysis' \in Seq(MsgType(AnalysisKinds))
  BY <1>1, <1>2, Enqueued
<1>4. text' \in [Docs -> Text] /\ pending' \subseteq Docs
  <2>1. CASE DidChange(d)
    BY <1>1, <2>1 DEF DidChange, TypeOK
  <2>2. CASE TimerFires(d)
    BY <1>1, <2>2 DEF TimerFires, TypeOK, client
  <2> QED
    BY <2>1, <2>2
<1>5. UNCHANGED <<open, since, disk, asks, requests, worker>>
  BY DEF DidChange, TimerFires, client
<1>6. TypeOK'
  BY <1>1, <1>3, <1>4, <1>5 DEF TypeOK, worker
<1>7. Carrying'
  BY <1>1, <1>2, <1>5, Enqueued DEF Carrying, TInv
<1> QED
  BY <1>6, <1>7 DEF TInv

\* A watched file is about no document.
LEMMA TypeWatched == ASSUME TInv, DidChangeWatchedFiles PROVE TInv'
<1>1. TypeOK /\ requests \in Seq(MsgType(RequestKinds))
  BY DEF TInv, TypeOK
<1>2. AnyDoc \in Docs
  BY LanguageServerAssumption DEF AnyDoc
<1>3. PICK m \in MsgType(RequestKinds) : requests' = Append(requests, m) /\ Carry(m)
  BY <1>2 DEF DidChangeWatchedFiles, Enqueue, Msg, MsgType, RequestKinds, Carry
<1>4. requests' \in Seq(MsgType(RequestKinds))
  BY <1>1, <1>3, Enqueued
<1>5. TypeOK'
  BY <1>1, <1>4, LanguageServerAssumption DEF DidChangeWatchedFiles, TypeOK, worker
<1>6. Carrying'
  BY <1>1, <1>3, Enqueued DEF DidChangeWatchedFiles, Carrying, TInv
<1> QED
  BY <1>5, <1>6 DEF TInv

\* The worker handles a message.
LEMMA TypeHandle ==
  ASSUME TInv, NEW m \in MsgType(RequestKinds), Carry(m), Handle(m)
  PROVE  /\ documents' \in [Docs -> DocType]
         /\ unit' \in [ProjectDocs -> Text \cup {None, Unbuilt}]
         /\ published' \in [Docs -> ReportType]
<1>1. /\ documents \in [Docs -> DocType] /\ published \in [Docs -> ReportType]
      /\ unit \in [ProjectDocs -> Text \cup {None, Unbuilt}] /\ m.doc \in Docs
      /\ disk \in [Docs -> Text \cup {None}] /\ TypeOK
  BY DEF TInv, TypeOK, MsgType
<1>2. CASE m.kind = "didOpen"
  <2>1. Fresh(m.text) \in DocType
    BY <1>2, DocumentTypes DEF Carry
  <2> QED
    BY <1>1, <1>2, <2>1 DEF Handle, Store
<1>3. CASE m.kind = "didSave"
  <2>1. Saved(m, documents[m.doc]) \in DocType
    BY <1>1, DocumentTypes
  <2> QED
    BY <1>1, <1>3, <2>1 DEF Handle, Store
<1>4. CASE m.kind = "didClose"
  BY <1>1, <1>4 DEF Handle, Store, DocType
<1>5. CASE m.kind = "watched"
  <2> DEFINE ds == [d \in Docs |-> IF d \in Present(documents)
                                   THEN Analyzed(d, documents[d]) ELSE NoDoc]
             u  == IF Present(documents) \cap ProjectDocs = {} THEN unit ELSE Built(unit)
             s  == [docs |-> ds, unit |-> u]
  <2>1. ds \in [Docs -> DocType]
    BY <1>1, DocumentTypes DEF Present, DocType
  <2>2. u \in [ProjectDocs -> Text \cup {None, Unbuilt}]
    BY <1>1, LanguageServerAssumption DEF Built
  <2>3. documents' = ds /\ unit' = u
    BY <1>5 DEF Handle
  <2>4. published' = [e \in Docs |->
          IF e \in Present(ds) /\ ~ds[e].root THEN OwnReport(ds[e])
          ELSE IF Present(ds) \cap ProjectDocs = {} THEN published[e]
          ELSE Publish(s, CHOOSE d \in Present(ds) \cap ProjectDocs : TRUE, published)[e]]
    BY <1>5 DEF Handle
  <2> HIDE DEF ds, u
  <2>5. \A e \in Present(ds) : OwnReport(ds[e]) \in ReportType
    BY <2>1 DEF Present, OwnReport, DocType, ReportType
  <2>6. Present(ds) \cap ProjectDocs # {} =>
          Publish(s, CHOOSE d \in Present(ds) \cap ProjectDocs : TRUE, published)
            \in [Docs -> ReportType]
    BY <1>1, <2>1, <2>2, PublishType DEF Present
  <2>7. published' \in [Docs -> ReportType]
    BY <1>1, <2>4, <2>5, <2>6
  <2> QED
    BY <2>1, <2>2, <2>3, <2>7
<1>6. CASE m.kind = "request"
  BY <1>1, <1>6 DEF Handle
<1> QED
  BY <1>2, <1>3, <1>4, <1>5, <1>6 DEF MsgType, RequestKinds

\* Whatever the worker handles leaves documents, unit and diagnostics well typed.
LEMMA TypeWorker == ASSUME TInv, Worker PROVE TInv'
<1>1. /\ TypeOK /\ requests \in Seq(MsgType(RequestKinds))
      /\ analysis \in Seq(MsgType(AnalysisKinds)) /\ documents \in [Docs -> DocType]
  BY DEF TInv, TypeOK
<1>2. CASE TakeRequest
  <2>1. /\ requests' = Tail(requests) /\ requests # <<>> /\ Handle(Head(requests))
        /\ UNCHANGED <<client, analysis, pending, job>> /\ pc' \in {"drain", "select", "job"}
    BY <1>1, <1>2 DEF TakeRequest, TypeOK
  <2>2. Head(requests) \in MsgType(RequestKinds) /\ Carry(Head(requests))
    BY <1>1, <2>1, Dequeued DEF TInv, Carrying
  <2>3. requests' \in Seq(MsgType(RequestKinds))
    BY <1>1, <2>1, Dequeued
  <2>4. TypeOK'
    BY <1>1, <2>1, <2>2, <2>3, TypeHandle DEF TypeOK, client
  <2>5. Carrying'
    BY <1>1, <2>1, Dequeued DEF Carrying, TInv
  <2> QED
    BY <2>4, <2>5 DEF TInv
<1>3. CASE Drained
  BY <1>3 DEF Drained, TInv, TypeOK, Carrying, client, queues
<1>4. CASE TakeUpdate
  <2> DEFINE m == Head(analysis)
  <2>1. /\ analysis' = Tail(analysis) /\ analysis # <<>> /\ m.kind = "UpdateSource"
        /\ documents' = [documents EXCEPT ![m.doc] = Updated(m)] /\ pc' = "drain"
        /\ UNCHANGED <<client, requests, pending, job, unit, published>>
    BY <1>4 DEF TakeUpdate, Store
  <2>2. m \in MsgType(AnalysisKinds) /\ Carry(m)
    BY <1>1, <2>1, Dequeued DEF TInv, Carrying
  <2>3. m.doc \in Docs /\ m.text \in Text
    BY <2>1, <2>2 DEF MsgType, Carry
  <2>4. Updated(m) \in DocType
    <3>1. CASE m.doc \in Present(documents)
      <4>1. documents[m.doc] \in DocType \ {NoDoc}
        BY <1>1, <3>1 DEF Present
      <4>2. [documents[m.doc] EXCEPT !.text = m.text, !.version = m.text] \in DocType
        BY <2>3, <4>1, AnyDocument, SomeDocument
      <4> QED
        BY <3>1, <4>2 DEF Updated
    <3>2. CASE m.doc \notin Present(documents)
      BY <2>3, <3>2, DocumentTypes DEF Updated
    <3> QED
      BY <3>1, <3>2
  <2>5. analysis' \in Seq(MsgType(AnalysisKinds))
    BY <1>1, <2>1, Dequeued
  <2>6. documents' \in [Docs -> DocType]
    BY <1>1, <2>1, <2>3, <2>4
  <2>7. TypeOK'
    BY <1>1, <2>1, <2>5, <2>6 DEF TypeOK, client
  <2>8. Carrying'
    BY <1>1, <2>1, Dequeued DEF Carrying, TInv
  <2> QED
    BY <2>7, <2>8 DEF TInv
<1>5. CASE TakeElaborate
  <2>1. /\ analysis' = Tail(analysis) /\ analysis # <<>> /\ job' = Head(analysis)
        /\ Head(analysis).kind = "Elaborate" /\ pc' = "job"
        /\ UNCHANGED <<client, requests, pending, documents, unit, published>>
    BY <1>5 DEF TakeElaborate
  <2>2. analysis' \in Seq(MsgType(AnalysisKinds)) /\ Head(analysis) \in MsgType(AnalysisKinds)
    BY <1>1, <2>1, Dequeued
  <2>3. job' \in MsgType({"Elaborate"})
    BY <2>1, <2>2 DEF MsgType
  <2>4. TypeOK'
    BY <1>1, <2>1, <2>2, <2>3 DEF TypeOK, client
  <2>5. Carrying'
    BY <1>1, <2>1, Dequeued DEF Carrying, TInv
  <2> QED
    BY <2>4, <2>5 DEF TInv
<1>6. CASE Elaborate
  <2> DEFINE d  == job.doc
             ds == AnalyzeDoc(Server, d).docs
             u  == AnalyzeDoc(Server, d).unit
  <2>1. /\ documents' = ds /\ unit' = u /\ published' = Publish(AnalyzeDoc(Server, d), d, published)
        /\ pc' = "drain" /\ job' = NoJob /\ UNCHANGED <<client, queues>>
    BY <1>6 DEF Elaborate
  <2>2. d \in Docs /\ AnyDoc \in Docs
    BY <1>1, LanguageServerAssumption DEF TypeOK, MsgType, AnyDoc
  <2>3. job' \in MsgType({"Elaborate"})
    BY <2>1, <2>2 DEF NoJob, Msg, MsgType
  <2>4. ds \in [Docs -> DocType]
    BY <1>1, <2>2, DocumentTypes DEF AnalyzeDoc, Server, Present
  <2>5. u \in [ProjectDocs -> Text \cup {None, Unbuilt}]
    BY <1>1, LanguageServerAssumption DEF AnalyzeDoc, Server, Built, TypeOK
  <2>6. AnalyzeDoc(Server, d) = [docs |-> ds, unit |-> u]
    BY DEF AnalyzeDoc
  <2> HIDE DEF ds, u
  <2>7. published' \in [Docs -> ReportType]
    BY <1>1, <2>1, <2>2, <2>4, <2>5, <2>6, PublishType
  <2>8. TypeOK'
    BY <1>1, <2>1, <2>3, <2>4, <2>5, <2>7 DEF TypeOK, client, queues
  <2> QED
    BY <2>1, <2>8 DEF TInv, Carrying, queues
<1> QED
  BY <1>2, <1>3, <1>4, <1>5, <1>6 DEF Worker

\* Every step keeps the types.
LEMMA TypeNext == TInv /\ [Next]_vars => TInv'
<1>1. ASSUME TInv, UNCHANGED vars PROVE TInv'
  BY <1>1 DEF TInv, TypeOK, Carrying, vars
<1> QED
  BY <1>1, TypeEditor, TypeAnalysis, TypeWatched, TypeWorker DEF Next, Client

\* Queues, documents, the project unit and the published diagnostics keep their
\* types, for every number of documents and edits.
THEOREM TypeCorrect == Spec => []TypeOK
<1>1. TInv => TypeOK
  BY DEF TInv
<1> QED
  BY <1>1, TypeInit, TypeNext, PTL DEF Spec
-------------------------------------------------------------------------------
(* What the openings and closings on the request queue say about a document when *)
(* the message at i comes up.                                                     *)

Word(d, m) == m.doc = d /\ m.kind \in {"didOpen", "didClose"}

Silent(d, i) == \A h \in 1..(i - 1) : ~Word(d, requests[h])
Last(d, i, k) == \E j \in 1..(i - 1) :
                   /\ requests[j].doc = d /\ requests[j].kind = k
                   /\ \A h \in (j + 1)..(i - 1) : ~Word(d, requests[h])
Held(d, i) == Last(d, i, "didOpen") \/ (Silent(d, i) /\ d \in Present(documents))
Gone(d, i) == Last(d, i, "didClose") \/ (Silent(d, i) /\ d \notin Present(documents))

End == Len(requests) + 1

\* Requests, and documents the editor has open, come with the document.
HInv == /\ \A i \in 1..Len(requests) :
             requests[i].kind = "request" => Held(requests[i].doc, i)
        /\ \A d \in open : Held(d, End)

\* What is proved by induction is what the property says.
LEMMA HeldIsHeldAt == ASSUME NEW d, NEW i \in Nat, Held(d, i) PROVE HeldAt(d, i)
<1>1. CASE Silent(d, i) /\ d \in Present(documents)
  BY <1>1 DEF Silent, Word, HeldAt, LastWord
<1>2. CASE Last(d, i, "didOpen")
  <2>1. PICK j \in 1..(i - 1) :
               /\ requests[j].doc = d /\ requests[j].kind = "didOpen"
               /\ \A h \in (j + 1)..(i - 1) : ~Word(d, requests[h])
    BY <1>2 DEF Last
  <2>2. j \in LastWord(d, i)
    BY <2>1 DEF LastWord
  <2>3. \A k \in LastWord(d, i) : k <= j
    BY <2>1 DEF LastWord, Word
  <2> QED
    BY <2>1, <2>2, <2>3 DEF HeldAt
<1> QED
  BY <1>1, <1>2 DEF Held

\* A message more at the end: nothing changes for those before it.
LEMMA AppendShape ==
  ASSUME requests \in Seq(MsgType(RequestKinds)), NEW m \in MsgType(RequestKinds),
         requests' = Append(requests, m)
  PROVE  /\ Len(requests) \in Nat /\ End = Len(requests) + 1 /\ End' = End + 1
         /\ \A i \in 1..Len(requests) : requests'[i] = requests[i]
         /\ requests'[End] = m
<1>1. /\ Len(requests) \in Nat /\ Len(requests') = Len(requests) + 1
      /\ \A i \in 1..Len(requests) : requests'[i] = requests[i]
      /\ requests'[Len(requests) + 1] = m
  BY Enqueued
<1> QED
  BY <1>1 DEF End

\* A message that joins the queue changes nothing for those before it.
LEMMA AppendBefore ==
  ASSUME requests \in Seq(MsgType(RequestKinds)), NEW m \in MsgType(RequestKinds),
         requests' = Append(requests, m), UNCHANGED documents, NEW d, NEW i \in 1..End
  PROVE  Held(d, i) <=> Held(d, i)'
<1>1. /\ i \in Nat
      /\ \A h \in 1..(i - 1) : requests'[h] = requests[h]
      /\ \A j \in 1..(i - 1) : \A h \in (j + 1)..(i - 1) : h \in 1..(i - 1)
  BY AppendShape
<1>2. Silent(d, i) <=> Silent(d, i)'
  BY <1>1 DEF Silent
<1>3. Last(d, i, "didOpen") <=> Last(d, i, "didOpen")'
  BY <1>1 DEF Last
<1> QED
  BY <1>2, <1>3 DEF Held

\* At the end an opening or a closing is the last word, anything else none.
LEMMA AppendEnd ==
  ASSUME requests \in Seq(MsgType(RequestKinds)), NEW m \in MsgType(RequestKinds),
         requests' = Append(requests, m), UNCHANGED documents, NEW d
  PROVE  /\ Held(d, End) /\ ~Word(d, m) => Held(d, End)'
         /\ Gone(d, End) /\ ~Word(d, m) => Gone(d, End)'
         /\ m.doc = d /\ m.kind = "didOpen" => Held(d, End)'
         /\ m.doc = d /\ m.kind = "didClose" => Gone(d, End)'
<1>1. /\ Len(requests) \in Nat /\ End = Len(requests) + 1 /\ End' = End + 1
      /\ \A i \in 1..(End - 1) : requests'[i] = requests[i]
      /\ requests'[End] = m
  BY AppendShape
<1>2. ASSUME ~Word(d, m)
      PROVE  /\ Silent(d, End) => Silent(d, End)'
             /\ \A k : Last(d, End, k) => Last(d, End, k)'
  <2>1. Silent(d, End) => Silent(d, End)'
    BY <1>1, <1>2 DEF Silent
  <2>2. ASSUME NEW k, Last(d, End, k) PROVE Last(d, End, k)'
    <3>1. PICK j \in 1..(End - 1) :
                 /\ requests[j].doc = d /\ requests[j].kind = k
                 /\ \A h \in (j + 1)..(End - 1) : ~Word(d, requests[h])
      BY <2>2 DEF Last
    <3>2. \A h \in (j + 1)..(End' - 1) : ~Word(d, requests'[h])
      BY <1>1, <1>2, <3>1
    <3>3. j \in 1..(End' - 1) /\ requests'[j].doc = d /\ requests'[j].kind = k
      BY <1>1, <3>1
    <3> QED
      BY <3>2, <3>3 DEF Last
  <2> QED
    BY <2>1, <2>2
<1>3. m.doc = d => \A k : m.kind = k => Last(d, End, k)'
  <2>1. End \in 1..(End' - 1) /\ (End + 1)..(End' - 1) = {}
    BY <1>1
  <2> QED
    BY <1>1, <2>1 DEF Last
<1> QED
  BY <1>2, <1>3 DEF Held, Gone

\* The first message is taken: it is the last word on those nothing else is said of.
LEMMA TailKeeps ==
  ASSUME requests \in Seq(MsgType(RequestKinds)), requests # <<>>,
         requests' = Tail(requests), NEW d, NEW i \in 1..Len(requests)
  PROVE  /\ Silent(d, i + 1) => Silent(d, i)' /\ ~Word(d, Head(requests))
         /\ \A k \in {"didOpen", "didClose"} :
              Last(d, i + 1, k) => \/ Last(d, i, k)'
                                   \/ /\ Silent(d, i)'
                                      /\ Head(requests).doc = d /\ Head(requests).kind = k
<1>1. /\ Head(requests) = requests[1] /\ Len(requests') = Len(requests) - 1
      /\ Len(requests) \in Nat \ {0}
      /\ \A h \in 1..(Len(requests) - 1) : requests'[h] = requests[h + 1]
  BY Dequeued
<1>2. Silent(d, i + 1) => Silent(d, i)' /\ ~Word(d, Head(requests))
  BY <1>1 DEF Silent
<1>3. ASSUME NEW k \in {"didOpen", "didClose"}, Last(d, i + 1, k)
      PROVE  \/ Last(d, i, k)'
             \/ Silent(d, i)' /\ Head(requests).doc = d /\ Head(requests).kind = k
  <2>1. PICK j \in 1..i :
               /\ requests[j].doc = d /\ requests[j].kind = k
               /\ \A h \in (j + 1)..i : ~Word(d, requests[h])
    BY <1>3 DEF Last
  <2>2. \A h \in j..(i - 1) : ~Word(d, requests'[h])
    BY <1>1, <2>1
  <2>3. CASE j = 1
    BY <1>1, <2>1, <2>2, <2>3 DEF Silent
  <2>4. CASE j > 1
    <3>1. j - 1 \in 1..(i - 1) /\ requests'[j - 1] = requests[j]
      BY <1>1, <2>1, <2>4
    <3>2. \A h \in ((j - 1) + 1)..(i - 1) : ~Word(d, requests'[h])
      BY <2>2
    <3> QED
      BY <2>1, <3>1, <3>2 DEF Last
  <2> QED
    BY <2>1, <2>3, <2>4
<1> QED
  BY <1>2, <1>3

\* Who has a document after a message is handled.
LEMMA HandlePresence ==
  ASSUME TInv, NEW m \in MsgType(RequestKinds), Carry(m), Handle(m), NEW d \in Docs
  PROVE  /\ m.doc = d /\ m.kind = "didOpen"  => d \in Present(documents')
         /\ m.doc = d /\ m.kind = "didClose" => d \notin Present(documents')
         /\ ~Word(d, m) => (d \in Present(documents') <=> d \in Present(documents))
<1>1. documents \in [Docs -> DocType] /\ m.doc \in Docs
  BY DEF TInv, TypeOK, MsgType
<1>2. CASE m.kind = "didOpen"
  <2>1. Fresh(m.text) # NoDoc
    BY <1>2, DocumentTypes DEF Carry
  <2> QED
    BY <1>1, <1>2, <2>1 DEF Handle, Store, Present, Word
<1>3. CASE m.kind = "didSave"
  <2>1. Saved(m, documents[m.doc]) # NoDoc <=> documents[m.doc] # NoDoc
    BY <1>1, DocumentTypes DEF Saved
  <2> QED
    BY <1>1, <1>3, <2>1 DEF Handle, Store, Present, Word
<1>4. CASE m.kind = "didClose"
  BY <1>1, <1>4 DEF Handle, Store, Present, Word
<1>5. CASE m.kind = "watched"
  <2>1. documents' = [e \in Docs |-> IF e \in Present(documents)
                                     THEN Analyzed(e, documents[e]) ELSE NoDoc]
    BY <1>5 DEF Handle
  <2>2. d \in Present(documents) => Analyzed(d, documents[d]) # NoDoc
    BY <1>1, DocumentTypes DEF Present
  <2>3. d \in Present(documents') <=> d \in Present(documents)
    BY <2>1, <2>2 DEF Present
  <2> QED
    BY <1>5, <2>3
<1>6. CASE m.kind = "request"
  BY <1>6 DEF Handle
<1> QED
  BY <1>2, <1>3, <1>4, <1>5, <1>6 DEF MsgType, RequestKinds

\* So what the queue says holds when its first message has been handled.
LEMMA TakeKeeps ==
  ASSUME TInv, TakeRequest, NEW d \in Docs, NEW i \in 1..Len(requests)
  PROVE  (Held(d, i + 1) => Held(d, i)') /\ (Gone(d, i + 1) => Gone(d, i)')
<1>1. /\ requests \in Seq(MsgType(RequestKinds)) /\ requests # <<>>
      /\ requests' = Tail(requests) /\ Handle(Head(requests))
  BY DEF TInv, TypeOK, TakeRequest
<1>2. Head(requests) \in MsgType(RequestKinds) /\ Carry(Head(requests))
  BY <1>1, Dequeued DEF TInv, Carrying
<1> DEFINE m == Head(requests)
<1>3. /\ m.doc = d /\ m.kind = "didOpen"  => d \in Present(documents')
      /\ m.doc = d /\ m.kind = "didClose" => d \notin Present(documents')
      /\ ~Word(d, m) => (d \in Present(documents') <=> d \in Present(documents))
  BY <1>1, <1>2, HandlePresence
<1>4. /\ Silent(d, i + 1) => Silent(d, i)' /\ ~Word(d, m)
      /\ \A k \in {"didOpen", "didClose"} :
           Last(d, i + 1, k) => Last(d, i, k)' \/ (Silent(d, i)' /\ m.doc = d /\ m.kind = k)
  BY <1>1, TailKeeps
<1> QED
  BY <1>3, <1>4 DEF Held, Gone

\* The steps of the worker on the analysis queue take no document away.
LEMMA AnalysisPresence ==
  ASSUME TInv, Drained \/ TakeUpdate \/ TakeElaborate \/ Elaborate
  PROVE  /\ Present(documents) \subseteq Present(documents') /\ requests' = requests
         /\ \A d \in Present(documents') \ Present(documents) :
              TakeUpdate /\ d = Head(analysis).doc
<1>1. documents \in [Docs -> DocType] /\ analysis \in Seq(MsgType(AnalysisKinds))
  BY DEF TInv, TypeOK
<1>2. CASE Drained \/ TakeElaborate
  BY <1>2 DEF Drained, TakeElaborate, queues
<1>3. CASE TakeUpdate
  <2> DEFINE m == Head(analysis)
  <2>1. /\ requests' = requests /\ documents' = [documents EXCEPT ![m.doc] = Updated(m)]
        /\ analysis # <<>> /\ m.kind = "UpdateSource"
    BY <1>3 DEF TakeUpdate, Store
  <2>2. m.doc \in Docs /\ m.text \in Text
    <3>1. m \in MsgType(AnalysisKinds) /\ Carry(m)
      BY <1>1, <2>1, Dequeued DEF TInv, Carrying
    <3> QED
      BY <2>1, <3>1 DEF Carry, MsgType
  <2>3. Updated(m) # NoDoc
    <3>1. CASE m.doc \in Present(documents)
      <4>1. documents[m.doc] \in DocType \ {NoDoc}
        BY <1>1, <3>1 DEF Present
      <4>2. [documents[m.doc] EXCEPT !.text = m.text, !.version = m.text] # NoDoc
        BY <2>2, <4>1, AnyDocument, SomeDocument
      <4> QED
        BY <3>1, <4>2 DEF Updated
    <3>2. CASE m.doc \notin Present(documents)
      BY <2>2, <3>2, DocumentTypes DEF Updated
    <3> QED
      BY <3>1, <3>2
  <2> QED
    BY <1>1, <1>3, <2>1, <2>2, <2>3 DEF Present
<1>4. CASE Elaborate
  <2>1. /\ UNCHANGED queues
        /\ documents' = IF job.doc \in Present(documents)
                        THEN [documents EXCEPT ![job.doc] = Analyzed(job.doc, @)]
                        ELSE documents
    BY <1>4 DEF Elaborate, AnalyzeDoc, Server
  <2>2. job.doc \in Present(documents) => Analyzed(job.doc, documents[job.doc]) # NoDoc
    BY <1>1, DocumentTypes DEF Present
  <2> QED
    BY <1>1, <2>1, <2>2 DEF Present, queues
<1> QED
  BY <1>2, <1>3, <1>4

\* Every step keeps the documents that requests wait for.
LEMMA HInvNext == TInv /\ HInv /\ [Next]_vars => HInv'
<1> SUFFICES ASSUME TInv, HInv, [Next]_vars PROVE HInv'
  OBVIOUS
<1>1. requests \in Seq(MsgType(RequestKinds)) /\ open \subseteq Docs
  BY DEF TInv, TypeOK
<1>2. ASSUME NEW m \in MsgType(RequestKinds), requests' = Append(requests, m),
             UNCHANGED documents, m.kind = "request" => m.doc \in open,
             \A d \in open' : (d \in open /\ ~Word(d, m)) \/ (m.doc = d /\ m.kind = "didOpen")
      PROVE  HInv'
  <2>1. ASSUME NEW i \in 1..Len(requests'), requests'[i].kind = "request"
        PROVE  Held(requests[i].doc, i)'
    <3>1. /\ Len(requests) \in Nat /\ End = Len(requests) + 1 /\ i \in 1..End
          /\ \A h \in 1..Len(requests) : requests'[h] = requests[h]
          /\ requests'[End] = m
      BY <1>1, <1>2, <2>1, AppendShape DEF End
    <3>2. Held(requests'[i].doc, i)
      BY <1>2, <2>1, <3>1 DEF HInv
    <3>3. PICK d : d = requests'[i].doc
      OBVIOUS
    <3>4. Held(d, i)'
      BY <1>1, <1>2, <3>1, <3>2, <3>3, AppendBefore
    <3> QED
      BY <3>3, <3>4
  <2>2. ASSUME NEW d \in open' PROVE Held(d, End)'
    BY <1>1, <1>2, AppendEnd DEF HInv
  <2> QED
    BY <2>1, <2>2 DEF HInv
<1>3. ASSUME NEW d \in Docs, DidOpen(d) \/ DidSave(d) \/ DidClose(d) \/ SendRequest(d)
      PROVE  HInv'
  <2>1. text[d] \in Nat
    BY DEF TInv, TypeOK
  <2>2. UNCHANGED documents
    BY <1>3 DEF DidOpen, DidSave, DidClose, SendRequest, worker
  <2>3. PICK m \in MsgType(RequestKinds) :
              /\ requests' = Append(requests, m) /\ m.doc = d
              /\ m.kind = "request" => d \in open
              /\ DidOpen(d) => m.kind = "didOpen" /\ open' = open \cup {d}
              /\ ~DidOpen(d) => open' \subseteq open
              /\ m.kind = "didClose" => open' = open \ {d}
              /\ m.kind = "didOpen" => DidOpen(d)
    BY <1>3, <2>1 DEF DidOpen, DidSave, DidClose, SendRequest, Enqueue, Msg, MsgType, RequestKinds
  <2>4. \A e \in open' : (e \in open /\ ~Word(e, m)) \/ (m.doc = e /\ m.kind = "didOpen")
    BY <2>3 DEF Word
  <2> QED
    BY <1>2, <2>2, <2>3, <2>4
<1>4. CASE DidChangeWatchedFiles
  <2>1. Msg("watched", AnyDoc, None) \in MsgType(RequestKinds)
    BY LanguageServerAssumption DEF AnyDoc, Msg, MsgType, RequestKinds
  <2>2. ~\E d : Word(d, Msg("watched", AnyDoc, None))
    BY DEF Word, Msg
  <2> QED
    BY <1>2, <1>4, <2>1, <2>2 DEF DidChangeWatchedFiles, Enqueue, Msg, worker
<1>5. ASSUME UNCHANGED <<open, requests>>, Present(documents) \subseteq Present(documents')
      PROVE  HInv'
  BY <1>5 DEF HInv, Held, Silent, Last, End
<1>6. CASE (\E d \in Docs : DidChange(d) \/ TimerFires(d)) \/ UNCHANGED vars
  <2>1. UNCHANGED <<open, requests, documents>>
    BY <1>6 DEF DidChange, TimerFires, vars, client, worker
  <2> QED
    BY <1>5, <2>1
<1>7. CASE Drained \/ TakeUpdate \/ TakeElaborate \/ Elaborate
  <2>1. UNCHANGED open
    BY <1>7 DEF Drained, TakeUpdate, TakeElaborate, Elaborate, client
  <2> QED
    BY <1>5, <1>7, <2>1, AnalysisPresence
<1>8. CASE TakeRequest
  <2>1. /\ requests # <<>> /\ requests' = Tail(requests) /\ UNCHANGED open
    BY <1>8 DEF TakeRequest, client
  <2>2. /\ Len(requests) \in Nat \ {0} /\ Len(requests') = Len(requests) - 1
        /\ \A i \in 1..Len(requests') : requests'[i] = requests[i + 1]
        /\ End = Len(requests) + 1 /\ End' = Len(requests)
    BY <1>1, <2>1, Dequeued DEF End
  <2>3. ASSUME NEW i \in 1..Len(requests'), requests'[i].kind = "request"
        PROVE  Held(requests[i].doc, i)'
    <3>1. i + 1 \in 1..Len(requests) /\ i \in 1..Len(requests)
      BY <2>2
    <3>2. Held(requests[i + 1].doc, i + 1) /\ requests[i + 1].doc \in Docs
      <4>1. requests[i + 1] \in MsgType(RequestKinds)
        BY <1>1, <3>1, ElementOfSeq
      <4>2. requests[i + 1].doc \in Docs
        BY <4>1 DEF MsgType
      <4> QED
        BY <2>2, <2>3, <3>1, <4>2 DEF HInv
    <3> QED
      BY <1>8, <2>2, <3>1, <3>2, TakeKeeps
  <2>4. ASSUME NEW d \in open' PROVE Held(d, End)'
    BY <1>1, <1>8, <2>1, <2>2, TakeKeeps DEF HInv
  <2> QED
    BY <2>3, <2>4 DEF HInv
<1> QED
  BY <1>3, <1>4, <1>6, <1>7, <1>8 DEF Next, Client, Worker

\* handle_notification and handle_request: when a request for an open document comes
\* up, the worker holds that document, whatever else was queued.
THEOREM RequestsAreAnswered == Spec => []RequestsFindDocument
<1>1. Init => HInv
  <2> SUFFICES ASSUME Init PROVE HInv
    OBVIOUS
  <2>1. requests = <<>> /\ Len(requests) = 0 /\ open = {}
    BY EmptySeq DEF Init
  <2> QED
    BY <2>1 DEF HInv
<1>2. TInv /\ HInv => RequestsFindDocument
  <2>1. TInv => Len(requests) \in Nat
    BY LenProperties DEF TInv, TypeOK
  <2> QED
    BY <2>1, HeldIsHeldAt DEF HInv, RequestsFindDocument
<1> QED
  BY <1>1, <1>2, TypeInit, TypeNext, HInvNext, PTL DEF Spec
-------------------------------------------------------------------------------
(* The texts of a document are used in order: the one the editor last saw         *)
(* diagnostics of, the one the worker has, those on their way to it, the editor's. *)

Update(d, m)  == m.kind = "UpdateSource" /\ m.doc = d
Opening(d, m) == m.kind = "didOpen" /\ m.doc = d

InOrder(d) ==
  /\ published[d].version <= text[d] /\ documents[d].version <= text[d]
  /\ \A i \in 1..Len(requests) : Opening(d, requests[i]) => requests[i].text <= text[d]
  /\ \A i \in 1..Len(analysis) : Update(d, analysis[i]) =>
       /\ published[d].version < analysis[i].text /\ documents[d].version < analysis[i].text
       /\ analysis[i].text <= text[d]
       /\ \A j \in 1..(i - 1) : Update(d, analysis[j]) => analysis[j].text < analysis[i].text
       /\ \A j \in 1..Len(requests) :
            Opening(d, requests[j]) => requests[j].text < analysis[i].text

\* A document the editor closed has no text on its way and is on its way out.
Closing(d) ==
  d \notin open => /\ \A i \in 1..Len(analysis) : ~Update(d, analysis[i])
                   /\ Gone(d, End)

GInv == \A d \in Docs : InOrder(d) /\ Closing(d)

\* The types the arguments below need of the numbers they compare.
LEMMA Numbers ==
  ASSUME TInv, NEW d \in Docs
  PROVE  /\ text[d] \in Nat /\ published[d].version \in Nat \cup {None}
         /\ documents[d].version \in Nat \cup {None}
         /\ Len(requests) \in Nat /\ Len(analysis) \in Nat
         /\ \A i \in 1..Len(requests) : Opening(d, requests[i]) => requests[i].text \in Nat
         /\ \A i \in 1..Len(analysis) : Update(d, analysis[i]) => analysis[i].text \in Nat
<1>1. /\ requests \in Seq(MsgType(RequestKinds)) /\ analysis \in Seq(MsgType(AnalysisKinds))
      /\ text[d] \in Nat /\ published[d] \in ReportType /\ documents[d] \in DocType
  BY DEF TInv, TypeOK
<1>2. documents[d].version \in Nat \cup {None}
  <2>1. CASE documents[d] = NoDoc
    BY <2>1 DEF NoDoc
  <2>2. CASE documents[d] # NoDoc
    BY <1>1, <2>2, AnyDocument
  <2> QED
    BY <2>1, <2>2
<1>3. Len(requests) \in Nat /\ Len(analysis) \in Nat
  BY <1>1, LenProperties
<1>4. published[d].version \in Nat \cup {None}
  BY <1>1 DEF ReportType
<1> QED
  BY <1>1, <1>2, <1>3, <1>4 DEF Opening, Update, TInv, Carrying, Carry

\* An analysis changes no version, and what is published is a version the editor
\* had before, none, or the document's.
LEMMA AnalyzedVersion ==
  ASSUME NEW d \in Docs, NEW doc \in DocType \ {NoDoc}
  PROVE  Analyzed(d, doc).version = doc.version
BY AnyDocument DEF Analyzed

\* A publication reports what was reported before, a file, or the document held.
LEMMA PublishVersion ==
  ASSUME NEW s, NEW d \in Docs, NEW p \in [Docs -> ReportType], NEW e \in Docs
  PROVE  Publish(s, d, p)[e].version \in {p[e].version, None, s.docs[e].version}
BY DEF Publish, OwnReport, FileReport

\* What a step of the worker does to the versions held and published.
LEMMA VersionsGoOn ==
  ASSUME TInv, Worker, NEW d \in Docs
  PROVE  /\ published'[d].version \in {published[d].version, None, documents'[d].version}
         /\ ~TakeUpdate =>
              \/ documents'[d].version \in {None, documents[d].version}
              \/ TakeRequest /\ Opening(d, Head(requests))
                 /\ documents'[d].version = Head(requests).text
<1>1. /\ documents \in [Docs -> DocType] /\ published \in [Docs -> ReportType]
      /\ requests \in Seq(MsgType(RequestKinds)) /\ job.doc \in Docs
  BY DEF TInv, TypeOK, MsgType
<1>2. CASE Drained \/ TakeUpdate \/ TakeElaborate
  BY <1>2 DEF Drained, TakeUpdate, TakeElaborate
<1>3. CASE Elaborate
  <2>1. /\ documents' = AnalyzeDoc(Server, job.doc).docs
        /\ published' = Publish(AnalyzeDoc(Server, job.doc), job.doc, published)
    BY <1>3 DEF Elaborate
  <2>2. documents'[d].version = documents[d].version
    <3>1. documents[d] # NoDoc => Analyzed(d, documents[d]).version = documents[d].version
      BY <1>1, AnalyzedVersion
    <3> QED
      BY <1>1, <2>1, <3>1 DEF AnalyzeDoc, Server, Present
  <2> QED
    BY <1>1, <2>1, <2>2, PublishVersion
<1>4. CASE TakeRequest
  <2> DEFINE m == Head(requests)
  <2>1. m \in MsgType(RequestKinds) /\ Handle(m)
    BY <1>1, <1>4, Dequeued DEF TakeRequest
  <2>2. CASE m.kind \in {"didOpen", "didSave", "didClose", "request"}
    <3>1. published' = published
      BY <2>1, <2>2 DEF Handle
    <3>2. m.kind = "didSave" => documents'[d].version = documents[d].version
      <4>1. documents[m.doc] # NoDoc =>
              Saved(m, documents[m.doc]).version = documents[m.doc].version
        BY <1>1, <2>1, AnyDocument DEF Saved, MsgType
      <4>2. Saved(m, NoDoc) = NoDoc
        BY DEF Saved
      <4> QED
        BY <1>1, <2>1, <4>1, <4>2 DEF Handle, Store, MsgType
    <3>3. m.kind = "didClose" => documents'[d].version \in {None, documents[d].version}
      BY <1>1, <2>1 DEF Handle, Store, NoDoc
    <3>4. m.kind = "didOpen" => \/ documents'[d].version = documents[d].version
                                \/ m.doc = d /\ documents'[d].version = m.text
      BY <1>1, <2>1 DEF Handle, Store, Fresh, NoDoc
    <3>5. m.kind = "request" => documents' = documents
      BY <2>1 DEF Handle
    <3> QED
      BY <1>4, <2>2, <3>1, <3>2, <3>3, <3>4, <3>5 DEF Opening
  <2>3. CASE m.kind = "watched"
    <3> DEFINE ds == [e \in Docs |-> IF e \in Present(documents)
                                     THEN Analyzed(e, documents[e]) ELSE NoDoc]
               s  == [docs |-> ds, unit |-> IF Present(documents) \cap ProjectDocs = {}
                                            THEN unit ELSE Built(unit)]
               a  == CHOOSE e \in Present(ds) \cap ProjectDocs : TRUE
    <3>1. /\ documents' = ds
          /\ published' = [e \in Docs |->
               IF e \in Present(ds) /\ ~ds[e].root THEN OwnReport(ds[e])
               ELSE IF Present(ds) \cap ProjectDocs = {} THEN published[e]
               ELSE Publish(s, a, published)[e]]
      BY <2>1, <2>3 DEF Handle
    <3>2. s.docs = ds
      OBVIOUS
    <3>3. documents[d] # NoDoc => Analyzed(d, documents[d]).version = documents[d].version
      BY <1>1, AnalyzedVersion
    <3>4. documents'[d].version \in {None, documents[d].version}
      BY <1>1, <3>1, <3>3 DEF Present, NoDoc
    <3> HIDE DEF ds, s
    <3>5. Present(ds) \cap ProjectDocs # {} => a \in Docs
      BY DEF Present
    <3> HIDE DEF a
    <3>6. published'[d].version \in {published[d].version, None, ds[d].version}
      BY <1>1, <3>1, <3>2, <3>5, PublishVersion DEF OwnReport
    <3> QED
      BY <3>1, <3>4, <3>6
  <2> QED
    BY <2>1, <2>2, <2>3 DEF MsgType, RequestKinds
<1> QED
  BY <1>2, <1>3, <1>4 DEF Worker

\* The editor sends a message on the request queue.
LEMMA OrderSend ==
  ASSUME TInv, GInv, NEW m \in MsgType(RequestKinds), requests' = Append(requests, m),
         UNCHANGED <<analysis, documents, published>>, text' \in [Docs -> Nat],
         \A d \in Docs : text'[d] >= text[d],
         \A d \in Docs : Opening(d, m) => d \notin open /\ d \in open' /\ m.text = text'[d],
         \A d \in Docs \ open' : \/ d \notin open /\ ~Word(d, m)
                                 \/ /\ m.doc = d /\ m.kind = "didClose"
                                    /\ published[d].version = text[d]
  PROVE  GInv'
<1> SUFFICES ASSUME NEW d \in Docs PROVE InOrder(d)' /\ Closing(d)'
  BY DEF GInv
<1>1. requests \in Seq(MsgType(RequestKinds)) /\ InOrder(d) /\ Closing(d)
  BY DEF TInv, TypeOK, GInv
<1>2. /\ Len(requests') = Len(requests) + 1
      /\ \A i \in 1..Len(requests) : requests'[i] = requests[i]
      /\ requests'[Len(requests) + 1] = m
  BY <1>1, Enqueued
<1>3. /\ text[d] \in Nat /\ text'[d] \in Nat /\ text'[d] >= text[d]
      /\ published[d].version \in Nat \cup {None} /\ documents[d].version \in Nat \cup {None}
      /\ Len(requests) \in Nat /\ Len(analysis) \in Nat
      /\ \A i \in 1..Len(requests) : Opening(d, requests[i]) => requests[i].text \in Nat
      /\ \A i \in 1..Len(analysis) : Update(d, analysis[i]) => analysis[i].text \in Nat
  BY Numbers
<1>4. published[d].version <= text'[d] /\ documents[d].version <= text'[d]
  BY <1>1, <1>3 DEF InOrder
<1>5. \A i \in 1..Len(requests') : Opening(d, requests'[i]) => requests'[i].text <= text'[d]
  <2> SUFFICES ASSUME NEW i \in 1..Len(requests'), Opening(d, requests'[i])
               PROVE  requests'[i].text <= text'[d]
    OBVIOUS
  <2>1. CASE i \in 1..Len(requests)
    <3>1. requests[i].text <= text[d] /\ requests[i].text \in Nat /\ requests'[i] = requests[i]
      BY <1>1, <1>2, <1>3, <2>1 DEF InOrder
    <3> QED
      BY <1>3, <3>1
  <2>2. CASE i = Len(requests) + 1
    BY <1>2, <1>3, <2>2
  <2> QED
    BY <1>2, <1>3, <2>1, <2>2
<1>6. ASSUME NEW i \in 1..Len(analysis), Update(d, analysis[i])
      PROVE  /\ published[d].version < analysis[i].text /\ documents[d].version < analysis[i].text
             /\ analysis[i].text <= text'[d]
             /\ \A j \in 1..(i - 1) : Update(d, analysis[j]) => analysis[j].text < analysis[i].text
             /\ \A j \in 1..Len(requests') :
                  Opening(d, requests'[j]) => requests'[j].text < analysis[i].text
  <2>1. d \in open
    BY <1>1, <1>6 DEF Closing
  <2>2. ~Opening(d, m)
    BY <2>1
  <2>3. analysis[i].text \in Nat
    BY <1>3, <1>6
  <2>4. /\ published[d].version < analysis[i].text /\ documents[d].version < analysis[i].text
        /\ analysis[i].text <= text[d]
        /\ \A j \in 1..(i - 1) : Update(d, analysis[j]) => analysis[j].text < analysis[i].text
        /\ \A j \in 1..Len(requests) :
             Opening(d, requests[j]) => requests[j].text < analysis[i].text
    BY <1>1, <1>6 DEF InOrder
  <2>5. \A j \in 1..Len(requests') :
          Opening(d, requests'[j]) => requests'[j].text < analysis[i].text
    BY <1>2, <1>3, <2>2, <2>4
  <2> QED
    BY <1>3, <2>3, <2>4, <2>5
<1>7. InOrder(d)'
  BY <1>4, <1>5, <1>6 DEF InOrder
<1>8. ASSUME d \notin open'
      PROVE  (\A i \in 1..Len(analysis) : ~Update(d, analysis[i])) /\ Gone(d, End)'
  <2>1. CASE d \notin open /\ ~Word(d, m)
    BY <1>1, <2>1, AppendEnd DEF Closing
  <2>2. CASE /\ m.doc = d /\ m.kind = "didClose"
             /\ published[d].version = text[d]
    <3>1. \A i \in 1..Len(analysis) : ~Update(d, analysis[i])
      BY <1>1, <1>3, <2>2 DEF InOrder
    <3> QED
      BY <1>1, <2>2, <3>1, AppendEnd
  <2> QED
    BY <1>8, <2>1, <2>2
<1>9. Closing(d)'
  BY <1>8 DEF Closing
<1> QED
  BY <1>7, <1>9

\* It sends a text, or a deadline passes.
LEMMA OrderAnalysis ==
  ASSUME TInv, GInv, NEW e \in Docs, DidChange(e) \/ TimerFires(e)
  PROVE  GInv'
<1> SUFFICES ASSUME NEW d \in Docs PROVE InOrder(d)' /\ Closing(d)'
  BY DEF GInv
<1>1. /\ analysis \in Seq(MsgType(AnalysisKinds)) /\ text \in [Docs -> Nat]
      /\ InOrder(d) /\ Closing(d)
  BY DEF TInv, TypeOK, GInv
<1>2. UNCHANGED <<open, requests, documents, published>>
  BY DEF DidChange, TimerFires, client, worker
<1>3. PICK m \in MsgType(AnalysisKinds) :
             /\ analysis' = Append(analysis, m) /\ m.doc = e
             /\ \/ m.kind = "Elaborate" /\ text' = text
                \/ /\ m.kind = "UpdateSource" /\ e \in open
                   /\ text' = [text EXCEPT ![e] = @ + 1] /\ m.text = text'[e]
  BY <1>1 DEF DidChange, TimerFires, Msg, MsgType, AnalysisKinds, client
<1>4. /\ Len(analysis) \in Nat /\ Len(analysis') = Len(analysis) + 1
      /\ \A i \in 1..Len(analysis) : analysis'[i] = analysis[i]
      /\ analysis'[Len(analysis) + 1] = m
  BY <1>1, <1>3, Enqueued
<1>5. /\ text[d] \in Nat /\ text'[d] \in Nat /\ text'[d] >= text[d]
      /\ Update(d, m) => d = e /\ d \in open /\ text'[d] = text[d] + 1 /\ m.text = text'[d]
  BY <1>1, <1>3 DEF Update
<1>6. /\ published[d].version \in Nat \cup {None} /\ documents[d].version \in Nat \cup {None}
      /\ Len(requests) \in Nat
      /\ \A i \in 1..Len(requests) : Opening(d, requests[i]) => requests[i].text \in Nat
      /\ \A i \in 1..Len(analysis) : Update(d, analysis[i]) => analysis[i].text \in Nat
  BY Numbers
<1>7. /\ published[d].version <= text'[d] /\ documents[d].version <= text'[d]
      /\ \A i \in 1..Len(requests) : Opening(d, requests[i]) => requests[i].text <= text'[d]
  BY <1>1, <1>5, <1>6 DEF InOrder
<1>8. ASSUME NEW i \in 1..Len(analysis'), Update(d, analysis'[i])
      PROVE  /\ published[d].version < analysis'[i].text
             /\ documents[d].version < analysis'[i].text
             /\ analysis'[i].text <= text'[d]
             /\ \A j \in 1..(i - 1) :
                  Update(d, analysis'[j]) => analysis'[j].text < analysis'[i].text
             /\ \A j \in 1..Len(requests) :
                  Opening(d, requests[j]) => requests[j].text < analysis'[i].text
  <2>1. CASE i \in 1..Len(analysis)
    <3>1. /\ analysis'[i] = analysis[i] /\ analysis[i].text \in Nat
          /\ \A j \in 1..(i - 1) : analysis'[j] = analysis[j]
      BY <1>4, <1>6, <1>8, <2>1
    <3>2. /\ published[d].version < analysis[i].text /\ documents[d].version < analysis[i].text
          /\ analysis[i].text <= text[d]
          /\ \A j \in 1..(i - 1) : Update(d, analysis[j]) => analysis[j].text < analysis[i].text
          /\ \A j \in 1..Len(requests) :
               Opening(d, requests[j]) => requests[j].text < analysis[i].text
      BY <1>1, <1>8, <2>1, <3>1 DEF InOrder
    <3> QED
      BY <1>5, <3>1, <3>2
  <2>2. CASE i = Len(analysis) + 1
    <3>1. analysis'[i].text = text[d] + 1 /\ text'[d] = text[d] + 1
      BY <1>4, <1>5, <1>8, <2>2
    <3>2. \A j \in 1..(i - 1) : analysis'[j] = analysis[j] /\ j \in 1..Len(analysis)
      BY <1>4, <2>2
    <3>3. \A j \in 1..Len(analysis) :
            Update(d, analysis[j]) => analysis[j].text <= text[d] /\ analysis[j].text \in Nat
      BY <1>1, <1>6 DEF InOrder
    <3>4. \A j \in 1..Len(requests) :
            Opening(d, requests[j]) => requests[j].text <= text[d] /\ requests[j].text \in Nat
      BY <1>1, <1>6 DEF InOrder
    <3>5. published[d].version <= text[d] /\ documents[d].version <= text[d]
      BY <1>1 DEF InOrder
    <3>6. \A j \in 1..(i - 1) :
            Update(d, analysis'[j]) => analysis'[j].text < analysis'[i].text
      BY <1>5, <3>1, <3>2, <3>3
    <3>7. \A j \in 1..Len(requests) :
            Opening(d, requests[j]) => requests[j].text < analysis'[i].text
      BY <1>5, <3>1, <3>4
    <3>8. /\ published[d].version < analysis'[i].text
          /\ documents[d].version < analysis'[i].text
      BY <1>5, <1>6, <3>1, <3>5
    <3> QED
      BY <1>5, <3>1, <3>6, <3>7, <3>8
  <2> QED
    BY <1>4, <2>1, <2>2
<1>9. InOrder(d)'
  BY <1>2, <1>7, <1>8 DEF InOrder
<1>10. Closing(d)'
  <2>1. ASSUME d \notin open, NEW i \in 1..Len(analysis') PROVE ~Update(d, analysis'[i])
    BY <1>1, <1>4, <1>5, <2>1 DEF Closing
  <2>2. Gone(d, End) => Gone(d, End)'
    BY <1>2 DEF Gone, Last, Silent, End
  <2> QED
    BY <1>1, <1>2, <2>1, <2>2 DEF Closing
<1> QED
  BY <1>9, <1>10

\* The worker takes a message, or analyses.
LEMMA OrderWorker == ASSUME TInv, GInv, Worker PROVE GInv'
<1> SUFFICES ASSUME NEW d \in Docs PROVE InOrder(d)' /\ Closing(d)'
  BY DEF GInv
<1>1. /\ requests \in Seq(MsgType(RequestKinds)) /\ analysis \in Seq(MsgType(AnalysisKinds))
      /\ InOrder(d) /\ Closing(d) /\ documents \in [Docs -> DocType]
  BY DEF TInv, TypeOK, GInv
<1>2. UNCHANGED <<open, text>>
  BY DEF Worker, TakeRequest, Drained, TakeUpdate, TakeElaborate, Elaborate, client
<1>3. /\ text[d] \in Nat
      /\ published[d].version \in Nat \cup {None} /\ documents[d].version \in Nat \cup {None}
      /\ Len(requests) \in Nat /\ Len(analysis) \in Nat
      /\ \A i \in 1..Len(requests) : Opening(d, requests[i]) => requests[i].text \in Nat
      /\ \A i \in 1..Len(analysis) : Update(d, analysis[i]) => analysis[i].text \in Nat
  BY Numbers
<1>4. /\ published'[d].version \in {published[d].version, None, documents'[d].version}
      /\ ~TakeUpdate =>
           \/ documents'[d].version \in {None, documents[d].version}
           \/ TakeRequest /\ Opening(d, Head(requests))
              /\ documents'[d].version = Head(requests).text
  BY VersionsGoOn
<1>5. CASE TakeRequest
  <2>1. /\ requests # <<>> /\ requests' = Tail(requests) /\ UNCHANGED analysis
        /\ ~TakeUpdate
    BY <1>5 DEF TakeRequest, TakeUpdate
  <2>2. /\ Len(requests) \in Nat \ {0} /\ Len(requests') = Len(requests) - 1
        /\ Head(requests) = requests[1]
        /\ \A i \in 1..Len(requests') : requests'[i] = requests[i + 1]
    BY <1>1, <2>1, Dequeued
  <2>3. \A i \in 1..Len(requests') : i + 1 \in 1..Len(requests)
    BY <2>2
  <2>4. /\ documents'[d].version \in Nat \cup {None} /\ documents'[d].version <= text[d]
        /\ \A i \in 1..Len(analysis) :
             Update(d, analysis[i]) => documents'[d].version < analysis[i].text
    <3>1. CASE documents'[d].version \in {None, documents[d].version}
      BY <1>1, <1>3, <3>1 DEF InOrder
    <3>2. CASE Opening(d, Head(requests)) /\ documents'[d].version = Head(requests).text
      BY <1>1, <1>3, <2>2, <3>2 DEF InOrder
    <3> QED
      BY <1>4, <2>1, <3>1, <3>2
  <2>5. /\ published'[d].version <= text[d]
        /\ \A i \in 1..Len(analysis) :
             Update(d, analysis[i]) => published'[d].version < analysis[i].text
    BY <1>1, <1>3, <1>4, <2>4 DEF InOrder
  <2>6. /\ \A i \in 1..Len(requests') : Opening(d, requests'[i]) => requests'[i].text <= text[d]
        /\ \A i \in 1..Len(analysis) : Update(d, analysis[i]) =>
             \A j \in 1..Len(requests') :
               Opening(d, requests'[j]) => requests'[j].text < analysis[i].text
    BY <1>1, <2>2, <2>3 DEF InOrder
  <2>7. InOrder(d)'
    BY <1>1, <1>2, <2>1, <2>4, <2>5, <2>6 DEF InOrder
  <2>8. End = Len(requests) + 1 /\ End' = Len(requests) /\ Len(requests) \in 1..Len(requests)
    BY <2>2 DEF End
  <2>9. Gone(d, End) => Gone(d, End)'
    BY <1>5, <2>8, TakeKeeps
  <2> QED
    BY <1>1, <1>2, <2>1, <2>7, <2>9 DEF Closing
<1>6. CASE Drained \/ TakeElaborate \/ Elaborate
  <2>1. /\ UNCHANGED requests /\ ~TakeUpdate /\ ~TakeRequest
        /\ Present(documents') = Present(documents)
    <3>1. ~TakeUpdate /\ ~TakeRequest
      BY <1>6 DEF Drained, TakeElaborate, Elaborate, TakeUpdate, TakeRequest, queues
    <3> QED
      BY <1>6, <3>1, AnalysisPresence
  <2>2. /\ Len(analysis') \in Nat
        /\ \E n \in {0, 1} : /\ Len(analysis') = Len(analysis) - n
                             /\ \A i \in 1..Len(analysis') : analysis'[i] = analysis[i + n]
    <3>1. CASE Drained \/ Elaborate
      BY <1>3, <3>1 DEF Drained, Elaborate, queues
    <3>2. CASE TakeElaborate
      BY <1>1, <3>2, Dequeued DEF TakeElaborate
    <3> QED
      BY <1>6, <3>1, <3>2
  <2>3. PICK n \in {0, 1} : /\ Len(analysis') = Len(analysis) - n
                            /\ \A i \in 1..Len(analysis') : analysis'[i] = analysis[i + n]
    BY <2>2
  <2>4. \A i \in 1..Len(analysis') : /\ i + n \in 1..Len(analysis)
                                     /\ \A j \in 1..(i - 1) : j + n \in 1..(i + n - 1)
    BY <1>3, <2>2, <2>3
  <2>5. documents'[d].version \in {None, documents[d].version}
    BY <1>4, <2>1
  <2>6. published'[d].version \in {None, published[d].version, documents[d].version}
    BY <1>4, <2>5
  <2>7. ASSUME NEW i \in 1..Len(analysis'), Update(d, analysis'[i])
        PROVE  /\ published'[d].version < analysis'[i].text
               /\ documents'[d].version < analysis'[i].text
               /\ analysis'[i].text <= text[d]
               /\ \A j \in 1..(i - 1) :
                    Update(d, analysis'[j]) => analysis'[j].text < analysis'[i].text
               /\ \A j \in 1..Len(requests) :
                    Opening(d, requests[j]) => requests[j].text < analysis'[i].text
    <3>1. analysis'[i] = analysis[i + n] /\ i + n \in 1..Len(analysis)
          /\ analysis[i + n].text \in Nat
      BY <1>3, <2>3, <2>4, <2>7
    <3>2. \A j \in 1..(i - 1) : analysis'[j] = analysis[j + n] /\ j + n \in 1..(i + n - 1)
      <4>1. \A j \in 1..(i - 1) : j \in 1..Len(analysis')
        BY <2>2, <2>7
      <4>2. \A j \in 1..(i - 1) : analysis'[j] = analysis[j + n]
        BY <2>3, <4>1
      <4>3. \A j \in 1..(i - 1) : j + n \in 1..(i + n - 1)
        BY <2>4, <2>7
      <4> QED
        BY <4>2, <4>3
    <3>3. /\ published[d].version < analysis[i + n].text
          /\ documents[d].version < analysis[i + n].text
          /\ analysis[i + n].text <= text[d]
          /\ \A j \in 1..(i + n - 1) :
               Update(d, analysis[j]) => analysis[j].text < analysis[i + n].text
          /\ \A j \in 1..Len(requests) :
               Opening(d, requests[j]) => requests[j].text < analysis[i + n].text
      BY <1>1, <2>7, <3>1 DEF InOrder
    <3>4. published'[d].version < analysis'[i].text /\ documents'[d].version < analysis'[i].text
      BY <2>5, <2>6, <3>1, <3>3
    <3> QED
      BY <3>1, <3>2, <3>3, <3>4
  <2>8. published'[d].version <= text[d] /\ documents'[d].version <= text[d]
    BY <1>1, <1>3, <2>5, <2>6 DEF InOrder
  <2>9. InOrder(d)'
    BY <1>1, <1>2, <2>1, <2>7, <2>8 DEF InOrder
  <2>10. Gone(d, End) => Gone(d, End)'
    BY <2>1 DEF Gone, Last, Silent, End
  <2>11. (\A i \in 1..Len(analysis) : ~Update(d, analysis[i]))
           => \A i \in 1..Len(analysis') : ~Update(d, analysis'[i])
    BY <2>3, <2>4
  <2> QED
    BY <1>1, <1>2, <2>9, <2>10, <2>11 DEF Closing
<1>7. CASE TakeUpdate
  <2> DEFINE m == Head(analysis)
  <2>1. /\ analysis # <<>> /\ analysis' = Tail(analysis) /\ UNCHANGED <<requests, published>>
        /\ documents' = [documents EXCEPT ![m.doc] = Updated(m)] /\ m.kind = "UpdateSource"
    BY <1>7 DEF TakeUpdate, Store
  <2>2. /\ Len(analysis) \in Nat \ {0} /\ Len(analysis') = Len(analysis) - 1
        /\ m = analysis[1] /\ m \in MsgType(AnalysisKinds)
        /\ \A i \in 1..Len(analysis') : analysis'[i] = analysis[i + 1]
    BY <1>1, <2>1, Dequeued
  <2>3. \A i \in 1..Len(analysis') : /\ i + 1 \in 1..Len(analysis)
                                     /\ 1 \in 1..(i + 1 - 1)
                                     /\ \A j \in 1..(i - 1) : j + 1 \in 1..(i + 1 - 1)
    BY <2>2
  <2>4. \/ ~Update(d, m) /\ documents'[d] = documents[d]
        \/ Update(d, m) /\ documents'[d].version = m.text
    <3>1. CASE m.doc = d
      <4>1. documents[d] # NoDoc =>
              [documents[d] EXCEPT !.text = m.text, !.version = m.text].version = m.text
        BY <1>1, AnyDocument
      <4>2. Fresh(m.text).version = m.text
        BY DEF Fresh, NoDoc
      <4> QED
        BY <1>1, <2>1, <3>1, <4>1, <4>2 DEF Updated, Present, Update
    <3>2. CASE m.doc # d
      BY <1>1, <2>1, <3>2 DEF Update
    <3> QED
      BY <3>1, <3>2
  <2>5. ASSUME NEW i \in 1..Len(analysis'), Update(d, analysis'[i])
        PROVE  /\ published[d].version < analysis'[i].text
               /\ documents'[d].version < analysis'[i].text
               /\ analysis'[i].text <= text[d]
               /\ \A j \in 1..(i - 1) :
                    Update(d, analysis'[j]) => analysis'[j].text < analysis'[i].text
               /\ \A j \in 1..Len(requests) :
                    Opening(d, requests[j]) => requests[j].text < analysis'[i].text
    <3>1. /\ published[d].version < analysis[i + 1].text
          /\ documents[d].version < analysis[i + 1].text
          /\ analysis[i + 1].text <= text[d]
          /\ \A j \in 1..(i + 1 - 1) :
               Update(d, analysis[j]) => analysis[j].text < analysis[i + 1].text
          /\ \A j \in 1..Len(requests) :
               Opening(d, requests[j]) => requests[j].text < analysis[i + 1].text
      BY <1>1, <2>2, <2>3, <2>5 DEF InOrder
    <3>2. analysis'[i] = analysis[i + 1]
          /\ \A j \in 1..(i - 1) : analysis'[j] = analysis[j + 1] /\ j + 1 \in 1..(i + 1 - 1)
      BY <2>2, <2>3
    <3>3. documents'[d].version < analysis'[i].text
      BY <2>2, <2>3, <2>4, <3>1, <3>2
    <3> QED
      BY <3>1, <3>2, <3>3
  <2>6. documents'[d].version <= text[d]
    <3>1. Update(d, analysis[1]) => analysis[1].text <= text[d]
      BY <1>1, <2>2 DEF InOrder
    <3> QED
      BY <1>1, <2>2, <2>4, <3>1 DEF InOrder
  <2>7. InOrder(d)'
    BY <1>1, <1>2, <2>1, <2>5, <2>6 DEF InOrder
  <2>8. ASSUME d \notin open
        PROVE  /\ \A i \in 1..Len(analysis') : ~Update(d, analysis'[i])
               /\ Gone(d, End)'
    <3>1. (\A i \in 1..Len(analysis) : ~Update(d, analysis[i])) /\ Gone(d, End)
      BY <1>1, <2>8 DEF Closing
    <3>2. documents'[d] = documents[d]
      BY <2>2, <2>4, <3>1
    <3>3. Gone(d, End)'
      BY <2>1, <3>1, <3>2 DEF Gone, Last, Silent, End, Present
    <3> QED
      BY <2>2, <2>3, <3>1, <3>3
  <2> QED
    BY <1>2, <2>7, <2>8 DEF Closing
<1> QED
  BY <1>5, <1>6, <1>7 DEF Worker

\* Every step of a session with a patient editor keeps what the queues hold in order.
LEMMA GInvNext == ASSUME Patient PROVE TInv /\ GInv /\ [Next]_vars => GInv'
<1> SUFFICES ASSUME TInv, GInv, [Next]_vars PROVE GInv'
  OBVIOUS
<1>1. text \in [Docs -> Nat]
  BY DEF TInv, TypeOK
<1>2. ASSUME NEW e \in Docs, DidOpen(e) PROVE GInv'
  <2>1. Msg("didOpen", e, text[e] + 1) \in MsgType(RequestKinds)
    BY <1>1 DEF Msg, MsgType, RequestKinds
  <2>2. \A d : Opening(d, Msg("didOpen", e, text[e] + 1)) => d = e
    BY DEF Opening, Msg
  <2>3. \A d : Word(d, Msg("didOpen", e, text[e] + 1)) => d = e
    BY DEF Word, Msg
  <2>4. Msg("didOpen", e, text[e] + 1).text = text[e] + 1
    BY DEF Msg
  <2>5. text' = [text EXCEPT ![e] = @ + 1] /\ e \notin open /\ open' = open \cup {e}
        /\ requests' = Append(requests, Msg("didOpen", e, text[e] + 1))
        /\ UNCHANGED <<analysis, documents, published>>
    BY <1>2 DEF DidOpen, Enqueue, worker
  <2>6. text' \in [Docs -> Nat] /\ (\A d \in Docs : text'[d] >= text[d]) /\ text'[e] = text[e] + 1
    BY <1>1, <2>5
  <2> QED
    BY <2>1, <2>2, <2>3, <2>4, <2>5, <2>6, OrderSend
<1>3. ASSUME NEW e \in Docs, DidSave(e) \/ SendRequest(e) PROVE GInv'
  <2>1. PICK m \in MsgType(RequestKinds) :
               /\ requests' = Append(requests, m) /\ m.kind \in {"didSave", "request"}
    BY <1>1, <1>3 DEF DidSave, SendRequest, Enqueue, Msg, MsgType, RequestKinds
  <2>2. UNCHANGED <<open, text, analysis, documents, published>>
    BY <1>3 DEF DidSave, SendRequest, worker
  <2> QED
    BY <1>1, <2>1, <2>2, OrderSend DEF Opening, Word
<1>4. ASSUME NEW e \in Docs, DidClose(e) PROVE GInv'
  <2>1. PICK m \in MsgType(RequestKinds) :
               /\ requests' = Append(requests, m) /\ m.kind = "didClose" /\ m.doc = e
    BY <1>4 DEF DidClose, Enqueue, Msg, MsgType, RequestKinds
  <2>2. /\ open' = open \ {e} /\ published[e].version = text[e]
        /\ UNCHANGED <<text, analysis, documents, published>>
    BY <1>4 DEF DidClose, worker
  <2> QED
    BY <1>1, <2>1, <2>2, OrderSend DEF Opening, Word
<1>5. CASE DidChangeWatchedFiles
  <2>1. PICK m \in MsgType(RequestKinds) :
               /\ requests' = Append(requests, m) /\ m.kind = "watched"
    BY <1>5, LanguageServerAssumption
       DEF DidChangeWatchedFiles, Enqueue, Msg, MsgType, RequestKinds, AnyDoc
  <2>2. UNCHANGED <<open, text, analysis, documents, published>>
    BY <1>5 DEF DidChangeWatchedFiles, worker
  <2> QED
    BY <1>1, <2>1, <2>2, OrderSend DEF Opening, Word
<1>6. CASE UNCHANGED vars
  BY <1>6 DEF vars, GInv, InOrder, Closing, Gone, Last, Silent, End
<1> QED
  BY <1>2, <1>3, <1>4, <1>5, <1>6, OrderAnalysis, OrderWorker DEF Next, Client

\* Nothing is under way to begin with.
LEMMA GInvInit == Init => GInv
<1> SUFFICES ASSUME Init, NEW d \in Docs PROVE InOrder(d) /\ Closing(d)
  BY DEF GInv
<1>1. Len(requests) = 0 /\ Len(analysis) = 0
  BY EmptySeq DEF Init
<1>2. published[d].version = None /\ documents[d] = NoDoc /\ documents[d].version = None
      /\ text[d] = 0
  BY DEF Init, Nothing, NoDoc
<1>3. Gone(d, End)
  BY <1>1, <1>2 DEF Gone, Silent, End, Present
<1> QED
  BY <1>1, <1>2, <1>3 DEF InOrder, Closing
-------------------------------------------------------------------------------
(* The versions of an open document: the one shown, the one the worker holds, and *)
(* those on their way.                                                            *)

Ordered(d, m) == m.kind = "Elaborate" /\ m.doc = d

\* Its opening is on its way, and nothing of it comes before that.
Awaited(d) ==
  /\ \E i \in 1..Len(requests) :
       /\ Opening(d, requests[i]) /\ requests[i].text = since[d]
       /\ \A j \in (i + 1)..Len(requests) : ~Word(d, requests[j])
       /\ \A j \in 1..(i - 1) : Opening(d, requests[j]) => requests[j].text < since[d]
  /\ text[d] = since[d] /\ documents[d].version < since[d] /\ published[d].version < since[d]
  /\ \A i \in 1..Len(analysis) : ~Update(d, analysis[i])

\* The worker has the text t of d, or a newer one, by the time the i-th analysis
\* message comes up.
Reached(d, i, t) ==
  \/ documents[d].version >= t
  \/ \E j \in 1..(i - 1) : Update(d, analysis[j]) /\ analysis[j].text >= t

\* The worker has it, shows no more than it has, and gets to each text in time.
Served(d) ==
  /\ Silent(d, End)
  /\ since[d] <= documents[d].version /\ published[d].version <= documents[d].version
  /\ Reached(d, Len(analysis) + 1, text[d])
  /\ \A i \in 1..Len(analysis) :
       Ordered(d, analysis[i]) => Reached(d, i, analysis[i].text)
  /\ pc = "job" /\ job.doc = d => documents[d].version >= job.text

\* No order to analyse is of a text the editor has yet to write.
Written(d) ==
  /\ since[d] <= text[d]
  /\ \A i \in 1..Len(analysis) : Ordered(d, analysis[i]) => analysis[i].text <= text[d]
  /\ pc = "job" /\ job.doc = d => job.text <= text[d]

VInv == \A d \in Docs : Written(d) /\ (d \in open => Awaited(d) \/ Served(d))

\* A publication reports a document the worker holds by that document's version.
LEMMA PublishHeld ==
  ASSUME NEW s, NEW d \in Docs, NEW p \in [Docs -> ReportType], NEW e \in Docs,
         e \in Present(s.docs)
  PROVE  Publish(s, d, p)[e].version \in {p[e].version, s.docs[e].version}
BY DEF Publish, OwnReport

\* While nobody opens or closes it, a document that the worker holds is published as
\* it is, and only a new text changes its version.
LEMMA VersionsStay ==
  ASSUME TInv, Worker, NEW d \in Present(documents),
         TakeRequest => ~Word(d, Head(requests))
  PROVE  /\ published'[d].version \in {published[d].version, documents'[d].version}
         /\ ~TakeUpdate => documents'[d].version = documents[d].version
<1>1. /\ documents \in [Docs -> DocType] /\ published \in [Docs -> ReportType]
      /\ requests \in Seq(MsgType(RequestKinds)) /\ job.doc \in Docs
      /\ d \in Docs /\ documents[d] \in DocType \ {NoDoc}
  BY DEF TInv, TypeOK, MsgType, Present
<1>2. CASE Drained \/ TakeUpdate \/ TakeElaborate
  BY <1>2 DEF Drained, TakeUpdate, TakeElaborate
<1>3. Analyzed(d, documents[d]).version = documents[d].version
      /\ Analyzed(d, documents[d]) # NoDoc
  BY <1>1, AnalyzedVersion, DocumentTypes
<1>4. CASE Elaborate
  <2> DEFINE s == AnalyzeDoc(Server, job.doc)
  <2>1. documents' = s.docs /\ published' = Publish(s, job.doc, published)
    BY <1>4 DEF Elaborate
  <2>2. s.docs[d].version = documents[d].version /\ d \in Present(s.docs)
    BY <1>1, <1>3 DEF AnalyzeDoc, Server, Present
  <2> HIDE DEF s
  <2>3. Publish(s, job.doc, published)[d].version \in {published[d].version, s.docs[d].version}
    BY <1>1, <2>2, PublishHeld
  <2> QED
    BY <2>1, <2>2, <2>3
<1>5. CASE TakeRequest
  <2> DEFINE m == Head(requests)
  <2>1. m \in MsgType(RequestKinds) /\ Handle(m) /\ ~Word(d, m)
    BY <1>1, <1>5, Dequeued DEF TakeRequest
  <2>2. CASE m.kind \in {"didOpen", "didClose", "request"}
    BY <1>1, <2>1, <2>2 DEF Handle, Store, Word
  <2>3. CASE m.kind = "didSave"
    <3>1. documents[m.doc] # NoDoc =>
            Saved(m, documents[m.doc]).version = documents[m.doc].version
      BY <1>1, <2>1, AnyDocument DEF Saved, MsgType
    <3> QED
      BY <1>1, <2>1, <2>3, <3>1 DEF Handle, Store
  <2>4. CASE m.kind = "watched"
    <3> DEFINE ds == [e \in Docs |-> IF e \in Present(documents)
                                     THEN Analyzed(e, documents[e]) ELSE NoDoc]
               s  == [docs |-> ds, unit |-> IF Present(documents) \cap ProjectDocs = {}
                                            THEN unit ELSE Built(unit)]
               a  == CHOOSE e \in Present(ds) \cap ProjectDocs : TRUE
    <3>1. /\ documents' = ds
          /\ published' = [e \in Docs |->
               IF e \in Present(ds) /\ ~ds[e].root THEN OwnReport(ds[e])
               ELSE IF Present(ds) \cap ProjectDocs = {} THEN published[e]
               ELSE Publish(s, a, published)[e]]
      BY <2>1, <2>4 DEF Handle
    <3>2. ds[d].version = documents[d].version /\ d \in Present(ds) /\ s.docs = ds
      BY <1>1, <1>3 DEF Present
    <3> HIDE DEF ds, s
    <3>3. Present(ds) \cap ProjectDocs # {} => a \in Docs
      BY DEF Present
    <3> HIDE DEF a
    <3>4. a \in Docs => Publish(s, a, published)[d].version
                          \in {published[d].version, ds[d].version}
      BY <1>1, <3>2, PublishHeld
    <3> QED
      BY <1>1, <3>1, <3>2, <3>3, <3>4 DEF OwnReport
  <2> QED
    BY <2>1, <2>2, <2>3, <2>4 DEF MsgType, RequestKinds
<1> QED
  BY <1>2, <1>4, <1>5 DEF Worker

\* The types of what the invariant compares.
LEMMA MoreNumbers ==
  ASSUME TInv, NEW d \in Docs
  PROVE  /\ since[d] \in Nat
         /\ \A i \in 1..Len(analysis) : Ordered(d, analysis[i]) => analysis[i].text \in Nat
         /\ pc = "job" => job.text \in Nat \cup {None}
BY DEF TInv, TypeOK, Carrying, Carry, Ordered, MsgType

\* A message on the request queue: the document's opening, or nothing to it.
LEMMA VersionSend ==
  ASSUME TInv, GInv, VInv, NEW m \in MsgType(RequestKinds), requests' = Append(requests, m),
         UNCHANGED <<analysis, documents, published, pc, job>>, NEW d \in Docs,
         \/ /\ UNCHANGED <<text[d], since[d]>>
            /\ d \in open' => d \in open /\ ~Word(d, m)
         \/ /\ Opening(d, m) /\ d \notin open
            /\ m.text = text'[d] /\ since'[d] = text'[d] /\ text'[d] = text[d] + 1
  PROVE  Written(d)' /\ (d \in open' => Awaited(d)' \/ Served(d)')
<1>1. /\ requests \in Seq(MsgType(RequestKinds)) /\ InOrder(d) /\ Closing(d)
      /\ Written(d) /\ (d \in open => Awaited(d) \/ Served(d))
  BY DEF TInv, TypeOK, GInv, VInv
<1>2. /\ Len(requests) \in Nat /\ Len(requests') = Len(requests) + 1
      /\ \A i \in 1..Len(requests) : requests'[i] = requests[i]
      /\ requests'[Len(requests) + 1] = m
  BY <1>1, Enqueued
<1>3. /\ text[d] \in Nat /\ since[d] \in Nat
      /\ published[d].version \in Nat \cup {None} /\ documents[d].version \in Nat \cup {None}
      /\ Len(analysis) \in Nat
      /\ \A i \in 1..Len(requests) : Opening(d, requests[i]) => requests[i].text \in Nat
      /\ \A i \in 1..Len(analysis) : Ordered(d, analysis[i]) => analysis[i].text \in Nat
      /\ pc = "job" => job.text \in Nat \cup {None}
  BY Numbers, MoreNumbers
<1>4. CASE /\ Opening(d, m) /\ d \notin open
           /\ m.text = text'[d] /\ since'[d] = text'[d] /\ text'[d] = text[d] + 1
  <2>1. Written(d)'
    BY <1>1, <1>3, <1>4 DEF Written
  <2>2. /\ Len(requests) + 1 \in 1..Len(requests')
        /\ Opening(d, requests'[Len(requests) + 1])
        /\ requests'[Len(requests) + 1].text = since'[d]
        /\ \A j \in (Len(requests) + 2)..Len(requests') : ~Word(d, requests'[j])
    BY <1>2, <1>4
  <2>3. \A j \in 1..Len(requests) :
          Opening(d, requests'[j]) => requests'[j].text < since'[d]
    BY <1>1, <1>2, <1>3, <1>4 DEF InOrder
  <2>4. documents[d].version < since'[d] /\ published[d].version < since'[d]
    BY <1>1, <1>3, <1>4 DEF InOrder
  <2>5. \A i \in 1..Len(analysis) : ~Update(d, analysis[i])
    BY <1>1, <1>4 DEF Closing
  <2>6. \A j \in 1..((Len(requests) + 1) - 1) :
          Opening(d, requests'[j]) => requests'[j].text < since'[d]
    BY <1>2, <2>3
  <2>7. \A j \in ((Len(requests) + 1) + 1)..Len(requests') : ~Word(d, requests'[j])
    BY <1>2
  <2>8. Awaited(d)'
    BY <1>4, <2>2, <2>4, <2>5, <2>6, <2>7 DEF Awaited
  <2> QED
    BY <2>1, <2>8
<1>5. CASE /\ UNCHANGED <<text[d], since[d]>>
           /\ d \in open' => d \in open /\ ~Word(d, m)
  <2>1. Written(d)'
    BY <1>1, <1>5 DEF Written
  <2>2. ASSUME d \in open', Awaited(d) PROVE Awaited(d)'
    <3>1. PICK i \in 1..Len(requests) :
            /\ Opening(d, requests[i]) /\ requests[i].text = since[d]
            /\ \A j \in (i + 1)..Len(requests) : ~Word(d, requests[j])
            /\ \A j \in 1..(i - 1) : Opening(d, requests[j]) => requests[j].text < since[d]
      BY <2>2 DEF Awaited
    <3>2. i \in 1..Len(requests') /\ requests'[i] = requests[i]
          /\ \A j \in 1..(i - 1) : requests'[j] = requests[j]
      BY <1>2
    <3>3. \A j \in (i + 1)..Len(requests') : ~Word(d, requests'[j])
      BY <1>2, <1>5, <2>2, <3>1
    <3> QED
      BY <1>5, <2>2, <3>1, <3>2, <3>3 DEF Awaited
  <2>3. ASSUME d \in open', Served(d) PROVE Served(d)'
    <3>1. Silent(d, End)'
      BY <1>2, <1>5, <2>3 DEF Served, Silent, End
    <3> QED
      BY <1>5, <2>3, <3>1 DEF Served, Reached
  <2> QED
    BY <1>1, <1>5, <2>1, <2>2, <2>3
<1> QED
  BY <1>4, <1>5

\* A text that is sent is reached after those before it; a deadline orders one that is.
LEMMA VersionAnalysis ==
  ASSUME Patient, TInv, GInv, VInv, NEW e \in Docs, DidChange(e) \/ TimerFires(e), NEW d \in Docs
  PROVE  Written(d)' /\ (d \in open' => Awaited(d)' \/ Served(d)')
<1>1. /\ analysis \in Seq(MsgType(AnalysisKinds)) /\ text \in [Docs -> Nat]
      /\ Written(d) /\ (d \in open => Awaited(d) \/ Served(d))
  BY DEF TInv, TypeOK, VInv
<1>2. UNCHANGED <<open, since, requests, documents, published, pc, job>>
  BY DEF DidChange, TimerFires, client, worker
<1>3. PICK m \in MsgType(AnalysisKinds) :
             /\ analysis' = Append(analysis, m) /\ m.doc = e
             /\ \/ m.kind = "Elaborate" /\ text' = text /\ m.text = text[e]
                \/ /\ m.kind = "UpdateSource" /\ e \in open
                   /\ published[e].version >= since[e]
                   /\ text' = [text EXCEPT ![e] = @ + 1] /\ m.text = text'[e]
  BY <1>1 DEF DidChange, TimerFires, Msg, MsgType, AnalysisKinds, client
<1>4. /\ Len(analysis) \in Nat /\ Len(analysis') = Len(analysis) + 1
      /\ \A i \in 1..Len(analysis) : analysis'[i] = analysis[i]
      /\ analysis'[Len(analysis) + 1] = m
  BY <1>1, <1>3, Enqueued
<1>5. /\ text[d] \in Nat /\ since[d] \in Nat
      /\ published[d].version \in Nat \cup {None} /\ documents[d].version \in Nat \cup {None}
      /\ \A i \in 1..Len(analysis) : Ordered(d, analysis[i]) => analysis[i].text \in Nat
      /\ pc = "job" => job.text \in Nat \cup {None}
  BY Numbers, MoreNumbers
<1>6. /\ text'[d] \in Nat /\ text'[d] >= text[d]
      /\ Ordered(d, m) => m.text = text[d] /\ text' = text
      /\ ~Update(d, m) => text'[d] = text[d]
      /\ Update(d, m) => /\ d \in open /\ published[d].version >= since[d]
                         /\ m.text = text'[d] /\ text'[d] = text[d] + 1
  BY <1>1, <1>3 DEF Ordered, Update
<1>7. Written(d)'
  <2>1. since'[d] <= text'[d] /\ (pc' = "job" /\ job'.doc = d => job'.text <= text'[d])
    BY <1>1, <1>2, <1>5, <1>6 DEF Written
  <2>2. ASSUME NEW i \in 1..Len(analysis'), Ordered(d, analysis'[i])
        PROVE  analysis'[i].text <= text'[d]
    <3>1. CASE i \in 1..Len(analysis)
      <4>1. analysis'[i] = analysis[i] /\ analysis[i].text <= text[d] /\ analysis[i].text \in Nat
        BY <1>1, <1>4, <1>5, <2>2, <3>1 DEF Written
      <4> QED
        BY <1>5, <1>6, <4>1
    <3>2. CASE i = Len(analysis) + 1
      BY <1>4, <1>5, <1>6, <2>2, <3>2
    <3> QED
      BY <1>4, <3>1, <3>2
  <2> QED
    BY <2>1, <2>2 DEF Written
<1>8. ASSUME d \in open, Awaited(d) PROVE Awaited(d)'
  <2>1. ~Update(d, m)
    BY <1>5, <1>6, <1>8 DEF Awaited
  <2>2. \A i \in 1..Len(analysis') : ~Update(d, analysis'[i])
    BY <1>4, <1>8, <2>1 DEF Awaited
  <2> QED
    BY <1>2, <1>6, <1>8, <2>1, <2>2 DEF Awaited
<1>9. ASSUME d \in open, Served(d) PROVE Served(d)'
  <2>1. \A t : \A i \in 1..(Len(analysis) + 1) : Reached(d, i, t) => Reached(d, i, t)'
    BY <1>2, <1>4 DEF Reached
  <2>2. Reached(d, Len(analysis) + 1, text[d])
    BY <1>9 DEF Served
  <2>3. \A i \in 1..Len(analysis') : Ordered(d, analysis'[i]) =>
          Reached(d, i, analysis'[i].text)
    <3> SUFFICES ASSUME NEW i \in 1..Len(analysis'), Ordered(d, analysis'[i])
                 PROVE  Reached(d, i, analysis'[i].text)
      OBVIOUS
    <3>1. CASE i \in 1..Len(analysis)
      BY <1>4, <1>9, <3>1 DEF Served
    <3>2. CASE i = Len(analysis) + 1
      BY <1>4, <1>6, <2>2, <3>2
    <3> QED
      BY <1>4, <3>1, <3>2
  <2>4. ASSUME NEW i \in 1..Len(analysis'), Ordered(d, analysis'[i])
        PROVE  Reached(d, i, analysis[i].text)'
    <3>1. PICK t : t = analysis'[i].text
      OBVIOUS
    <3>2. Reached(d, i, t)
      BY <2>3, <2>4, <3>1
    <3>3. i \in 1..(Len(analysis) + 1)
      BY <1>4
    <3>4. Reached(d, i, t)'
      BY <2>1, <3>2, <3>3
    <3> QED
      BY <3>1, <3>4 DEF Reached
  <2>5. Reached(d, Len(analysis) + 1, text[d])'
    <3>1. CASE Update(d, m)
      <4>1. Len(analysis) + 1 \in 1..((Len(analysis') + 1) - 1)
            /\ Update(d, analysis'[Len(analysis) + 1])
            /\ analysis'[Len(analysis) + 1].text >= text'[d]
        BY <1>4, <1>6, <3>1
      <4> QED
        BY <4>1 DEF Reached
    <3>2. CASE ~Update(d, m)
      <4>1. text'[d] = text[d]
        BY <1>6, <3>2
      <4>2. \A j \in 1..((Len(analysis) + 1) - 1) :
              j \in 1..((Len(analysis') + 1) - 1) /\ analysis'[j] = analysis[j]
        BY <1>4
      <4> QED
        BY <1>2, <2>2, <4>1, <4>2 DEF Reached
    <3> QED
      BY <3>1, <3>2
  <2>6. Silent(d, End)'
    BY <1>2, <1>9 DEF Served, Silent, End
  <2>7. /\ since'[d] <= documents'[d].version /\ published'[d].version <= documents'[d].version
        /\ pc' = "job" /\ job'.doc = d => documents'[d].version >= job'.text
    BY <1>2, <1>9 DEF Served
  <2> QED
    BY <2>4, <2>5, <2>6, <2>7 DEF Served
<1> QED
  BY <1>1, <1>2, <1>7, <1>8, <1>9

\* The worker answers a request, opens or closes.
LEMMA VersionRequest ==
  ASSUME TInv, GInv, VInv, TakeRequest, NEW d \in Docs
  PROVE  Written(d)' /\ (d \in open' => Awaited(d)' \/ Served(d)')
<1>1. /\ requests \in Seq(MsgType(RequestKinds)) /\ documents \in [Docs -> DocType]
      /\ Written(d) /\ (d \in open => Awaited(d) \/ Served(d))
  BY DEF TInv, TypeOK, VInv
<1>2. /\ requests # <<>> /\ requests' = Tail(requests) /\ Handle(Head(requests))
      /\ UNCHANGED <<open, text, since, analysis, job>>
      /\ (pc' = "job" <=> pc = "job") /\ Worker /\ ~TakeUpdate
  BY DEF TakeRequest, client, Worker, TakeUpdate
<1>3. /\ Len(requests) \in Nat \ {0} /\ Len(requests') = Len(requests) - 1
      /\ Head(requests) = requests[1] /\ Head(requests) \in MsgType(RequestKinds)
      /\ \A i \in 1..Len(requests') : requests'[i] = requests[i + 1]
      /\ \A i \in 1..Len(requests') : i + 1 \in 1..Len(requests)
  BY <1>1, <1>2, Dequeued
<1>4. /\ text[d] \in Nat /\ since[d] \in Nat
      /\ published[d].version \in Nat \cup {None} /\ documents[d].version \in Nat \cup {None}
      /\ Len(analysis) \in Nat
      /\ \A i \in 1..Len(requests) : Opening(d, requests[i]) => requests[i].text \in Nat
      /\ \A i \in 1..Len(analysis) : Ordered(d, analysis[i]) => analysis[i].text \in Nat
      /\ pc = "job" => job.text \in Nat \cup {None}
  BY Numbers, MoreNumbers
<1>5. /\ published'[d].version \in {published[d].version, None, documents'[d].version}
      /\ \/ documents'[d].version \in {None, documents[d].version}
         \/ Opening(d, Head(requests)) /\ documents'[d].version = Head(requests).text
  BY <1>2, VersionsGoOn
<1>6. Written(d)'
  BY <1>1, <1>2 DEF Written
<1>7. ASSUME d \in open, Awaited(d) PROVE Awaited(d)' \/ Served(d)'
  <2>1. PICK i \in 1..Len(requests) :
          /\ Opening(d, requests[i]) /\ requests[i].text = since[d]
          /\ \A j \in (i + 1)..Len(requests) : ~Word(d, requests[j])
          /\ \A j \in 1..(i - 1) : Opening(d, requests[j]) => requests[j].text < since[d]
    BY <1>7 DEF Awaited
  <2>2. /\ text[d] = since[d] /\ documents[d].version < since[d]
        /\ published[d].version < since[d]
        /\ \A k \in 1..Len(analysis) : ~Update(d, analysis[k])
    BY <1>7 DEF Awaited
  <2>3. CASE i = 1
    <3>1. documents'[d].version = since[d]
      <4>1. documents' = [documents EXCEPT ![d] = Fresh(since[d])]
        BY <1>2, <1>3, <2>1, <2>3 DEF Handle, Store, Opening
      <4>2. Fresh(since[d]).version = since[d]
        BY DEF Fresh, NoDoc
      <4> QED
        BY <1>1, <4>1, <4>2
    <3>2. published'[d].version <= documents'[d].version
      BY <1>4, <1>5, <2>2, <3>1
    <3>3. \A j \in 1..Len(requests') : ~Word(d, requests'[j])
      BY <1>3, <2>1, <2>3
    <3>4. Silent(d, End)'
      BY <1>3, <3>3 DEF Silent, End
    <3>5. \A k \in 1..Len(analysis) :
            Ordered(d, analysis[k]) => documents'[d].version >= analysis[k].text
      BY <1>1, <1>4, <2>2, <3>1 DEF Written
    <3>6. pc = "job" /\ job.doc = d => documents'[d].version >= job.text
      BY <1>1, <1>4, <2>2, <3>1 DEF Written
    <3> QED
      BY <1>2, <1>4, <2>2, <3>1, <3>2, <3>4, <3>5, <3>6 DEF Served, Reached
  <2>4. CASE i # 1
    <3>1. /\ i - 1 \in 1..Len(requests') /\ requests'[i - 1] = requests[i]
          /\ \A j \in ((i - 1) + 1)..Len(requests') :
               j + 1 \in (i + 1)..Len(requests) /\ requests'[j] = requests[j + 1]
          /\ \A j \in 1..((i - 1) - 1) : j + 1 \in 1..(i - 1) /\ requests'[j] = requests[j + 1]
          /\ 1 \in 1..(i - 1)
      BY <1>3, <2>4
    <3>2. Opening(d, Head(requests)) =>
            Head(requests).text < since[d] /\ Head(requests).text \in Nat
      BY <1>3, <1>4, <2>1, <3>1
    <3>3. documents'[d].version < since[d] /\ published'[d].version < since[d]
      BY <1>4, <1>5, <2>2, <3>2
    <3>4. /\ \A j \in ((i - 1) + 1)..Len(requests') : ~Word(d, requests'[j])
          /\ \A j \in 1..((i - 1) - 1) :
               Opening(d, requests'[j]) => requests'[j].text < since[d]
      BY <2>1, <3>1
    <3> QED
      BY <1>2, <2>1, <2>2, <3>1, <3>3, <3>4 DEF Awaited
  <2> QED
    BY <2>3, <2>4
<1>8. ASSUME d \in open, Served(d) PROVE Served(d)'
  <2>1. ~Word(d, Head(requests)) /\ Silent(d, End)'
    BY <1>3, <1>8 DEF Served, Silent, End
  <2>2. d \in Present(documents)
    BY <1>4, <1>8 DEF Served, Present, NoDoc
  <2>3. /\ published'[d].version \in {published[d].version, documents'[d].version}
        /\ documents'[d].version = documents[d].version
    BY <1>2, <2>1, <2>2, VersionsStay
  <2> QED
    BY <1>2, <1>4, <1>8, <2>1, <2>3 DEF Served, Reached
<1> QED
  BY <1>1, <1>2, <1>6, <1>7, <1>8

\* An analysis message is taken: if it is a text, the worker has it now.
LEMMA ReachedTail ==
  ASSUME analysis \in Seq(MsgType(AnalysisKinds)), analysis # <<>>,
         analysis' = Tail(analysis), NEW d,
         documents[d].version \in Nat \cup {None}, documents'[d].version \in Nat \cup {None},
         documents'[d].version >= documents[d].version,
         Update(d, Head(analysis)) => /\ Head(analysis).text \in Nat
                                      /\ documents'[d].version >= Head(analysis).text,
         NEW i \in 1..Len(analysis), NEW t \in Nat, Reached(d, i + 1, t)
  PROVE  Reached(d, i, t)'
<1>1. /\ Len(analysis) \in Nat \ {0} /\ Len(analysis') = Len(analysis) - 1
      /\ Head(analysis) = analysis[1]
      /\ \A k \in 1..Len(analysis') : analysis'[k] = analysis[k + 1]
  BY Dequeued
<1>2. CASE documents[d].version >= t
  BY <1>2 DEF Reached
<1>3. CASE documents[d].version < t
  <2>1. PICK j \in 1..((i + 1) - 1) : Update(d, analysis[j]) /\ analysis[j].text >= t
    BY <1>3 DEF Reached
  <2>2. CASE j = 1
    BY <1>1, <2>1, <2>2 DEF Reached
  <2>3. CASE j # 1
    <3>1. j - 1 \in 1..(i - 1) /\ analysis'[j - 1] = analysis[j]
      BY <1>1, <2>1, <2>3
    <3> QED
      BY <2>1, <3>1 DEF Reached
  <2> QED
    BY <2>2, <2>3
<1> QED
  BY <1>2, <1>3

\* The worker takes an analysis message, or analyses.
LEMMA VersionWork ==
  ASSUME TInv, GInv, VInv, Drained \/ TakeUpdate \/ TakeElaborate \/ Elaborate, NEW d \in Docs
  PROVE  Written(d)' /\ (d \in open' => Awaited(d)' \/ Served(d)')
<1>1. /\ analysis \in Seq(MsgType(AnalysisKinds)) /\ documents \in [Docs -> DocType]
      /\ Written(d) /\ (d \in open => Awaited(d) \/ Served(d)) /\ InOrder(d)
  BY DEF TInv, TypeOK, VInv, GInv
<1>2. UNCHANGED <<open, text, since, requests>> /\ Worker /\ ~TakeRequest
  <2>1. CASE Drained
    BY <2>1 DEF Drained, Worker, TakeRequest, client, queues
  <2>2. CASE TakeUpdate \/ TakeElaborate
    <3>1. analysis' # analysis
      BY <1>1, <2>2, Dequeued DEF TakeUpdate, TakeElaborate
    <3> QED
      BY <2>2, <3>1 DEF TakeUpdate, TakeElaborate, Worker, TakeRequest, client
  <2>3. CASE Elaborate
    <3>1. requests' = requests /\ requests = <<>>
      BY <2>3 DEF Elaborate, ReadyToElaborate, queues
    <3> QED
      BY <2>3, <3>1 DEF Elaborate, Worker, TakeRequest, client
  <2> QED
    BY <2>1, <2>2, <2>3
<1>3. /\ text[d] \in Nat /\ since[d] \in Nat
      /\ published[d].version \in Nat \cup {None} /\ documents[d].version \in Nat \cup {None}
      /\ Len(analysis) \in Nat
      /\ \A i \in 1..Len(analysis) : Update(d, analysis[i]) => analysis[i].text \in Nat
      /\ \A i \in 1..Len(analysis) : Ordered(d, analysis[i]) => analysis[i].text \in Nat
      /\ pc = "job" => job.text \in Nat \cup {None}
  BY Numbers, MoreNumbers
<1>4. published'[d].version \in {published[d].version, None, documents'[d].version}
  BY <1>2, VersionsGoOn
<1>5. CASE Drained \/ Elaborate
  <2>1. UNCHANGED analysis /\ pc' # "job" /\ ~TakeUpdate
    BY <1>5 DEF Drained, Elaborate, queues, TakeUpdate
  <2>2. Written(d)'
    BY <1>1, <1>2, <2>1 DEF Written
  <2>3. ASSUME d \in open, Awaited(d) PROVE Awaited(d)'
    <3>1. documents'[d].version \in {None, documents[d].version}
      BY <1>2, <2>1, VersionsGoOn
    <3>2. documents'[d].version < since[d] /\ published'[d].version < since[d]
      BY <1>3, <1>4, <2>3, <3>1 DEF Awaited
    <3> QED
      BY <1>2, <2>1, <2>3, <3>2 DEF Awaited
  <2>4. ASSUME d \in open, Served(d) PROVE Served(d)'
    <3>1. d \in Present(documents)
      BY <1>3, <2>4 DEF Served, Present, NoDoc
    <3>2. /\ published'[d].version \in {published[d].version, documents'[d].version}
          /\ documents'[d].version = documents[d].version
      BY <1>2, <2>1, <3>1, VersionsStay
    <3> QED
      BY <1>2, <1>3, <2>1, <2>4, <3>2 DEF Served, Reached, Silent, End
  <2> QED
    BY <1>1, <1>2, <2>2, <2>3, <2>4
<1>6. CASE TakeUpdate \/ TakeElaborate
  <2> DEFINE m == Head(analysis)
  <2>1. /\ analysis # <<>> /\ analysis' = Tail(analysis) /\ UNCHANGED published
        /\ \/ /\ m.kind = "UpdateSource" /\ pc' = "drain"
              /\ documents' = [documents EXCEPT ![m.doc] = Updated(m)]
           \/ m.kind = "Elaborate" /\ pc' = "job" /\ job' = m /\ UNCHANGED documents
    BY <1>6 DEF TakeUpdate, TakeElaborate, Store
  <2>2. /\ Len(analysis) \in Nat \ {0} /\ Len(analysis') = Len(analysis) - 1
        /\ m = analysis[1] /\ m \in MsgType(AnalysisKinds)
        /\ \A i \in 1..Len(analysis') : analysis'[i] = analysis[i + 1]
        /\ \A i \in 1..Len(analysis') : i + 1 \in 1..Len(analysis)
        /\ 1 \in 1..Len(analysis)
    BY <1>1, <2>1, Dequeued
  <2>3. \/ ~Update(d, m) /\ documents'[d] = documents[d]
        \/ Update(d, m) /\ documents'[d].version = m.text
    <3>1. CASE m.kind = "UpdateSource" /\ m.doc = d
      <4>1. documents[d] # NoDoc =>
              [documents[d] EXCEPT !.text = m.text, !.version = m.text].version = m.text
        BY <1>1, AnyDocument
      <4>2. Fresh(m.text).version = m.text
        BY DEF Fresh, NoDoc
      <4> QED
        BY <1>1, <2>1, <3>1, <4>1, <4>2 DEF Updated, Present, Update
    <3>2. CASE ~(m.kind = "UpdateSource" /\ m.doc = d)
      BY <1>1, <2>1, <3>2 DEF Update
    <3> QED
      BY <3>1, <3>2
  <2>4. Written(d)'
    BY <1>1, <1>2, <2>1, <2>2 DEF Written, Ordered
  <2>5. ASSUME d \in open, Awaited(d) PROVE Awaited(d)'
    <3>1. ~Update(d, m) /\ \A i \in 1..Len(analysis') : ~Update(d, analysis'[i])
      BY <2>2, <2>5 DEF Awaited
    <3> QED
      BY <1>2, <2>1, <2>3, <2>5, <3>1 DEF Awaited
  <2>6. ASSUME d \in open, Served(d) PROVE Served(d)'
    <3>1. Update(d, m) => documents[d].version < m.text /\ m.text \in Nat
      BY <1>1, <1>3, <2>2 DEF InOrder
    <3>2. /\ documents'[d].version \in Nat \cup {None}
          /\ documents'[d].version >= documents[d].version
          /\ Update(d, m) => m.text \in Nat /\ documents'[d].version >= m.text
      BY <1>3, <2>3, <3>1
    <3>3. \A i \in 1..Len(analysis), t \in Nat : Reached(d, i + 1, t) => Reached(d, i, t)'
      BY <1>1, <1>3, <2>1, <3>2, ReachedTail
    <3>4. Reached(d, Len(analysis) + 1, text[d])'
      <4>1. Reached(d, Len(analysis) + 1, text[d])
        BY <2>6 DEF Served
      <4>2. PICK t \in Nat : t = text[d]
        BY <1>3
      <4>3. PICK k \in 1..Len(analysis) : k = Len(analysis)
        BY <2>2
      <4>4. Reached(d, k, t)'
        BY <3>3, <4>1, <4>2, <4>3
      <4>5. Len(analysis') + 1 = k
        BY <2>2, <4>3
      <4> QED
        BY <1>2, <4>2, <4>4, <4>5 DEF Reached
    <3>5. ASSUME NEW i \in 1..Len(analysis'), Ordered(d, analysis'[i])
          PROVE  Reached(d, i, analysis[i].text)'
      <4>1. PICK t \in Nat : t = analysis'[i].text
        BY <1>3, <2>2, <3>5
      <4>2. Reached(d, i + 1, t)
        BY <2>2, <2>6, <3>5, <4>1 DEF Served
      <4>3. i \in 1..Len(analysis)
        BY <2>2
      <4>4. Reached(d, i, t)'
        BY <3>3, <4>2, <4>3
      <4> QED
        BY <4>1, <4>4 DEF Reached
    <3>6. pc' = "job" /\ job'.doc = d => documents'[d].version >= job'.text
      <4> SUFFICES ASSUME pc' = "job", job'.doc = d PROVE documents'[d].version >= job'.text
        OBVIOUS
      <4>1. Ordered(d, analysis[1]) /\ job' = analysis[1] /\ UNCHANGED documents
        BY <2>1, <2>2 DEF Ordered
      <4>2. Reached(d, 1, analysis[1].text)
        BY <2>2, <2>6, <4>1 DEF Served
      <4> QED
        BY <4>1, <4>2 DEF Reached
    <3>7. /\ since'[d] <= documents'[d].version /\ published'[d].version <= documents'[d].version
          /\ Silent(d, End)'
      BY <1>2, <1>3, <2>1, <2>6, <3>2 DEF Served, Silent, End
    <3> QED
      BY <3>4, <3>5, <3>6, <3>7 DEF Served
  <2> QED
    BY <1>1, <1>2, <2>4, <2>5, <2>6
<1> QED
  BY <1>5, <1>6

\* Every step of a session with a patient editor keeps the versions in order.
LEMMA VInvNext == ASSUME Patient PROVE TInv /\ GInv /\ VInv /\ [Next]_vars => VInv'
<1> SUFFICES ASSUME TInv, GInv, VInv, [Next]_vars, NEW d \in Docs
             PROVE  Written(d)' /\ (d \in open' => Awaited(d)' \/ Served(d)')
  BY DEF VInv
<1>1. text \in [Docs -> Nat] /\ since \in [Docs -> Nat] /\ open \subseteq Docs
  BY DEF TInv, TypeOK
<1>2. ASSUME NEW e \in Docs, DidOpen(e)
      PROVE  Written(d)' /\ (d \in open' => Awaited(d)' \/ Served(d)')
  <2>1. PICK m \in MsgType(RequestKinds) :
               /\ requests' = Append(requests, m) /\ m.kind = "didOpen" /\ m.doc = e
               /\ m.text = text[e] + 1
    BY <1>1, <1>2 DEF DidOpen, Enqueue, Msg, MsgType, RequestKinds
  <2>2. /\ e \notin open /\ open' = open \cup {e}
        /\ text' = [text EXCEPT ![e] = @ + 1] /\ since' = [since EXCEPT ![e] = text[e] + 1]
        /\ UNCHANGED <<analysis, documents, published, pc, job>>
    BY <1>2 DEF DidOpen, worker
  <2>3. CASE d = e
    <3>1. /\ Opening(d, m) /\ d \notin open
          /\ m.text = text'[d] /\ since'[d] = text'[d] /\ text'[d] = text[d] + 1
      BY <1>1, <2>1, <2>2, <2>3 DEF Opening
    <3> QED
      BY <2>1, <2>2, <3>1, VersionSend
  <2>4. CASE d # e
    <3>1. UNCHANGED <<text[d], since[d]>> /\ (d \in open' => d \in open /\ ~Word(d, m))
      BY <1>1, <2>1, <2>2, <2>4 DEF Word
    <3> QED
      BY <2>1, <2>2, <3>1, VersionSend
  <2> QED
    BY <2>3, <2>4
<1>3. ASSUME NEW m \in MsgType(RequestKinds), requests' = Append(requests, m),
             UNCHANGED <<text, since, analysis, documents, published, pc, job>>,
             d \in open' => d \in open /\ ~Word(d, m)
      PROVE  Written(d)' /\ (d \in open' => Awaited(d)' \/ Served(d)')
  BY <1>3, VersionSend
<1>4. ASSUME NEW e \in Docs, DidSave(e) \/ SendRequest(e) \/ DidClose(e)
      PROVE  Written(d)' /\ (d \in open' => Awaited(d)' \/ Served(d)')
  <2>1. PICK m \in MsgType(RequestKinds) :
               /\ requests' = Append(requests, m) /\ m.doc = e
               /\ \/ m.kind \in {"didSave", "request"} /\ open' = open
                  \/ m.kind = "didClose" /\ open' = open \ {e}
    BY <1>1, <1>4 DEF DidSave, SendRequest, DidClose, Enqueue, Msg, MsgType, RequestKinds
  <2>2. UNCHANGED <<text, since, analysis, documents, published, pc, job>>
    BY <1>4 DEF DidSave, SendRequest, DidClose, worker
  <2>3. d \in open' => d \in open /\ ~Word(d, m)
    BY <2>1 DEF Word
  <2> QED
    BY <1>3, <2>1, <2>2, <2>3
<1>5. CASE DidChangeWatchedFiles
  <2>1. PICK m \in MsgType(RequestKinds) :
               /\ requests' = Append(requests, m) /\ m.kind = "watched"
    BY <1>5, LanguageServerAssumption
       DEF DidChangeWatchedFiles, Enqueue, Msg, MsgType, RequestKinds, AnyDoc
  <2>2. UNCHANGED <<open, text, since, analysis, documents, published, pc, job>>
    BY <1>5 DEF DidChangeWatchedFiles, worker
  <2> QED
    BY <1>3, <2>1, <2>2 DEF Word
<1>6. CASE UNCHANGED vars
  <2>1. Written(d) /\ (d \in open => Awaited(d) \/ Served(d))
    BY DEF VInv
  <2> QED
    BY <1>6, <2>1 DEF vars, Written, Awaited, Served, Reached, Silent, End
<1>7. CASE Worker
  BY <1>7, VersionRequest, VersionWork DEF Worker
<1> QED
  BY <1>2, <1>4, <1>5, <1>6, <1>7, VersionAnalysis DEF Next, Client

\* Nothing is open to begin with.
LEMMA VInvInit == Init => VInv
<1> SUFFICES ASSUME Init, NEW d \in Docs
             PROVE  Written(d) /\ (d \in open => Awaited(d) \/ Served(d))
  BY DEF VInv
<1>1. Len(analysis) = 0 /\ open = {} /\ pc = "drain" /\ since[d] = 0 /\ text[d] = 0
  BY EmptySeq DEF Init
<1> QED
  BY <1>1 DEF Written

\* publish_project_diagnostics: one document's analysis publishes every file, but an
\* editor that waits for what it is owed never sees an open document's diagnostics go
\* back to an older version.
THEOREM PatientEditorsSeeNothingOlder == ASSUME Patient PROVE Spec => NeverOlder
<1>1. ASSUME TInv, VInv, [Next]_vars, NEW d \in open \cap open',
             published[d].version >= since[d]
      PROVE  published'[d].version >= published[d].version
  <2>1. d \in Docs
    BY <1>1 DEF TInv, TypeOK
  <2>2. /\ published[d].version \in Nat \cup {None}
        /\ documents[d].version \in Nat \cup {None} /\ since[d] \in Nat
    BY <1>1, <2>1, Numbers, MoreNumbers
  <2>3. Served(d)
    BY <1>1, <2>1, <2>2 DEF VInv, Awaited
  <2>4. CASE ~Worker
    <3>1. published' = published
      BY <1>1, <2>4 DEF Next, Client, DidOpen, DidChange, DidSave, DidClose, SendRequest,
         DidChangeWatchedFiles, TimerFires, vars, worker
    <3> QED
      BY <2>2, <3>1
  <2>5. CASE Worker
    <3>1. d \in Present(documents)
      BY <2>1, <2>2, <2>3 DEF Served, Present, NoDoc
    <3>2. TakeRequest => ~Word(d, Head(requests))
      <4> SUFFICES ASSUME TakeRequest PROVE ~Word(d, Head(requests))
        OBVIOUS
      <4>1. requests \in Seq(MsgType(RequestKinds)) /\ requests # <<>>
        BY <1>1 DEF TInv, TypeOK, TakeRequest
      <4>2. Len(requests) \in Nat \ {0} /\ Head(requests) = requests[1]
        BY <4>1, Dequeued
      <4> QED
        BY <2>3, <4>2 DEF Served, Silent, End
    <3>3. /\ published'[d].version \in {published[d].version, documents'[d].version}
          /\ ~TakeUpdate => documents'[d].version = documents[d].version
      BY <1>1, <2>5, <3>1, <3>2, VersionsStay
    <3>4. CASE TakeUpdate
      BY <2>2, <3>4 DEF TakeUpdate
    <3>5. CASE ~TakeUpdate
      BY <2>2, <2>3, <3>3, <3>5 DEF Served
    <3> QED
      BY <3>4, <3>5
  <2> QED
    BY <2>4, <2>5
<1>2. TInv /\ VInv /\ [Next]_vars =>
        [\A d \in open \cap open' :
           published[d].version >= since[d]
             => published'[d].version >= published[d].version]_vars
  BY <1>1
<1>3. TInv /\ GInv /\ VInv /\ [Next]_vars => VInv'
  BY VInvNext
<1>4. TInv /\ GInv /\ [Next]_vars => GInv'
  BY GInvNext
<1> QED
  BY <1>2, <1>3, <1>4, TypeInit, TypeNext, GInvInit, VInvInit, PTL DEF Spec, NeverOlder

\* If a save brings no text along, the text of a document is the one of its version.
SInv ==
  /\ \A d \in Docs : documents[d].text = documents[d].version
  /\ \A i \in 1..Len(requests) : requests[i].kind = "didSave" => requests[i].text = None

\* Openings and new texts set both, and nothing else sets one.
LEMMA SInvNext == ASSUME ~IncludeText PROVE TInv /\ SInv /\ [Next]_vars => SInv'
<1> SUFFICES ASSUME TInv, SInv, [Next]_vars PROVE SInv'
  OBVIOUS
<1>1. /\ requests \in Seq(MsgType(RequestKinds)) /\ analysis \in Seq(MsgType(AnalysisKinds))
      /\ documents \in [Docs -> DocType] /\ text \in [Docs -> Nat]
  BY DEF TInv, TypeOK
<1>2. ASSUME NEW m \in MsgType(RequestKinds), requests' = Append(requests, m),
             m.kind = "didSave" => m.text = None, UNCHANGED documents
      PROVE  SInv'
  <2>1. /\ Len(requests) \in Nat /\ Len(requests') = Len(requests) + 1
        /\ \A i \in 1..Len(requests) : requests'[i] = requests[i]
        /\ requests'[Len(requests) + 1] = m
    BY <1>1, <1>2, Enqueued
  <2>2. ASSUME NEW i \in 1..Len(requests'), requests'[i].kind = "didSave"
        PROVE  requests'[i].text = None
    BY <1>2, <2>1, <2>2 DEF SInv
  <2> QED
    BY <1>2, <2>2 DEF SInv
<1>3. ASSUME NEW d \in Docs, DidOpen(d) \/ DidSave(d) \/ DidClose(d) \/ SendRequest(d)
      PROVE  SInv'
  <2>1. PICK m \in MsgType(RequestKinds) :
               requests' = Append(requests, m) /\ (m.kind = "didSave" => m.text = None)
    <3>1. CASE DidOpen(d)
      <4>1. text[d] + 1 \in Nat
        BY <1>1
      <4>2. PICK m \in MsgType(RequestKinds) : m = Msg("didOpen", d, text[d] + 1)
        BY <4>1 DEF Msg, MsgType, RequestKinds
      <4>3. requests' = Append(requests, m) /\ m.kind # "didSave"
        BY <3>1, <4>2 DEF DidOpen, Enqueue, Msg
      <4> QED
        BY <4>3
    <3>2. CASE DidSave(d)
      BY <1>1, <3>2 DEF DidSave, Enqueue, Msg, MsgType, RequestKinds
    <3>3. CASE DidClose(d) \/ SendRequest(d)
      BY <1>1, <3>3 DEF DidClose, SendRequest, Enqueue, Msg, MsgType, RequestKinds
    <3> QED
      BY <1>3, <3>1, <3>2, <3>3
  <2>2. UNCHANGED documents
    BY <1>3 DEF DidOpen, DidSave, DidClose, SendRequest, worker
  <2> QED
    BY <1>2, <2>1, <2>2
<1>11. CASE DidChangeWatchedFiles
  <2>1. PICK m \in MsgType(RequestKinds) :
               requests' = Append(requests, m) /\ m.kind = "watched"
    BY <1>11, LanguageServerAssumption
       DEF DidChangeWatchedFiles, Enqueue, Msg, MsgType, RequestKinds, AnyDoc
  <2>2. UNCHANGED documents
    BY <1>11 DEF DidChangeWatchedFiles, worker
  <2> QED
    BY <1>2, <2>1, <2>2
<1>4. CASE (\E d \in Docs : DidChange(d) \/ TimerFires(d)) \/ UNCHANGED vars
  BY <1>4 DEF DidChange, TimerFires, vars, client, worker, SInv
<1>5. ASSUME UNCHANGED requests, \A d \in Docs : documents'[d].text = documents'[d].version
      PROVE  SInv'
  BY <1>5 DEF SInv
<1>6. ASSUME NEW d \in Docs, documents[d] # NoDoc
      PROVE  Analyzed(d, documents[d]).text = Analyzed(d, documents[d]).version
  BY <1>1, <1>6, AnyDocument DEF Analyzed, SInv
<1>7. CASE Drained \/ TakeElaborate
  BY <1>5, <1>7 DEF Drained, TakeElaborate, queues, SInv
<1>8. CASE Elaborate
  <2>1. /\ UNCHANGED requests
        /\ documents' = IF job.doc \in Present(documents)
                        THEN [documents EXCEPT ![job.doc] = Analyzed(job.doc, @)]
                        ELSE documents
    BY <1>8 DEF Elaborate, AnalyzeDoc, Server, queues
  <2> QED
    BY <1>1, <1>5, <1>6, <2>1 DEF Present, SInv
<1>9. CASE TakeUpdate
  <2> DEFINE m == Head(analysis)
  <2>1. UNCHANGED requests /\ documents' = [documents EXCEPT ![m.doc] = Updated(m)]
    BY <1>9 DEF TakeUpdate, Store
  <2>2. m.doc \in Docs => Updated(m).text = Updated(m).version
    <3>1. Fresh(m.text).text = Fresh(m.text).version
      BY DEF Fresh, NoDoc
    <3>2. m.doc \in Present(documents) =>
            LET doc == [documents[m.doc] EXCEPT !.text = m.text, !.version = m.text]
            IN  doc.text = doc.version
      BY <1>1, AnyDocument DEF Present
    <3> QED
      BY <3>1, <3>2 DEF Updated
  <2> QED
    BY <1>1, <1>5, <2>1, <2>2 DEF SInv
<1>10. CASE TakeRequest
  <2> DEFINE m == Head(requests)
  <2>1. /\ requests # <<>> /\ requests' = Tail(requests) /\ Handle(m)
    BY <1>10 DEF TakeRequest
  <2>2. /\ Len(requests) \in Nat \ {0} /\ Len(requests') = Len(requests) - 1
        /\ m = requests[1] /\ m \in MsgType(RequestKinds)
        /\ \A i \in 1..Len(requests') : requests'[i] = requests[i + 1]
        /\ \A i \in 1..Len(requests') : i + 1 \in 1..Len(requests)
        /\ 1 \in 1..Len(requests)
    BY <1>1, <2>1, Dequeued
  <2>3. \A i \in 1..Len(requests') : requests'[i].kind = "didSave" => requests'[i].text = None
    BY <2>2 DEF SInv
  <2>4. ASSUME NEW d \in Docs PROVE documents'[d].text = documents'[d].version
    <3>1. CASE m.kind = "didOpen"
      <4>1. Fresh(m.text).text = Fresh(m.text).version
        BY DEF Fresh, NoDoc
      <4>2. documents' = [documents EXCEPT ![m.doc] = Fresh(m.text)]
        BY <2>1, <3>1 DEF Handle, Store
      <4> QED
        BY <1>1, <4>1, <4>2 DEF SInv
    <3>2. CASE m.kind = "didSave"
      <4>1. Saved(m, documents[m.doc]) = documents[m.doc]
        BY <2>2, <3>2 DEF Saved, SInv
      <4> QED
        BY <1>1, <2>1, <3>2, <4>1 DEF Handle, Store, SInv
    <3>3. CASE m.kind = "didClose"
      <4>1. NoDoc.text = NoDoc.version
        BY DEF NoDoc
      <4> QED
        BY <1>1, <2>1, <3>3, <4>1 DEF Handle, Store, SInv
    <3>4. CASE m.kind = "watched"
      <4>1. documents' = [e \in Docs |-> IF e \in Present(documents)
                                         THEN Analyzed(e, documents[e]) ELSE NoDoc]
        BY <2>1, <3>4 DEF Handle
      <4>2. NoDoc.text = NoDoc.version
        BY DEF NoDoc
      <4> QED
        BY <1>6, <4>1, <4>2 DEF Present
    <3>5. CASE m.kind = "request"
      BY <2>1, <3>5 DEF Handle, SInv
    <3> QED
      BY <2>2, <3>1, <3>2, <3>3, <3>4, <3>5 DEF MsgType, RequestKinds
  <2> QED
    BY <2>3, <2>4 DEF SInv
<1> QED
  BY <1>3, <1>4, <1>7, <1>8, <1>9, <1>10, <1>11 DEF Next, Client, Worker

\* ReadyToElaborate and the debounce: with an editor that waits for what it is owed and
\* saves that bring no text along, as the capabilities ask for, the analysis of an open
\* document that a deadline ordered is of the text the editor had then or a newer one.
THEOREM DeadlinesAnalyseTheirText ==
  ASSUME Patient, ~IncludeText PROVE Spec => AnalysesWhatTriggered
<1>1. ASSUME TInv, VInv, SInv, [Next]_vars, pc = "job", pc' = "drain", job.doc \in open
      PROVE  documents'[job.doc].errors >= job.text
  <2>1. Elaborate
    BY <1>1 DEF Next, Client, DidOpen, DidChange, DidSave, DidClose, SendRequest,
       DidChangeWatchedFiles, TimerFires, vars, worker, Worker, TakeRequest, Drained,
       TakeUpdate, TakeElaborate
  <2>2. job.doc \in Docs /\ documents \in [Docs -> DocType]
    BY <1>1 DEF TInv, TypeOK
  <2>3. PICK d \in Docs : d = job.doc
    BY <2>2
  <2>4. Len(requests) = 0
    BY <2>1, EmptySeq DEF Elaborate, ReadyToElaborate
  <2>5. Served(d)
    BY <1>1, <2>3, <2>4 DEF VInv, Awaited
  <2>6. documents[d].version >= job.text /\ since[d] <= documents[d].version
    BY <1>1, <2>3, <2>5 DEF Served
  <2>7. documents[d] # NoDoc
    BY <1>1, <2>3, <2>6, Numbers, MoreNumbers DEF NoDoc
  <2>8. documents'[d] = Analyzed(d, documents[d])
    BY <2>1, <2>2, <2>3, <2>7 DEF Elaborate, AnalyzeDoc, Server, Present
  <2>9. Analyzed(d, documents[d]).errors = documents[d].text
    BY <2>2, <2>3, <2>7, AnyDocument DEF Analyzed
  <2> QED
    BY <1>1, <2>3, <2>6, <2>8, <2>9 DEF SInv
<1>2. TInv /\ VInv /\ SInv /\ [Next]_vars =>
        [pc = "job" /\ pc' = "drain" /\ job.doc \in open /\ since[job.doc] <= job.text
           => documents'[job.doc].errors >= job.text]_vars
  BY <1>1
<1>3. Init => SInv
  <2>1. ASSUME Init PROVE SInv
    <3>1. Len(requests) = 0
      BY <2>1, EmptySeq DEF Init
    <3> QED
      BY <2>1, <3>1 DEF Init, SInv, NoDoc
  <2> QED
    BY <2>1
<1>4. TInv /\ GInv /\ VInv /\ [Next]_vars => VInv'
  BY VInvNext
<1>5. TInv /\ GInv /\ [Next]_vars => GInv'
  BY GInvNext
<1>6. TInv /\ SInv /\ [Next]_vars => SInv'
  BY SInvNext
<1> QED
  BY <1>2, <1>3, <1>4, <1>5, <1>6, TypeInit, TypeNext, GInvInit, VInvInit, PTL
  DEF Spec, AnalysesWhatTriggered
-------------------------------------------------------------------------------
(* Answers. The text a request was sent with is the worker's by the time the      *)
(* request comes up, or waits in the other queue.                                 *)

Waits(d, t) == \E i \in 1..Len(analysis) : Update(d, analysis[i]) /\ analysis[i].text = t

\* The worker has the text t of d or a newer one, or it waits, or the opening that
\* brings it comes before the i-th message.
Asked(d, i, t) ==
  \/ Silent(d, i) /\ (documents[d].version >= t \/ Waits(d, t))
  \/ \E j \in 1..(i - 1) :
       /\ Opening(d, requests[j]) /\ requests[j].text >= t
       /\ \A h \in (j + 1)..(i - 1) : ~Word(d, requests[h])

AInv == \A i \in 1..Len(requests) : requests[i].kind = "request" =>
          /\ requests[i].doc \in Docs /\ requests[i].text \in Nat
          /\ Asked(requests[i].doc, i, requests[i].text)

\* A message at the end of the request channel changes nothing for those before it.
LEMMA AskedSend ==
  ASSUME TInv, AInv, NEW m \in MsgType(RequestKinds), requests' = Append(requests, m),
         UNCHANGED <<analysis, documents>>,
         m.kind = "request" => m.text \in Nat /\ Asked(m.doc, End, m.text)
  PROVE  AInv'
<1>1. /\ Len(requests) \in Nat /\ End = Len(requests) + 1 /\ Len(requests') = Len(requests) + 1
      /\ \A i \in 1..Len(requests) : requests'[i] = requests[i]
      /\ requests'[End] = m
  BY AppendShape, Enqueued DEF TInv, TypeOK
<1>2. ASSUME NEW d, NEW t, NEW i \in 1..End, Asked(d, i, t)
      PROVE  Asked(d, i, t)'
  <2>1. \A j \in 1..(i - 1) : j \in 1..Len(requests) /\ requests'[j] = requests[j]
    BY <1>1
  <2>2. Silent(d, i) => Silent(d, i)'
    BY <2>1 DEF Silent
  <2>3. CASE Silent(d, i) /\ (documents[d].version >= t \/ Waits(d, t))
    BY <2>2, <2>3 DEF Asked, Waits
  <2>4. CASE \E j \in 1..(i - 1) :
               /\ Opening(d, requests[j]) /\ requests[j].text >= t
               /\ \A h \in (j + 1)..(i - 1) : ~Word(d, requests[h])
    <3>1. PICK j \in 1..(i - 1) :
             /\ Opening(d, requests[j]) /\ requests[j].text >= t
             /\ \A h \in (j + 1)..(i - 1) : ~Word(d, requests[h])
      BY <2>4
    <3>2. \A h \in (j + 1)..(i - 1) : h \in 1..(i - 1)
      BY <1>1, <3>1
    <3> QED
      BY <2>1, <3>1, <3>2 DEF Asked
  <2> QED
    BY <1>2, <2>3, <2>4 DEF Asked
<1>3. ASSUME NEW i \in 1..Len(requests'), requests'[i].kind = "request"
      PROVE  /\ requests'[i].doc \in Docs /\ requests'[i].text \in Nat
             /\ Asked(requests'[i].doc, i, requests'[i].text)
  <2>1. CASE i = End
    BY <1>1, <1>3, <2>1 DEF MsgType
  <2>2. CASE i # End
    <3>1. i \in 1..Len(requests)
      BY <1>1, <2>2
    <3> QED
      BY <1>1, <1>3, <3>1 DEF AInv
  <2> QED
    BY <2>1, <2>2
<1>4. ASSUME NEW i \in 1..Len(requests'), requests'[i].kind = "request"
      PROVE  Asked(requests[i].doc, i, requests[i].text)'
  <2>1. PICK d, t : d = requests'[i].doc /\ t = requests'[i].text
    OBVIOUS
  <2>2. Asked(d, i, t)'
    BY <1>1, <1>2, <1>3, <1>4, <2>1
  <2> QED
    BY <2>1, <2>2
<1> QED
  BY <1>3, <1>4 DEF AInv

\* An open document is asked about with the text the editor shows.
LEMMA AskedNow ==
  ASSUME TInv, GInv, VInv, NEW d \in open
  PROVE  text[d] \in Nat /\ Asked(d, End, text[d])
<1>1. /\ d \in Docs /\ text[d] \in Nat /\ since[d] \in Nat /\ Len(requests) \in Nat
      /\ Len(analysis) \in Nat /\ documents[d].version \in Nat \cup {None}
      /\ \A i \in 1..Len(requests) : Opening(d, requests[i]) => requests[i].text \in Nat
      /\ \A i \in 1..Len(analysis) : Update(d, analysis[i]) => analysis[i].text \in Nat
  BY Numbers, MoreNumbers DEF TInv, TypeOK
<1>2. CASE Awaited(d)
  <2>1. PICK i \in 1..Len(requests) :
          /\ Opening(d, requests[i]) /\ requests[i].text = since[d]
          /\ \A j \in (i + 1)..Len(requests) : ~Word(d, requests[j])
    BY <1>2 DEF Awaited
  <2>2. text[d] = since[d] /\ End - 1 = Len(requests)
    BY <1>1, <1>2 DEF Awaited, End
  <2> QED
    BY <1>1, <2>1, <2>2 DEF Asked
<1>3. CASE Served(d)
  <2>1. Silent(d, End) /\ Reached(d, Len(analysis) + 1, text[d])
    BY <1>3 DEF Served
  <2>2. CASE documents[d].version >= text[d]
    BY <1>1, <2>1, <2>2 DEF Asked
  <2>3. CASE \E j \in 1..Len(analysis) : Update(d, analysis[j]) /\ analysis[j].text >= text[d]
    <3>1. PICK j \in 1..Len(analysis) : Update(d, analysis[j]) /\ analysis[j].text >= text[d]
      BY <2>3
    <3>2. analysis[j].text <= text[d]
      BY <1>1, <3>1 DEF GInv, InOrder
    <3>3. Waits(d, text[d])
      BY <1>1, <3>1, <3>2 DEF Waits
    <3> QED
      BY <1>1, <2>1, <3>3 DEF Asked
  <2> QED
    BY <1>1, <2>1, <2>2, <2>3 DEF Reached
<1> QED
  BY <1>1, <1>2, <1>3 DEF VInv

\* The editor and the timers.
LEMMA AskedClient ==
  ASSUME TInv, GInv, VInv, AInv, Client \/ (\E d \in Docs : TimerFires(d)) \/ UNCHANGED vars
  PROVE  AInv'
<1>1. /\ text \in [Docs -> Nat] /\ analysis \in Seq(MsgType(AnalysisKinds)) /\ open \subseteq Docs
  BY DEF TInv, TypeOK
<1>2. ASSUME NEW d \in Docs, DidOpen(d) \/ DidSave(d) \/ DidClose(d) \/ SendRequest(d)
      PROVE  AInv'
  <2>1. text[d] + 1 \in Nat /\ text[d] \in Nat
    BY <1>1
  <2>2. /\ UNCHANGED <<analysis, documents>>
        /\ \E m \in MsgType(RequestKinds) :
             /\ requests' = Append(requests, m)
             /\ m.kind = "request" => d \in open /\ m.doc = d /\ m.text = text[d]
    BY <1>1, <1>2, <2>1 DEF DidOpen, DidSave, DidClose, SendRequest, worker,
       Enqueue, Msg, MsgType, RequestKinds
  <2> QED
    BY <2>2, AskedNow, AskedSend
<1>3. CASE DidChangeWatchedFiles
  <2>1. PICK m \in MsgType(RequestKinds) :
               requests' = Append(requests, m) /\ m.kind = "watched"
    BY <1>3, LanguageServerAssumption
       DEF DidChangeWatchedFiles, Enqueue, Msg, MsgType, RequestKinds, AnyDoc
  <2>2. UNCHANGED <<analysis, documents>>
    BY <1>3 DEF DidChangeWatchedFiles, worker
  <2> QED
    BY <2>1, <2>2, AskedSend
<1>4. ASSUME NEW d \in Docs, DidChange(d) \/ TimerFires(d) PROVE AInv'
  <2>1. UNCHANGED <<requests, documents>>
    BY <1>4 DEF DidChange, TimerFires, worker, client
  <2>2. PICK m \in MsgType(AnalysisKinds) : analysis' = Append(analysis, m)
    <3>1. text[d] + 1 \in Nat /\ text[d] \in Nat
      BY <1>1
    <3> QED
      BY <1>4, <3>1 DEF DidChange, TimerFires, Msg, MsgType, AnalysisKinds
  <2>3. /\ Len(analysis) \in Nat /\ Len(analysis') = Len(analysis) + 1
        /\ \A i \in 1..Len(analysis) : analysis'[i] = analysis[i]
    BY <1>1, <2>2, Enqueued
  <2>4. ASSUME NEW c, NEW t, Waits(c, t) PROVE Waits(c, t)'
    <3>1. PICK i \in 1..Len(analysis) : Update(c, analysis[i]) /\ analysis[i].text = t
      BY <2>4 DEF Waits
    <3>2. i \in 1..Len(analysis') /\ analysis'[i] = analysis[i]
      BY <2>3, <3>1
    <3> QED
      BY <3>1, <3>2 DEF Waits
  <2>5. ASSUME NEW c, NEW t, NEW i, Asked(c, i, t) PROVE Asked(c, i, t)'
    BY <2>1, <2>4, <2>5 DEF Asked, Silent
  <2> QED
    BY <2>1, <2>5 DEF AInv
<1>5. CASE UNCHANGED vars
  BY <1>5 DEF vars, AInv, Asked, Silent, Waits
<1> QED
  BY <1>2, <1>3, <1>4, <1>5 DEF Client

\* The worker keeps a text, or takes one that waits.
LEMMA AskedVersions ==
  ASSUME TInv, GInv, Worker, NEW d \in Docs, NEW t \in Nat,
         TakeRequest => ~Word(d, Head(requests)),
         documents[d].version >= t \/ Waits(d, t)
  PROVE  documents'[d].version >= t \/ Waits(d, t)'
<1>1. /\ documents \in [Docs -> DocType] /\ analysis \in Seq(MsgType(AnalysisKinds))
      /\ documents[d].version \in Nat \cup {None}
      /\ \A i \in 1..Len(analysis) : Update(d, analysis[i]) => analysis[i].text \in Nat
  BY Numbers DEF TInv, TypeOK
<1>2. CASE ~TakeUpdate
  <2>1. CASE documents[d].version >= t
    <3>1. d \in Present(documents)
      BY <1>1, <2>1 DEF Present, NoDoc, None
    <3>2. documents'[d].version = documents[d].version
      BY <1>2, <3>1, VersionsStay
    <3> QED
      BY <2>1, <3>2
  <2>2. CASE Waits(d, t)
    <3>1. CASE analysis' = analysis
      BY <2>2, <3>1 DEF Waits
    <3>2. CASE TakeElaborate
      <4>1. /\ analysis # <<>> /\ Head(analysis).kind = "Elaborate" /\ analysis' = Tail(analysis)
        BY <3>2 DEF TakeElaborate
      <4>2. /\ Len(analysis) \in Nat \ {0} /\ Head(analysis) = analysis[1]
            /\ Len(analysis') = Len(analysis) - 1
            /\ \A i \in 1..Len(analysis') : analysis'[i] = analysis[i + 1]
        BY <1>1, <4>1, Dequeued
      <4>3. PICK i \in 1..Len(analysis) : Update(d, analysis[i]) /\ analysis[i].text = t
        BY <2>2 DEF Waits
      <4>4. i # 1
        BY <4>1, <4>2, <4>3 DEF Update
      <4>5. i - 1 \in 1..Len(analysis') /\ analysis'[i - 1] = analysis[i]
        BY <4>2, <4>3, <4>4
      <4> QED
        BY <4>3, <4>5 DEF Waits
    <3> QED
      BY <1>2, <3>1, <3>2 DEF Worker, TakeRequest, Drained, Elaborate, queues
  <2> QED
    BY <2>1, <2>2, <1>2
<1>3. CASE TakeUpdate
  <2> DEFINE m == Head(analysis)
  <2>1. /\ analysis # <<>> /\ m.kind = "UpdateSource" /\ analysis' = Tail(analysis)
        /\ documents' = [documents EXCEPT ![m.doc] = Updated(m)]
    BY <1>3 DEF TakeUpdate, Store
  <2>2. /\ Len(analysis) \in Nat \ {0} /\ m = analysis[1] /\ m \in MsgType(AnalysisKinds)
        /\ Len(analysis') = Len(analysis) - 1
        /\ \A i \in 1..Len(analysis') : analysis'[i] = analysis[i + 1]
    BY <1>1, <2>1, Dequeued
  <2>3. CASE m.doc = d
    <3>1. Update(d, analysis[1]) /\ m.text \in Nat /\ 1 \in 1..Len(analysis)
      BY <1>1, <2>1, <2>2, <2>3 DEF Update
    <3>2. documents'[d].version = m.text
      <4>1. Updated(m).version = m.text
        <5>1. Fresh(m.text).version = m.text
          BY DEF Fresh, NoDoc
        <5>2. d \in Present(documents) =>
                [documents[d] EXCEPT !.text = m.text, !.version = m.text].version = m.text
          BY <1>1, AnyDocument DEF Present
        <5> QED
          BY <2>3, <5>1, <5>2 DEF Updated
      <4> QED
        BY <1>1, <2>1, <2>3, <4>1
    <3>3. documents[d].version < m.text
      BY <2>2, <3>1 DEF GInv, InOrder
    <3>4. CASE documents[d].version >= t
      BY <1>1, <3>1, <3>2, <3>3, <3>4
    <3>5. CASE Waits(d, t)
      <4>1. PICK i \in 1..Len(analysis) : Update(d, analysis[i]) /\ analysis[i].text = t
        BY <3>5 DEF Waits
      <4>2. CASE i = 1
        BY <2>2, <3>1, <3>2, <4>1, <4>2
      <4>3. CASE i # 1
        <5>1. i - 1 \in 1..Len(analysis') /\ analysis'[i - 1] = analysis[i]
          BY <2>2, <4>1, <4>3
        <5> QED
          BY <4>1, <5>1 DEF Waits
      <4> QED
        BY <4>2, <4>3
    <3> QED
      BY <3>4, <3>5
  <2>4. CASE m.doc # d
    <3>1. documents'[d] = documents[d]
      BY <1>1, <2>1, <2>4
    <3>2. CASE Waits(d, t)
      <4>1. PICK i \in 1..Len(analysis) : Update(d, analysis[i]) /\ analysis[i].text = t
        BY <3>2 DEF Waits
      <4>2. i # 1
        BY <2>2, <2>4, <4>1 DEF Update
      <4>3. i - 1 \in 1..Len(analysis') /\ analysis'[i - 1] = analysis[i]
        BY <2>2, <4>1, <4>2
      <4> QED
        BY <4>1, <4>3 DEF Waits
    <3> QED
      BY <3>1, <3>2
  <2> QED
    BY <2>3, <2>4
<1> QED
  BY <1>2, <1>3

\* So do its steps for every request that waits for an answer.
LEMMA AskedWorker ==
  ASSUME TInv, GInv, AInv, Worker
  PROVE  AInv'
<1>1. /\ requests \in Seq(MsgType(RequestKinds)) /\ documents \in [Docs -> DocType]
  BY DEF TInv, TypeOK
<1>2. CASE ~TakeRequest
  <2>1. requests' = requests
    BY <1>2 DEF Worker, Drained, TakeUpdate, TakeElaborate, Elaborate, queues
  <2>2. ASSUME NEW d \in Docs, NEW t \in Nat, NEW i, Asked(d, i, t) PROVE Asked(d, i, t)'
    <3>1. CASE Silent(d, i) /\ (documents[d].version >= t \/ Waits(d, t))
      <4>1. documents'[d].version >= t \/ Waits(d, t)'
        BY <1>2, <3>1, AskedVersions
      <4> QED
        BY <2>1, <3>1, <4>1 DEF Asked, Silent
    <3>2. CASE \E j \in 1..(i - 1) :
                 /\ Opening(d, requests[j]) /\ requests[j].text >= t
                 /\ \A h \in (j + 1)..(i - 1) : ~Word(d, requests[h])
      BY <2>1, <3>2 DEF Asked
    <3> QED
      BY <2>2, <3>1, <3>2 DEF Asked
  <2>3. ASSUME NEW i \in 1..Len(requests'), requests'[i].kind = "request"
        PROVE  /\ requests'[i].doc \in Docs /\ requests'[i].text \in Nat
               /\ Asked(requests[i].doc, i, requests[i].text)'
    <3>1. PICK d \in Docs, t \in Nat :
            d = requests[i].doc /\ t = requests[i].text /\ Asked(d, i, t)
      BY <2>1, <2>3 DEF AInv
    <3>2. Asked(d, i, t)'
      BY <2>2, <3>1
    <3> QED
      BY <2>1, <3>1, <3>2
  <2> QED
    BY <2>3 DEF AInv
<1>3. CASE TakeRequest
  <2> DEFINE m == Head(requests)
  <2>1. requests # <<>> /\ requests' = Tail(requests) /\ Handle(m)
    BY <1>3 DEF TakeRequest
  <2>2. /\ Len(requests) \in Nat \ {0} /\ Len(requests') = Len(requests) - 1
        /\ m = requests[1] /\ m \in MsgType(RequestKinds)
        /\ \A i \in 1..Len(requests') : requests'[i] = requests[i + 1]
    BY <1>1, <2>1, Dequeued
  <2>3. ASSUME NEW d \in Docs, NEW t \in Nat, NEW i \in 1..Len(requests'), Asked(d, i + 1, t)
        PROVE  Asked(d, i, t)'
    <3>1. CASE Silent(d, i + 1) /\ (documents[d].version >= t \/ Waits(d, t))
      <4>1. Silent(d, i)' /\ ~Word(d, m)
        BY <1>1, <2>1, <2>2, <3>1, TailKeeps
      <4>2. documents'[d].version >= t \/ Waits(d, t)'
        BY <3>1, <4>1, AskedVersions
      <4> QED
        BY <4>1, <4>2 DEF Asked
    <3>2. ASSUME NEW j \in 1..i,
                 Opening(d, requests[j]), requests[j].text >= t,
                 \A h \in (j + 1)..i : ~Word(d, requests[h])
          PROVE  Asked(d, i, t)'
      <4>1. \A h \in 1..(i - 1) : h + 1 \in 1..i /\ requests'[h] = requests[h + 1]
        BY <2>2
      <4>2. CASE j = 1
        <5>1. documents' = [documents EXCEPT ![d] = Fresh(m.text)]
          BY <2>1, <2>2, <3>2, <4>2 DEF Opening, Handle, Store
        <5>2. documents'[d].version = m.text
          BY <1>1, <5>1 DEF Fresh, NoDoc
        <5>3. ASSUME NEW h \in 1..(i - 1) PROVE ~Word(d, requests'[h])
          <6>1. h + 1 \in (j + 1)..i
            BY <2>2, <4>2
          <6> QED
            BY <3>2, <4>1, <6>1
        <5>4. Silent(d, i)'
          BY <5>3 DEF Silent
        <5> QED
          BY <2>2, <3>2, <4>2, <5>2, <5>4 DEF Asked
      <4>3. CASE j # 1
        <5>1. j - 1 \in 1..(i - 1) /\ requests'[j - 1] = requests[j]
          BY <2>2, <4>3
        <5>2. ASSUME NEW h \in ((j - 1) + 1)..(i - 1) PROVE ~Word(d, requests'[h])
          <6>1. h \in 1..(i - 1) /\ h + 1 \in (j + 1)..i
            BY <2>2, <4>3
          <6> QED
            BY <3>2, <4>1, <6>1
        <5> QED
          BY <3>2, <5>1, <5>2 DEF Asked
      <4> QED
        BY <4>2, <4>3
    <3>3. (i + 1) - 1 = i
      BY <2>2
    <3> QED
      BY <2>3, <3>1, <3>2, <3>3 DEF Asked
  <2>4. ASSUME NEW i \in 1..Len(requests'), requests'[i].kind = "request"
        PROVE  /\ requests'[i].doc \in Docs /\ requests'[i].text \in Nat
               /\ Asked(requests[i].doc, i, requests[i].text)'
    <3>1. i + 1 \in 1..Len(requests) /\ requests'[i] = requests[i + 1]
      BY <2>2
    <3>2. PICK d \in Docs, t \in Nat :
            d = requests'[i].doc /\ t = requests'[i].text /\ Asked(d, i + 1, t)
      BY <2>4, <3>1 DEF AInv
    <3>3. Asked(d, i, t)'
      BY <2>3, <3>2
    <3> QED
      BY <3>2, <3>3
  <2> QED
    BY <2>4 DEF AInv
<1> QED
  BY <1>2, <1>3

\* The two queues of the server: with an editor that waits for what it is owed, whose
\* saves bring no text, an answer is of the text the editor showed when it asked or a
\* newer one, or the edit that made that text still waits in the analysis queue; a
\* request overtakes edits, and none is lost.
THEOREM AnswersLoseNoEdit ==
  ASSUME Patient, ~IncludeText PROVE Spec => AnswersMissNoEdit
<1>1. ASSUME TInv, SInv, AInv, Answering
      PROVE  LET m == Head(requests)
             IN  \/ documents[m.doc].text >= m.text
                 \/ \E i \in 1..Len(analysis) :
                      analysis[i] = Msg("UpdateSource", m.doc, m.text)
  <2>1. /\ requests # <<>> /\ requests \in Seq(MsgType(RequestKinds))
        /\ analysis \in Seq(MsgType(AnalysisKinds))
    BY <1>1 DEF Answering, TInv, TypeOK
  <2>2. PICK m : m = Head(requests) /\ m = requests[1] /\ 1 \in 1..Len(requests)
    BY <2>1, Dequeued
  <2>3. m.kind = "request" /\ m.doc \in Docs /\ Asked(m.doc, 1, m.text)
    BY <1>1, <2>2 DEF Answering, AInv
  <2>4. documents[m.doc].version >= m.text \/ Waits(m.doc, m.text)
    BY <2>3 DEF Asked
  <2>5. CASE documents[m.doc].version >= m.text
    BY <1>1, <2>2, <2>3, <2>5 DEF SInv
  <2>6. CASE Waits(m.doc, m.text)
    <3>1. PICK i \in 1..Len(analysis) :
            Update(m.doc, analysis[i]) /\ analysis[i].text = m.text
      BY <2>6 DEF Waits
    <3>2. analysis[i] \in MsgType(AnalysisKinds)
      BY <2>1, <3>1, ElementOfSeq
    <3>3. analysis[i] = Msg("UpdateSource", m.doc, m.text)
      BY <3>1, <3>2 DEF Update, Msg, MsgType
    <3> QED
      BY <2>2, <3>1, <3>3
  <2> QED
    BY <2>4, <2>5, <2>6
<1>2. TInv /\ SInv /\ AInv /\ [Next]_vars =>
        [Answering =>
           LET m == Head(requests)
           IN  \/ documents[m.doc].text >= m.text
               \/ \E i \in 1..Len(analysis) :
                    analysis[i] = Msg("UpdateSource", m.doc, m.text)]_vars
  BY <1>1
<1>3. Init => SInv /\ AInv
  <2>1. ASSUME Init PROVE SInv /\ AInv
    <3>1. Len(requests) = 0
      BY <2>1, EmptySeq DEF Init
    <3> QED
      BY <2>1, <3>1 DEF Init, SInv, AInv, NoDoc
  <2> QED
    BY <2>1
<1>4. TInv /\ GInv /\ VInv /\ [Next]_vars => VInv'
  BY VInvNext
<1>5. TInv /\ GInv /\ [Next]_vars => GInv'
  BY GInvNext
<1>6. TInv /\ SInv /\ [Next]_vars => SInv'
  BY SInvNext
<1>7. TInv /\ GInv /\ VInv /\ AInv /\ [Next]_vars => AInv'
  BY AskedClient, AskedWorker DEF Next
<1> QED
  BY <1>2, <1>3, <1>4, <1>5, <1>6, <1>7, TypeInit, TypeNext, GInvInit, VInvInit, PTL
  DEF Spec, AnswersMissNoEdit
-------------------------------------------------------------------------------
(* What the editor is owed: diagnostics of its last text. A document's deadline  *)
(* is running, its analysis is ordered and sees that text, or the editor has them. *)

\* No text of d is behind the i-th analysis message.
NoneBehind(d, i) == \A j \in (i + 1)..Len(analysis) : ~Update(d, analysis[j])

\* The worker analysed its text, and showed it if the project unit knows the file.
Told(d) ==
  /\ Silent(d, End) /\ NoneBehind(d, 0)
  /\ documents[d].version = text[d] /\ documents[d].errors = text[d]
  /\ d \in ProjectDocs => unit # NoUnit
  /\ Known(d) => Current(d)

Owed(d) ==
  \/ d \in pending
  \/ \E i \in 1..Len(analysis) : Ordered(d, analysis[i]) /\ NoneBehind(d, i)
  \/ pc = "job" /\ job.doc = d /\ NoneBehind(d, 0)
  \/ Told(d)

MInv == \A d \in open : Owed(d)

\* A publication leaves the report of a document the worker holds, or makes it anew.
LEMMA PublishOwn ==
  ASSUME NEW s, NEW a \in Docs, NEW p \in [Docs -> ReportType], NEW d \in Docs,
         d \in Present(s.docs)
  PROVE  Publish(s, a, p)[d] \in {p[d], OwnReport(s.docs[d])}
BY DEF Publish

\* The project unit is built once.
LEMMA BuiltOnce == ASSUME unit # NoUnit PROVE Built(unit) = unit
BY DEF Built

\* What the worker does to a document nobody opens, closes or sends a text of.
LEMMA ReportsStay ==
  ASSUME TInv, SInv, Worker, NEW d \in Present(documents),
         TakeRequest => ~Word(d, Head(requests)),
         TakeUpdate => ~Update(d, Head(analysis))
  PROVE  /\ documents'[d] \in {documents[d], Analyzed(d, documents[d])}
         /\ published'[d] \in {published[d], OwnReport(documents'[d])}
         /\ unit' \in {unit, Built(unit)}
<1>1. /\ documents \in [Docs -> DocType] /\ published \in [Docs -> ReportType]
      /\ requests \in Seq(MsgType(RequestKinds)) /\ job.doc \in Docs
      /\ d \in Docs /\ documents[d] \in DocType \ {NoDoc}
  BY DEF TInv, TypeOK, MsgType, Present
<1>2. Analyzed(d, documents[d]) # NoDoc
  BY <1>1, DocumentTypes
<1>3. CASE Drained \/ TakeElaborate
  BY <1>3 DEF Drained, TakeElaborate
<1>4. CASE TakeUpdate
  BY <1>1, <1>4 DEF TakeUpdate, Update, Store
<1>5. CASE Elaborate
  <2> DEFINE s == AnalyzeDoc(Server, job.doc)
  <2>1. documents' = s.docs /\ published' = Publish(s, job.doc, published) /\ unit' = s.unit
    BY <1>5 DEF Elaborate
  <2>2. /\ s.docs[d] \in {documents[d], Analyzed(d, documents[d])} /\ d \in Present(s.docs)
        /\ s.unit \in {unit, Built(unit)}
    BY <1>1, <1>2 DEF AnalyzeDoc, Server, Present
  <2> HIDE DEF s
  <2>3. Publish(s, job.doc, published)[d] \in {published[d], OwnReport(s.docs[d])}
    BY <1>1, <2>2, PublishOwn
  <2> QED
    BY <2>1, <2>2, <2>3
<1>6. CASE TakeRequest
  <2> DEFINE m == Head(requests)
  <2>1. /\ m \in MsgType(RequestKinds) /\ Handle(m) /\ ~Word(d, m)
        /\ m.kind = "didSave" => m.text = None
    <3>1. m \in MsgType(RequestKinds) /\ m = requests[1] /\ 1 \in 1..Len(requests)
      BY <1>1, <1>6, Dequeued DEF TakeRequest
    <3> QED
      BY <1>6, <3>1 DEF TakeRequest, SInv
  <2>2. CASE m.kind \in {"didOpen", "didClose", "request"}
    BY <1>1, <2>1, <2>2 DEF Handle, Store, Word
  <2>3. CASE m.kind = "didSave"
    <3>1. Saved(m, documents[m.doc]) = documents[m.doc]
      BY <2>1, <2>3 DEF Saved
    <3> QED
      BY <1>1, <2>1, <2>3, <3>1 DEF Handle, Store
  <2>4. CASE m.kind = "watched"
    <3> DEFINE ds == [e \in Docs |-> IF e \in Present(documents)
                                     THEN Analyzed(e, documents[e]) ELSE NoDoc]
               s  == [docs |-> ds, unit |-> IF Present(documents) \cap ProjectDocs = {}
                                            THEN unit ELSE Built(unit)]
               a  == CHOOSE e \in Present(ds) \cap ProjectDocs : TRUE
    <3>1. /\ documents' = ds /\ unit' = s.unit
          /\ published' = [e \in Docs |->
               IF e \in Present(ds) /\ ~ds[e].root THEN OwnReport(ds[e])
               ELSE IF Present(ds) \cap ProjectDocs = {} THEN published[e]
               ELSE Publish(s, a, published)[e]]
      BY <2>1, <2>4 DEF Handle
    <3>2. ds[d] = Analyzed(d, documents[d]) /\ d \in Present(ds) /\ s.docs = ds
      BY <1>1, <1>2 DEF Present
    <3>3. s.unit \in {unit, Built(unit)}
      OBVIOUS
    <3> HIDE DEF ds, s
    <3>4. Present(ds) \cap ProjectDocs # {} => a \in Docs
      BY DEF Present
    <3> HIDE DEF a
    <3>5. a \in Docs => Publish(s, a, published)[d] \in {published[d], OwnReport(ds[d])}
      BY <1>1, <3>2, PublishOwn
    <3> QED
      BY <1>1, <3>1, <3>2, <3>3, <3>4, <3>5
  <2> QED
    BY <2>1, <2>2, <2>3, <2>4 DEF MsgType, RequestKinds
<1> QED
  BY <1>3, <1>4, <1>5, <1>6 DEF Worker

\* A document held whose text is the one of its version reports that text once analysed.
LEMMA AnalyzedReport ==
  ASSUME NEW d \in Docs, NEW doc \in DocType \ {NoDoc}, NEW t, doc.version = t, doc.text = t
  PROVE  /\ Analyzed(d, doc).version = t /\ Analyzed(d, doc).errors = t
         /\ Analyzed(d, doc).root = (d \in ProjectDocs)
         /\ OwnReport(Analyzed(d, doc)) = [version |-> t, errors |-> t, against |-> t]
         /\ doc.errors = t => OwnReport(doc) = [version |-> t, errors |-> t, against |-> t]
BY AnyDocument DEF Analyzed, OwnReport

\* What the editor was told stays so, whatever the worker does for other documents.
LEMMA ToldStays ==
  ASSUME TInv, SInv, Worker, NEW d \in Docs, Told(d)
  PROVE  Told(d)'
<1>1. /\ requests \in Seq(MsgType(RequestKinds)) /\ analysis \in Seq(MsgType(AnalysisKinds))
      /\ documents \in [Docs -> DocType] /\ text[d] \in Nat
      /\ documents[d].text = documents[d].version
  BY DEF TInv, TypeOK, SInv
<1>2. /\ documents[d].version = text[d] /\ documents[d].errors = text[d]
      /\ Silent(d, End) /\ NoneBehind(d, 0) /\ (d \in ProjectDocs => unit # NoUnit)
      /\ Known(d) => Current(d)
  BY DEF Told
<1>3. documents[d] \in DocType \ {NoDoc} /\ d \in Present(documents)
  BY <1>1, <1>2 DEF NoDoc, Present
<1>4. UNCHANGED text
  BY DEF Worker, TakeRequest, Drained, TakeUpdate, TakeElaborate, Elaborate, client
<1>5. TakeRequest => ~Word(d, Head(requests))
  <2> SUFFICES ASSUME TakeRequest PROVE ~Word(d, Head(requests))
    OBVIOUS
  <2>1. Len(requests) \in Nat \ {0} /\ Head(requests) = requests[1]
    BY <1>1, Dequeued DEF TakeRequest
  <2> QED
    BY <1>2, <2>1 DEF Silent, End
<1>6. TakeUpdate => ~Update(d, Head(analysis))
  <2> SUFFICES ASSUME TakeUpdate PROVE ~Update(d, Head(analysis))
    OBVIOUS
  <2>1. Len(analysis) \in Nat \ {0} /\ Head(analysis) = analysis[1]
    BY <1>1, Dequeued DEF TakeUpdate
  <2> QED
    BY <1>2, <2>1 DEF NoneBehind
<1>7. /\ documents'[d] \in {documents[d], Analyzed(d, documents[d])}
      /\ published'[d] \in {published[d], OwnReport(documents'[d])}
      /\ unit' \in {unit, Built(unit)}
  BY <1>3, <1>5, <1>6, ReportsStay
<1>8. d \in ProjectDocs => unit' = unit
  BY <1>2, <1>7, BuiltOnce
<1>9. /\ documents'[d].version = text[d] /\ documents'[d].errors = text[d]
      /\ OwnReport(documents'[d]) = [version |-> text[d], errors |-> text[d],
                                     against |-> text[d]]
  BY <1>1, <1>2, <1>3, <1>7, AnalyzedReport
<1>10. (Known(d) => Current(d))'
  BY <1>2, <1>4, <1>7, <1>8, <1>9 DEF Known, Current
<1>11. Silent(d, End)'
  <2>1. CASE TakeRequest
    <3>1. /\ Len(requests) \in Nat \ {0} /\ Len(requests') = Len(requests) - 1
          /\ \A i \in 1..Len(requests') : requests'[i] = requests[i + 1]
      BY <1>1, <2>1, Dequeued DEF TakeRequest
    <3> QED
      BY <1>2, <3>1 DEF Silent, End
  <2>2. CASE ~TakeRequest
    BY <1>2, <2>2 DEF Worker, Drained, TakeUpdate, TakeElaborate, Elaborate, queues, Silent, End
  <2> QED
    BY <2>1, <2>2
<1>12. NoneBehind(d, 0)'
  <2>1. CASE TakeUpdate \/ TakeElaborate
    <3>1. /\ Len(analysis) \in Nat \ {0} /\ Len(analysis') = Len(analysis) - 1
          /\ \A i \in 1..Len(analysis') : analysis'[i] = analysis[i + 1]
      BY <1>1, <2>1, Dequeued DEF TakeUpdate, TakeElaborate
    <3> QED
      BY <1>2, <3>1 DEF NoneBehind
  <2>2. CASE ~(TakeUpdate \/ TakeElaborate)
    BY <1>2, <2>2 DEF Worker, TakeRequest, Drained, Elaborate, queues, NoneBehind
  <2> QED
    BY <2>1, <2>2
<1> QED
  BY <1>2, <1>4, <1>8, <1>9, <1>10, <1>11, <1>12 DEF Told

\* The analysis of a document that no text is behind tells the editor.
LEMMA ToldAtLast ==
  ASSUME TInv, GInv, VInv, SInv, Elaborate, NEW d \in open, job.doc = d, NoneBehind(d, 0)
  PROVE  Told(d)'
<1>1. /\ requests = <<>> /\ UNCHANGED <<text, requests, analysis, disk>> /\ d \in Docs
      /\ documents \in [Docs -> DocType] /\ published \in [Docs -> ReportType]
      /\ disk \in [Docs -> Text \cup {None}]
      /\ documents[d].text = documents[d].version /\ InOrder(d)
  BY DEF Elaborate, ReadyToElaborate, TInv, TypeOK, SInv, GInv, client, queues
<1>2. Len(requests) = 0
  BY <1>1, EmptySeq
<1>3. Served(d)
  BY <1>1, <1>2 DEF VInv, Awaited
<1>4. documents[d].version = text[d] /\ text[d] \in Nat
  <2>1. /\ text[d] \in Nat /\ documents[d].version \in Nat \cup {None}
        /\ Len(analysis) \in Nat
    BY <1>1, Numbers
  <2>2. Reached(d, Len(analysis) + 1, text[d]) /\ documents[d].version <= text[d]
    BY <1>1, <1>3 DEF Served, InOrder
  <2>3. documents[d].version >= text[d]
    BY <2>1, <2>2 DEF Reached, NoneBehind
  <2> QED
    BY <2>1, <2>2, <2>3
<1>5. documents[d] \in DocType \ {NoDoc}
  BY <1>1, <1>4 DEF NoDoc
<1> DEFINE s == AnalyzeDoc(Server, d)
<1>6. documents' = s.docs /\ unit' = s.unit /\ published' = Publish(s, d, published)
  BY DEF Elaborate
<1>7. /\ s.docs[d] = Analyzed(d, documents[d])
      /\ s.unit = IF d \in ProjectDocs THEN Built(unit) ELSE unit
  BY <1>1, <1>5 DEF AnalyzeDoc, Server, Present
<1>8. Analyzed(d, documents[d]) # NoDoc
  BY <1>1, <1>5, DocumentTypes
<1>9. d \in Present(s.docs)
  BY <1>1, <1>7, <1>8 DEF Present
<1> HIDE DEF s
<1>10. /\ s.docs[d].version = text[d] /\ s.docs[d].errors = text[d]
       /\ s.docs[d].root = (d \in ProjectDocs)
       /\ OwnReport(s.docs[d]) = [version |-> text[d], errors |-> text[d], against |-> text[d]]
  BY <1>1, <1>4, <1>5, <1>7, AnalyzedReport
<1>11. d \in ProjectDocs => s.unit # NoUnit
  <2>1. ASSUME d \in ProjectDocs, unit = NoUnit PROVE Built(unit) # NoUnit
    <3>1. Built(unit)[d] = disk[d] /\ NoUnit[d] = Unbuilt
      BY <2>1 DEF Built, NoUnit
    <3> QED
      BY <1>1, <3>1 DEF Unbuilt, None, Text
  <2> QED
    BY <1>7, <2>1, BuiltOnce
<1>12. d \notin ProjectDocs \/ s.unit[d] \in Text =>
         Publish(s, d, published)[d] = OwnReport(s.docs[d])
  <2>1. CASE d \notin ProjectDocs
    BY <1>1, <1>9, <1>10, <2>1 DEF Publish
  <2>2. CASE d \in ProjectDocs
    BY <1>1, <1>9, <1>10, <2>2 DEF Publish
  <2> QED
    BY <2>1, <2>2
<1>13. (Known(d) => Current(d))'
  BY <1>1, <1>6, <1>10, <1>12 DEF Known, Current
<1>14. Silent(d, End)' /\ NoneBehind(d, 0)'
  BY <1>1, <1>2 DEF Silent, End, NoneBehind
<1> QED
  BY <1>1, <1>6, <1>10, <1>11, <1>13, <1>14 DEF Told

\* What the worker does leaves an open document owed or told.
LEMMA OwedWorker ==
  ASSUME TInv, GInv, VInv, SInv, Worker, NEW d \in open, Owed(d)
  PROVE  Owed(d)'
<1>1. analysis \in Seq(MsgType(AnalysisKinds)) /\ d \in Docs
  BY DEF TInv, TypeOK
<1>2. CASE d \in pending
  BY <1>2 DEF Worker, TakeRequest, Drained, TakeUpdate, TakeElaborate, Elaborate, queues, Owed
<1>3. CASE Told(d)
  BY <1>1, <1>3, ToldStays DEF Owed
<1>4. CASE TakeRequest \/ Drained
  <2>1. UNCHANGED <<analysis, pending, job>> /\ (pc = "job" => pc' = "job")
    BY <1>4 DEF TakeRequest, Drained, queues
  <2>2. ASSUME NEW i \in 1..Len(analysis), Ordered(d, analysis[i]), NoneBehind(d, i)
        PROVE  Owed(d)'
    BY <2>1, <2>2 DEF Owed, NoneBehind
  <2>3. ASSUME pc = "job", job.doc = d, NoneBehind(d, 0) PROVE Owed(d)'
    BY <2>1, <2>3 DEF Owed, NoneBehind
  <2> QED
    BY <1>2, <1>3, <2>2, <2>3 DEF Owed
<1>5. CASE Elaborate
  <2>1. UNCHANGED analysis
    BY <1>5 DEF Elaborate, queues
  <2>2. ASSUME NEW i \in 1..Len(analysis), Ordered(d, analysis[i]), NoneBehind(d, i)
        PROVE  Owed(d)'
    BY <2>1, <2>2 DEF Owed, NoneBehind
  <2>3. ASSUME job.doc = d, NoneBehind(d, 0) PROVE Owed(d)'
    BY <1>5, <2>3, ToldAtLast DEF Owed
  <2> QED
    BY <1>2, <1>3, <2>2, <2>3 DEF Owed
<1>6. CASE TakeUpdate \/ TakeElaborate
  <2>1. /\ Len(analysis) \in Nat \ {0} /\ Len(analysis') = Len(analysis) - 1
        /\ Head(analysis) = analysis[1]
        /\ \A i \in 1..Len(analysis') : analysis'[i] = analysis[i + 1]
    BY <1>1, <1>6, Dequeued DEF TakeUpdate, TakeElaborate
  <2>2. \/ TakeUpdate /\ Head(analysis).kind = "UpdateSource"
        \/ TakeElaborate /\ pc' = "job" /\ job' = Head(analysis)
    BY <1>6 DEF TakeUpdate, TakeElaborate
  <2>3. pc # "job"
    BY <1>6 DEF TakeUpdate, TakeElaborate
  <2>4. ASSUME NEW i \in 1..Len(analysis), Ordered(d, analysis[i]), NoneBehind(d, i)
        PROVE  Owed(d)'
    <3>1. CASE i = 1
      <4>1. pc' = "job" /\ job'.doc = d
        BY <2>1, <2>2, <2>4, <3>1 DEF Ordered
      <4>2. NoneBehind(d, 0)'
        BY <2>1, <2>4, <3>1 DEF NoneBehind
      <4> QED
        BY <4>1, <4>2 DEF Owed
    <3>2. CASE i # 1
      <4>1. i - 1 \in 1..Len(analysis') /\ analysis'[i - 1] = analysis[i]
        BY <2>1, <3>2
      <4>2. \A j \in ((i - 1) + 1)..Len(analysis') : ~Update(d, analysis'[j])
        BY <2>1, <2>4 DEF NoneBehind
      <4> QED
        BY <2>4, <4>1, <4>2 DEF Owed, NoneBehind
    <3> QED
      BY <3>1, <3>2
  <2> QED
    BY <1>2, <1>3, <2>3, <2>4 DEF Owed
<1> QED
  BY <1>4, <1>5, <1>6 DEF Worker

\* A message to the request channel changes nothing for a document it does not open
\* or close.
LEMMA OwedSend ==
  ASSUME TInv, NEW m \in MsgType(RequestKinds), requests' = Append(requests, m),
         NEW d \in open, ~Word(d, m), text'[d] = text[d], Owed(d),
         pending \subseteq pending', UNCHANGED <<analysis, worker>>
  PROVE  Owed(d)'
<1>1. requests \in Seq(MsgType(RequestKinds))
  BY DEF TInv, TypeOK
<1>2. UNCHANGED <<pc, job, documents, unit, published>>
  BY DEF worker
<1>3. ASSUME Told(d) PROVE Told(d)'
  <2>1. Silent(d, End)'
    <3>1. /\ Len(requests) \in Nat /\ Len(requests') = Len(requests) + 1
          /\ \A i \in 1..Len(requests) : requests'[i] = requests[i]
          /\ requests'[Len(requests) + 1] = m
      BY <1>1, Enqueued
    <3> QED
      BY <1>3, <3>1 DEF Told, Silent, End
  <2> QED
    BY <1>2, <1>3, <2>1 DEF Told, NoneBehind, Known, Current
<1>4. ASSUME NEW i \in 1..Len(analysis), Ordered(d, analysis[i]), NoneBehind(d, i)
      PROVE  Owed(d)'
  BY <1>4 DEF Owed, NoneBehind
<1>5. ASSUME pc = "job", job.doc = d, NoneBehind(d, 0) PROVE Owed(d)'
  BY <1>2, <1>5 DEF Owed, NoneBehind
<1> QED
  BY <1>3, <1>4, <1>5 DEF Owed

\* Every step of a session with a patient editor leaves open documents owed or told.
LEMMA MInvNext ==
  TInv /\ GInv /\ VInv /\ SInv /\ MInv /\ [Next]_vars => MInv'
<1> SUFFICES ASSUME TInv, GInv, VInv, SInv, MInv, [Next]_vars, NEW d \in open'
             PROVE  Owed(d)'
  BY DEF MInv
<1>1. /\ text \in [Docs -> Nat] /\ open \subseteq Docs
      /\ analysis \in Seq(MsgType(AnalysisKinds))
  BY DEF TInv, TypeOK
<1>2. d \in open => Owed(d)
  BY DEF MInv
<1>3. ASSUME NEW e \in Docs, DidOpen(e) PROVE Owed(d)'
  <2>1. CASE d = e
    BY <1>3, <2>1 DEF DidOpen, Owed
  <2>2. CASE d # e
    <3>1. PICK m \in MsgType(RequestKinds) : requests' = Append(requests, m) /\ m.doc = e
      <4>1. text[e] + 1 \in Nat
        BY <1>1
      <4>2. PICK m \in MsgType(RequestKinds) : m = Msg("didOpen", e, text[e] + 1)
        BY <4>1 DEF Msg, MsgType, RequestKinds
      <4> QED
        BY <1>3, <4>2 DEF DidOpen, Enqueue, Msg
    <3>2. /\ d \in open /\ ~Word(d, m) /\ text'[d] = text[d] /\ pending \subseteq pending'
          /\ UNCHANGED <<analysis, worker>>
      BY <1>1, <1>3, <2>2, <3>1 DEF DidOpen, Word
    <3> QED
      BY <1>2, <3>1, <3>2, OwedSend
  <2> QED
    BY <2>1, <2>2
<1>4. ASSUME NEW e \in Docs, DidSave(e) \/ SendRequest(e) \/ DidClose(e) PROVE Owed(d)'
  <2>1. PICK m \in MsgType(RequestKinds) :
               /\ requests' = Append(requests, m) /\ m.doc = e
               /\ \/ m.kind \in {"didSave", "request"} /\ open' = open
                  \/ m.kind = "didClose" /\ open' = open \ {e}
    BY <1>1, <1>4 DEF DidSave, SendRequest, DidClose, Enqueue, Msg, MsgType, RequestKinds
  <2>2. /\ d \in open /\ ~Word(d, m) /\ text' = text /\ pending' = pending
        /\ UNCHANGED <<analysis, worker>>
    BY <1>4, <2>1 DEF DidSave, SendRequest, DidClose, Word
  <2> QED
    BY <1>2, <2>1, <2>2, OwedSend
<1>5. CASE DidChangeWatchedFiles
  <2>1. PICK m \in MsgType(RequestKinds) : requests' = Append(requests, m) /\ m.kind = "watched"
    BY <1>5, LanguageServerAssumption
       DEF DidChangeWatchedFiles, Enqueue, Msg, MsgType, RequestKinds, AnyDoc
  <2>2. /\ d \in open /\ ~Word(d, m) /\ text' = text /\ pending' = pending
        /\ UNCHANGED <<analysis, worker>>
    BY <1>5, <2>1 DEF DidChangeWatchedFiles, Word
  <2> QED
    BY <1>2, <2>1, <2>2, OwedSend
<1>6. ASSUME NEW e \in Docs, DidChange(e) \/ TimerFires(e) PROVE Owed(d)'
  <2>1. PICK m \in MsgType(AnalysisKinds) :
               /\ analysis' = Append(analysis, m) /\ m.doc = e
               /\ \/ /\ m.kind = "UpdateSource" /\ pending' = pending \cup {e}
                     /\ text' = [text EXCEPT ![e] = @ + 1]
                  \/ m.kind = "Elaborate" /\ pending' = pending \ {e} /\ text' = text
    BY <1>1, <1>6 DEF DidChange, TimerFires, Msg, MsgType, AnalysisKinds, client
  <2>2. UNCHANGED <<open, requests, pc, job, documents, unit, published>>
    BY <1>6 DEF DidChange, TimerFires, client, worker
  <2>3. /\ Len(analysis) \in Nat /\ Len(analysis') = Len(analysis) + 1
        /\ \A i \in 1..Len(analysis) : analysis'[i] = analysis[i]
        /\ analysis'[Len(analysis) + 1] = m
    BY <1>1, <2>1, Enqueued
  <2>4. CASE d = e /\ m.kind = "UpdateSource"
    BY <2>1, <2>4 DEF Owed
  <2>5. CASE d = e /\ m.kind = "Elaborate"
    <3>1. /\ Len(analysis) + 1 \in 1..Len(analysis')
          /\ Ordered(d, analysis'[Len(analysis) + 1])
      BY <2>1, <2>3, <2>5 DEF Ordered
    <3>2. \A j \in ((Len(analysis) + 1) + 1)..Len(analysis') : ~Update(d, analysis'[j])
      BY <2>3
    <3> QED
      BY <3>1, <3>2 DEF Owed, NoneBehind
  <2>6. CASE d # e
    <3>1. ~Update(d, m) /\ text'[d] = text[d]
      BY <1>1, <2>1, <2>2, <2>6 DEF Update
    <3>2. ASSUME NEW i \in Nat, NoneBehind(d, i) PROVE NoneBehind(d, i)'
      <4> SUFFICES ASSUME NEW j \in (i + 1)..Len(analysis') PROVE ~Update(d, analysis'[j])
        BY DEF NoneBehind
      <4>1. CASE j = Len(analysis) + 1
        BY <2>3, <3>1, <4>1
      <4>2. CASE j # Len(analysis) + 1
        <5>1. j \in (i + 1)..Len(analysis) /\ j \in 1..Len(analysis)
          BY <2>3, <4>2
        <5> QED
          BY <2>3, <3>2, <5>1 DEF NoneBehind
      <4> QED
        BY <4>1, <4>2
    <3>3. CASE d \in pending
      BY <2>1, <2>6, <3>3 DEF Owed
    <3>4. ASSUME NEW i \in 1..Len(analysis), Ordered(d, analysis[i]), NoneBehind(d, i)
          PROVE  Owed(d)'
      <4>1. i \in 1..Len(analysis') /\ Ordered(d, analysis'[i]) /\ NoneBehind(d, i)'
        BY <2>3, <3>2, <3>4
      <4> QED
        BY <4>1 DEF Owed, NoneBehind
    <3>5. ASSUME pc = "job", job.doc = d, NoneBehind(d, 0) PROVE Owed(d)'
      <4>1. NoneBehind(d, 0)'
        BY <3>2, <3>5
      <4> QED
        BY <2>2, <3>5, <4>1 DEF Owed
    <3>6. ASSUME Told(d) PROVE Told(d)'
      <4>1. NoneBehind(d, 0)'
        BY <3>2, <3>6 DEF Told
      <4> QED
        BY <2>2, <3>1, <3>6, <4>1 DEF Told, Silent, End, Known, Current
    <3> QED
      BY <1>2, <2>2, <3>3, <3>4, <3>5, <3>6 DEF Owed
  <2> QED
    BY <2>1, <2>4, <2>5, <2>6
<1>7. CASE Worker
  <2>1. open' = open
    BY <1>7 DEF Worker, TakeRequest, Drained, TakeUpdate, TakeElaborate, Elaborate, client
  <2> QED
    BY <1>2, <1>7, <2>1, OwedWorker
<1>8. CASE UNCHANGED vars
  <2>1. Told(d) => Told(d)'
    BY <1>8 DEF vars, Told, Silent, End, NoneBehind, Known, Current
  <2> QED
    BY <1>2, <1>8, <2>1 DEF vars, Owed, NoneBehind
<1> QED
  BY <1>3, <1>4, <1>5, <1>6, <1>7, <1>8 DEF Next, Client

\* Nothing is on its way and no analysis is under way.
Quiet == requests = <<>> /\ analysis = <<>> /\ pending = {} /\ pc # "job"

\* The safety half of Converges: whenever deadlines, queues and worker have nothing left
\* to do, the diagnostics the editor shows of each of its open documents are those of
\* the text it shows, if the project unit knows the file.
THEOREM QuietMeansCurrent ==
  ASSUME Patient, ~IncludeText
  PROVE  Spec => [](Quiet => \A d \in open : Known(d) => Current(d))
<1>1. MInv => (Quiet => \A d \in open : Known(d) => Current(d))
  <2> SUFFICES ASSUME MInv, Quiet, NEW d \in open, Known(d) PROVE Current(d)
    OBVIOUS
  <2>1. Len(analysis) = 0
    BY EmptySeq DEF Quiet
  <2>2. Told(d)
    BY <2>1 DEF MInv, Owed, Quiet
  <2> QED
    BY <2>2 DEF Told
<1>2. Init => MInv
  BY DEF Init, MInv
<1>3. Init => SInv
  <2>1. ASSUME Init PROVE SInv
    <3>1. Len(requests) = 0
      BY <2>1, EmptySeq DEF Init
    <3> QED
      BY <2>1, <3>1 DEF Init, SInv, NoDoc
  <2> QED
    BY <2>1
<1>4. TInv /\ GInv /\ VInv /\ [Next]_vars => VInv'
  BY VInvNext
<1>5. TInv /\ GInv /\ [Next]_vars => GInv'
  BY GInvNext
<1>6. TInv /\ SInv /\ [Next]_vars => SInv'
  BY SInvNext
<1> QED
  BY <1>1, <1>2, <1>3, <1>4, <1>5, <1>6, TypeInit, TypeNext, GInvInit, VInvInit, MInvNext, PTL
  DEF Spec
-------------------------------------------------------------------------------
(* Left alone, the server comes to rest.                                          *)

Turn == IF pc = "job" THEN 2 ELSE IF pc = "drain" THEN 1 ELSE 0

\* A deadline less; or as many, and a message less to analyse; or as many of these, and
\* a request less; or none of them is touched, and the worker goes on to wait for one.
ComesToRest ==
  \/ pending' \subseteq pending /\ pending' # pending
  \/ pending' = pending /\ Len(analysis') < Len(analysis)
  \/ pending' = pending /\ analysis' = analysis /\ Len(requests') < Len(requests)
  \/ pending' = pending /\ analysis' = analysis /\ requests' = requests /\ Turn' < Turn

\* The other half of Converges: every step that is not the editor's, of a timer or of
\* the worker, leaves less to do, in an order without infinite descent.
THEOREM LeftAloneItRests ==
  Spec => []IsFiniteSet(pending) /\ [][Client \/ ComesToRest]_vars
<1>1. ASSUME TInv, Next PROVE Client \/ ComesToRest
  <2>1. requests \in Seq(MsgType(RequestKinds)) /\ analysis \in Seq(MsgType(AnalysisKinds))
    BY <1>1 DEF TInv, TypeOK
  <2>2. ASSUME NEW d \in Docs, TimerFires(d) PROVE ComesToRest
    BY <2>2 DEF TimerFires, ComesToRest
  <2>3. CASE TakeRequest
    <3>1. Len(requests') = Len(requests) - 1 /\ Len(requests) \in Nat
      BY <2>1, <2>3, Dequeued DEF TakeRequest
    <3>2. UNCHANGED <<pending, analysis>>
      BY <2>3 DEF TakeRequest
    <3> QED
      BY <3>1, <3>2 DEF ComesToRest
  <2>4. CASE TakeUpdate \/ TakeElaborate
    <3>1. Len(analysis') = Len(analysis) - 1 /\ Len(analysis) \in Nat
      BY <2>1, <2>4, Dequeued DEF TakeUpdate, TakeElaborate
    <3> QED
      BY <2>4, <3>1 DEF TakeUpdate, TakeElaborate, ComesToRest
  <2>5. CASE Drained \/ Elaborate
    BY <2>5 DEF Drained, Elaborate, ComesToRest, Turn, queues
  <2> QED
    BY <1>1, <2>2, <2>3, <2>4, <2>5 DEF Next, Worker
<1>2. TInv /\ [Next]_vars => [Client \/ ComesToRest]_vars
  BY <1>1
<1>3. Init => IsFiniteSet(pending)
  BY FS_EmptySet DEF Init
<1>4. ASSUME IsFiniteSet(pending), [Next]_vars PROVE IsFiniteSet(pending')
  <2>1. pending' \subseteq pending \/ \E d \in Docs : pending' = pending \cup {d}
    BY <1>4 DEF Next, Client, DidOpen, DidChange, DidSave, DidClose, SendRequest,
       DidChangeWatchedFiles, TimerFires, Worker, TakeRequest, Drained, TakeUpdate,
       TakeElaborate, Elaborate, queues, vars
  <2> QED
    BY <1>4, <2>1, FS_Subset, FS_AddElement
<1>5. IsFiniteSet(pending) /\ [Next]_vars => IsFiniteSet(pending)'
  BY <1>4
<1> QED
  BY <1>2, <1>3, <1>5, TypeInit, TypeNext, PTL DEF Spec
===============================================================================
