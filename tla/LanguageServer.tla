---------------------------- MODULE LanguageServer ----------------------------
(* The language server between an editor and its documents: the main thread,    *)
(* which receives the editor's messages, debounces analysis per document and    *)
(* feeds two queues, and the one worker thread, which owns the documents,       *)
(* answers requests first and analyses when it has nothing else to do.          *)
(*                                                                              *)
(* A text is the number of the edit that made it, so the text the editor holds  *)
(* for a document is the version it would send; 0 is what is on disk before     *)
(* the editor starts. Errors and designs are named by the text they come from.  *)
(* A client action is the editor sending a message and the main thread handling *)
(* it: the pipe between them is a queue one thread drains in order, and the     *)
(* timers are free to run between any two messages, so nothing else can tell    *)
(* the two apart.                                                               *)
EXTENDS Integers, Sequences, FiniteSets

CONSTANTS
  Docs,          \* documents the editor works on
  ProjectDocs,   \* those below a Piperine.toml, in src/
  NewDocs,       \* those with no file when the editor starts
  Broken,        \* <<d, text>>: texts that do not elaborate
  MaxVersion,    \* bound: edits and openings of each document
  MaxAsks,       \* bound: requests, saves and watched-file notifications together
  IncludeText,   \* the editor sends the text along when it saves; the server's
                 \* capabilities do not ask for it
  Patient        \* the editor waits for diagnostics of the text it opened before it
                 \* edits it, and for those of its last text before it closes it

ASSUME LanguageServerAssumption ==
  /\ Docs # {} /\ ProjectDocs \subseteq Docs /\ NewDocs \subseteq Docs
  /\ MaxVersion \in [Docs -> Nat] /\ MaxAsks \in Nat
  /\ Patient \in BOOLEAN /\ IncludeText \in BOOLEAN
  /\ Broken \subseteq Docs \X Nat

VARIABLES
  open,        \* editor: documents it has open
  text,        \* editor: version of its buffer (the last one, when closed)
  since,       \* editor: version it last opened
  disk,        \* text in the document's file, or None
  asks,        \* requests, saves and watched-file notifications sent so far
  requests,    \* queue of the request channel, answered first
  analysis,    \* queue of the analysis channel
  pending,     \* pending_analysis: documents with a deadline running
  pc,          \* worker: "drain", "select", or "job" once it took an Elaborate
  job,         \* worker: that Elaborate
  documents,   \* ServerState.documents
  unit,        \* ServerState.projects for the one root: text each file was built from
  published    \* editor: the diagnostics it last received for each document

client == <<open, text, since, disk, asks>>
queues == <<requests, analysis, pending>>
worker == <<pc, job, documents, unit, published>>
vars   == <<open, text, since, disk, asks, requests, analysis, pending, pc, job,
            documents, unit, published>>

None    == -1
Unbuilt == -2
Text    == Nat
NoDoc   == [text |-> None, version |-> None, errors |-> None, design |-> None,
            root |-> FALSE]
NoUnit  == [d \in ProjectDocs |-> Unbuilt]
AnyDoc  == CHOOSE d \in Docs : TRUE
Nothing == [version |-> None, errors |-> None, against |-> None]

Msg(k, d, t) == [kind |-> k, doc |-> d, text |-> t]
NoJob == Msg("Elaborate", AnyDoc, None)
RequestKinds  == {"didOpen", "didSave", "didClose", "watched", "request"}
AnalysisKinds == {"UpdateSource", "Elaborate"}
-------------------------------------------------------------------------------
(* The documents and what an analysis makes of them.                            *)

Present(ds) == {d \in Docs : ds[d] # NoDoc}

\* DocumentState::new: a text not analysed yet.
Fresh(t) == [NoDoc EXCEPT !.text = t, !.version = t]

\* (mutant: nothing is brought up to date by a text that does not elaborate)
AnalyzedIfValid(d, doc) ==
  IF <<d, doc.text>> \in Broken THEN doc
  ELSE [doc EXCEPT !.errors = doc.text, !.design = doc.text, !.root = d \in ProjectDocs]

\* DocumentState::analyze: errors are those of this text; the design only moves
\* to it when it elaborates, otherwise the last valid one stays.
Analyzed(d, doc) ==
  [doc EXCEPT !.errors = doc.text,
              !.design = IF <<d, doc.text>> \in Broken THEN @ ELSE doc.text,
              !.root   = d \in ProjectDocs]

\* ProjectUnit::build, once per root: every file of the project, as it is on disk.
Built(u) == IF u = NoUnit THEN [d \in ProjectDocs |-> disk[d]] ELSE u

\* analyze_document: the document if the worker has it, the unit in any case.
AnalyzeDoc(s, d) ==
  [docs |-> IF d \in Present(s.docs) THEN [s.docs EXCEPT ![d] = Analyzed(d, @)]
                                     ELSE s.docs,
   unit |-> IF d \in ProjectDocs THEN Built(s.unit) ELSE s.unit]

\* What goes out for a document the worker holds, and for a file it does not.
OwnReport(doc)   == [version |-> doc.version, errors |-> doc.errors, against |-> doc.text]
FileReport(u, d) == [version |-> None, errors |-> u[d], against |-> disk[d]]

\* (mutant: the other open documents are reported from the project unit)
PublishFromUnit(s, d, p) ==
  IF d \notin Present(s.docs) THEN p
  ELSE IF ~s.docs[d].root THEN [p EXCEPT ![d] = OwnReport(s.docs[d])]
  ELSE [e \in Docs |->
          IF e \notin ProjectDocs \/ s.unit[e] \notin Text THEN p[e]
          ELSE IF e = d THEN OwnReport(s.docs[e])
          ELSE IF disk[e] = None THEN p[e]
          ELSE FileReport(s.unit, e)]

\* publish_project_diagnostics for a document with a root, publish_diagnostics
\* for one without; a document the worker does not hold publishes nothing.
Publish(s, d, p) ==
  IF d \notin Present(s.docs) THEN p
  ELSE IF ~s.docs[d].root THEN [p EXCEPT ![d] = OwnReport(s.docs[d])]
  ELSE [e \in Docs |->
          IF e \notin ProjectDocs \/ s.unit[e] \notin Text THEN p[e]
          ELSE IF e \in Present(s.docs) THEN OwnReport(s.docs[e])
          ELSE IF disk[e] = None THEN p[e]
          ELSE FileReport(s.unit, e)]

Server == [docs |-> documents, unit |-> unit]
-------------------------------------------------------------------------------
(* The editor and the main thread.                                              *)

\* (mutant: a request goes to the front)
EnqueueByUrgency(m) ==
  requests' = IF m.kind = "request" THEN <<m>> \o requests ELSE Append(requests, m)

\* The request channel.
Enqueue(m) == requests' = Append(requests, m)

DidOpen(d) ==
  /\ d \notin open /\ text[d] < MaxVersion[d]
  /\ open'  = open \cup {d}
  /\ text'  = [text EXCEPT ![d] = @ + 1]
  /\ since' = [since EXCEPT ![d] = text[d] + 1]
  /\ Enqueue(Msg("didOpen", d, text[d] + 1))
  /\ pending' = pending \cup {d}
  /\ UNCHANGED <<disk, asks, analysis, worker>>

\* Full text synchronisation: the new text goes to the analysis queue.
DidChange(d) ==
  /\ d \in open /\ text[d] < MaxVersion[d]
  /\ Patient => published[d].version >= since[d]
  /\ text' = [text EXCEPT ![d] = @ + 1]
  /\ analysis' = Append(analysis, Msg("UpdateSource", d, text[d] + 1))
  /\ pending' = pending \cup {d}
  /\ UNCHANGED <<open, since, disk, asks, requests, worker>>

DidSave(d) ==
  /\ d \in open /\ disk[d] # text[d] /\ asks < MaxAsks
  /\ asks' = asks + 1
  /\ disk' = [disk EXCEPT ![d] = text[d]]
  /\ Enqueue(Msg("didSave", d, IF IncludeText THEN text[d] ELSE None))
  /\ UNCHANGED <<open, text, since, analysis, pending, worker>>

\* The deadline of a closed document keeps running.
DidClose(d) ==
  /\ d \in open
  /\ Patient => published[d].version = text[d]
  /\ open' = open \ {d}
  /\ Enqueue(Msg("didClose", d, None))
  /\ UNCHANGED <<text, since, disk, asks, analysis, pending, worker>>

\* The text is the one the editor shows when it asks.
SendRequest(d) ==
  /\ d \in open /\ asks < MaxAsks
  /\ asks' = asks + 1
  /\ Enqueue(Msg("request", d, text[d]))
  /\ UNCHANGED <<open, text, since, disk, analysis, pending, worker>>

DidChangeWatchedFiles ==
  /\ asks < MaxAsks
  /\ asks' = asks + 1
  /\ Enqueue(Msg("watched", AnyDoc, None))
  /\ UNCHANGED <<open, text, since, disk, analysis, pending, worker>>

\* The deadline passes and the document's analysis is dispatched.
TimerFires(d) ==
  /\ d \in pending
  /\ pending' = pending \ {d}
  /\ analysis' = Append(analysis, Msg("Elaborate", d, text[d]))
  /\ UNCHANGED <<client, requests, worker>>
-------------------------------------------------------------------------------
(* The worker thread.                                                           *)

Store(d, doc) == documents' = [documents EXCEPT ![d] = doc]

\* (mutant: also when it brings none)
SavedAnyway(m, doc) == IF doc = NoDoc THEN doc ELSE [doc EXCEPT !.text = m.text]

\* The text a save brings along, if it does, is the document's text.
Saved(m, doc) ==
  IF m.text = None \/ doc = NoDoc THEN doc ELSE [doc EXCEPT !.text = m.text]

\* handle_notification and handle_request. A watched file re-analyses and
\* publishes every document, one after the other.
Handle(m) ==
  \/ /\ m.kind = "didOpen"
     /\ Store(m.doc, Fresh(m.text))
     /\ UNCHANGED <<unit, published>>
  \/ /\ m.kind = "didSave"
     /\ Store(m.doc, Saved(m, documents[m.doc]))
     /\ UNCHANGED <<unit, published>>
  \/ /\ m.kind = "didClose"
     /\ Store(m.doc, NoDoc)
     /\ UNCHANGED <<unit, published>>
  \/ /\ m.kind = "watched"
     /\ LET ds == [d \in Docs |-> IF d \in Present(documents)
                                  THEN Analyzed(d, documents[d]) ELSE NoDoc]
            s  == [docs |-> ds, unit |-> IF Present(documents) \cap ProjectDocs = {}
                                         THEN unit ELSE Built(unit)]
        IN /\ documents' = ds /\ unit' = s.unit
           /\ published' = [e \in Docs |->
                IF e \in Present(ds) /\ ~ds[e].root THEN OwnReport(ds[e])
                ELSE IF Present(ds) \cap ProjectDocs = {} THEN published[e]
                ELSE Publish(s, CHOOSE d \in Present(ds) \cap ProjectDocs : TRUE,
                             published)[e]]
  \/ /\ m.kind = "request"
     /\ UNCHANGED <<documents, unit, published>>

\* The drains before the select, before an analysis and after it.
TakeRequest ==
  /\ requests # <<>>
  /\ Handle(Head(requests))
  /\ requests' = Tail(requests)
  /\ pc' = IF pc = "select" THEN "drain" ELSE pc
  /\ UNCHANGED <<client, analysis, pending, job>>

\* try_recv found nothing: the worker blocks until one of the queues has a
\* message. From here a message of either queue may be the one it takes.
Drained ==
  /\ pc = "drain" /\ requests = <<>>
  /\ pc' = "select"
  /\ UNCHANGED <<client, queues, job, documents, unit, published>>

\* (mutant: a text that finds the last one not analysed yet is dropped)
UpdatedIfAnalysed(m) ==
  IF m.doc \notin Present(documents) THEN Fresh(m.text)
  ELSE IF documents[m.doc].errors # documents[m.doc].text THEN documents[m.doc]
  ELSE [documents[m.doc] EXCEPT !.text = m.text, !.version = m.text]

\* A new text replaces the source of a document the worker holds, and makes a
\* new document of one it does not.
Updated(m) ==
  IF m.doc \in Present(documents)
  THEN [documents[m.doc] EXCEPT !.text = m.text, !.version = m.text]
  ELSE Fresh(m.text)

TakeUpdate ==
  /\ pc = "select" /\ analysis # <<>> /\ Head(analysis).kind = "UpdateSource"
  /\ analysis' = Tail(analysis)
  /\ Store(Head(analysis).doc, Updated(Head(analysis)))
  /\ pc' = "drain"
  /\ UNCHANGED <<client, requests, pending, job, unit, published>>

TakeElaborate ==
  /\ pc = "select" /\ analysis # <<>> /\ Head(analysis).kind = "Elaborate"
  /\ analysis' = Tail(analysis)
  /\ job' = Head(analysis)
  /\ pc' = "job"
  /\ UNCHANGED <<client, requests, pending, documents, unit, published>>

\* (mutant: the queue is not drained first)
ReadyUndrained == TRUE

\* When an analysis may begin: the requests that were there first are answered.
ReadyToElaborate == requests = <<>>

Elaborate ==
  /\ pc = "job" /\ ReadyToElaborate
  /\ LET s == AnalyzeDoc(Server, job.doc)
     IN /\ documents' = s.docs
        /\ unit' = s.unit
        /\ published' = Publish(s, job.doc, published)
  /\ pc' = "drain" /\ job' = NoJob
  /\ UNCHANGED <<client, queues>>

Worker == TakeRequest \/ Drained \/ TakeUpdate \/ TakeElaborate \/ Elaborate

Client ==
  \/ \E d \in Docs : \/ DidOpen(d) \/ DidChange(d) \/ DidSave(d) \/ DidClose(d)
                     \/ SendRequest(d)
  \/ DidChangeWatchedFiles

Init ==
  /\ open = {}
  /\ text = [d \in Docs |-> 0] /\ since = [d \in Docs |-> 0]
  /\ disk = [d \in Docs |-> IF d \in NewDocs THEN None ELSE 0]
  /\ asks = 0
  /\ requests = <<>> /\ analysis = <<>> /\ pending = {}
  /\ pc = "drain" /\ job = NoJob
  /\ documents = [d \in Docs |-> NoDoc]
  /\ unit = NoUnit
  /\ published = [d \in Docs |-> Nothing]

Next == Client \/ (\E d \in Docs : TimerFires(d)) \/ Worker

Spec == Init /\ [][Next]_vars

\* Threads that can run do, and timers end; the editor may stop at any moment.
Fairness == WF_vars(Worker) /\ \A d \in Docs : WF_vars(TimerFires(d))
FairSpec == Spec /\ Fairness
-------------------------------------------------------------------------------
(* Properties.                                                                  *)

MsgType(kinds) == [kind : kinds, doc : Docs, text : Text \cup {None}]
DocType ==
  {NoDoc} \cup [text : Text, version : Text, errors : Text \cup {None},
                 design : Text \cup {None}, root : BOOLEAN]
ReportType ==
  [version : Text \cup {None}, errors : Text \cup {None}, against : Text \cup {None}]

\* The types of both queues, the worker's state and what the editor received.
TypeOK ==
  /\ open \subseteq Docs
  /\ text \in [Docs -> Text] /\ since \in [Docs -> Text]
  /\ disk \in [Docs -> Text \cup {None}]
  /\ asks \in 0..MaxAsks
  /\ requests \in Seq(MsgType(RequestKinds)) /\ analysis \in Seq(MsgType(AnalysisKinds))
  /\ pending \subseteq Docs
  /\ pc \in {"drain", "select", "job"} /\ job \in MsgType({"Elaborate"})
  /\ documents \in [Docs -> DocType]
  /\ unit \in [ProjectDocs -> Text \cup {None, Unbuilt}]
  /\ published \in [Docs -> ReportType]

\* A request is answered from a document: whatever else is queued, when the
\* request for an open document comes up the worker holds that document. It
\* rests on didOpen and didClose taking the queue the requests take.
LastWord(d, i) == {j \in 1..(i - 1) : /\ requests[j].doc = d
                                      /\ requests[j].kind \in {"didOpen", "didClose"}}
HeldAt(d, i) ==
  IF LastWord(d, i) = {} THEN d \in Present(documents)
  ELSE \E j \in LastWord(d, i) : /\ \A k \in LastWord(d, i) : k <= j
                                 /\ requests[j].kind = "didOpen"
RequestsFindDocument ==
  \A i \in 1..Len(requests) :
    requests[i].kind = "request" => HeldAt(requests[i].doc, i)

\* The worker holds the state of the open documents: one the editor has closed is
\* gone, or its didClose is on its way. (Not so: a text typed before the close
\* waits in the other queue, and makes the document again when its turn comes.)
NoGhost ==
  \A d \in Docs : d \in Present(documents) /\ d \notin open =>
    \E i \in 1..Len(requests) : requests[i].kind = "didClose" /\ requests[i].doc = d

\* An answer is about the text the editor showed when it asked, or a newer one, or
\* the edit that made that text still waits in the analysis queue: the two queues
\* may delay an edit behind a request sent after it, but lose none.
Answering == /\ requests # <<>> /\ requests' = Tail(requests)
             /\ Head(requests).kind = "request"
AnswersMissNoEdit ==
  [][Answering =>
       LET m == Head(requests)
       IN  \/ documents[m.doc].text >= m.text
           \/ \E i \in 1..Len(analysis) :
                analysis[i] = Msg("UpdateSource", m.doc, m.text)]_vars

\* The analysis a deadline asked for is made of that text or a newer one, though
\* the text and the order to analyse it may have come through different queues.
AnalysesWhatTriggered ==
  [][pc = "job" /\ pc' = "drain" /\ job.doc \in open /\ since[job.doc] <= job.text
     => documents'[job.doc].errors >= job.text]_vars

\* The version on the diagnostics of an open document never goes back.
NeverOlder ==
  [][\A d \in open \cap open' :
       published[d].version >= since[d] => published'[d].version >= published[d].version]_vars

\* Once the editor is quiet, every open document ends up with the diagnostics of
\* its last text, and keeps them. Files the project unit does not know are left
\* out: the fan-out publishes only files that were there when it was built.
Known(d) == d \notin ProjectDocs \/ unit[d] \in Text
Current(d) == published[d] = [version |-> text[d], errors |-> text[d], against |-> text[d]]
Converges == \A d \in Docs : <>[](d \in open /\ Known(d) => Current(d))
===============================================================================
