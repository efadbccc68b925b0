-------------------------- MODULE DocumentsProofs --------------------------
(***************************************************************************)
(* Proofs about Documents: what a pass over files that are written while it *)
(* runs still promises; that an edit which is accepted lands on the version *)
(* it was made for; that the squiggle promises what pressing the key does;  *)
(* and that what is held once all has settled stands in the files.          *)
(*                                                                         *)
(* For the edits: a document's messages reach the server in order, so that  *)
(* what is on its way and what the server holds agree with the document     *)
(* wherever they carry its version, and so does every offer made from it.   *)
(***************************************************************************)
EXTENDS Documents, ExtractionProofs

-----------------------------------------------------------------------------
(* Messages on their way                                                   *)

LEMMA SentIs ==
    ASSUME NEW box, IsSeq(box), NEW m, NEW box2, box2 = Append(box, m)
    PROVE  /\ IsSeq(box2) /\ Len(box) \in Nat /\ DOMAIN box = 1..Len(box)
           /\ DOMAIN box2 = 1..Len(box) + 1
           /\ box2[Len(box) + 1] = m
           /\ \A i \in DOMAIN box : i \in DOMAIN box2 /\ box2[i] = box[i]
           /\ \A i \in DOMAIN box2 : i \in DOMAIN box \/ i = Len(box) + 1
<1>1. Len(box) \in Nat /\ DOMAIN box = 1..Len(box)
    BY SeqIs
<1>2. /\ IsSeq(box2) /\ Len(box2) = Len(box) + 1 /\ box2[Len(box) + 1] = m
      /\ \A i \in 1..Len(box) : box2[i] = box[i]
    BY AppendSeq
<1>3. DOMAIN box2 = 1..Len(box) + 1
    BY <1>2, SeqIs
<1> QED BY <1>1, <1>2, <1>3

LEMMA HandledIs ==
    ASSUME NEW box, IsSeq(box), box # <<>>
    PROVE  /\ IsSeq(Tail(box)) /\ 1 \in DOMAIN box /\ Head(box) = box[1]
           /\ \A i \in DOMAIN Tail(box) :
                 /\ i \in Int /\ i > 0 /\ i + 1 \in DOMAIN box
                 /\ Tail(box)[i] = box[i + 1]
           /\ \A i \in DOMAIN box : i \in Int /\ (i > 1 => i - 1 \in DOMAIN Tail(box))
<1> DEFINE V == Range(box)
<1>1. box \in Seq(V)
    BY DEF IsSeq
<1> HIDE DEF V
<1>2. Len(box) \in Nat \ {0} /\ DOMAIN box = 1..Len(box) /\ Head(box) = box[1]
    BY <1>1
<1>3. /\ Tail(box) \in Seq(V) /\ DOMAIN Tail(box) = 1..Len(box) - 1
      /\ \A i \in 1..Len(box) - 1 : Tail(box)[i] = box[i + 1]
    <2>1. Tail(box) \in Seq(V)
        BY <1>1, <1>2
    <2>2. Len(Tail(box)) = Len(box) - 1
        BY <1>1, <1>2
    <2>3. \A i \in 1..Len(box) - 1 : Tail(box)[i] = box[i + 1]
        BY <1>1, <1>2
    <2>4. DOMAIN Tail(box) = 1..Len(Tail(box))
        BY <2>1
    <2> QED BY <2>1, <2>2, <2>3, <2>4
<1>4. IsSeq(Tail(box))
    BY <1>3, InSeq
<1> QED BY <1>2, <1>3, <1>4

\* What the message carries a text for, and what it begins or ends.
Carries(m) == m.is \in {"open", "change"}
Turns(m, path) == m.is \in {"open", "close"} /\ m.path = path

\* No document of this path is begun or ended after the i-th message.
NoTurn(box, i, path) == \A j \in DOMAIN box : j > i => ~Turns(box[j], path)

\* A text and its version are those of a document, or older.
Agrees(d, at, path) ==
    /\ path \in DOMAIN d
    /\ at.version \in Nat /\ at.version <= d[path].version
    /\ at.version = d[path].version => at.text = d[path].text

MessagesAgree(d, box) ==
    \A i \in DOMAIN box :
        Carries(box[i]) /\ NoTurn(box, i, box[i].path) => Agrees(d, box[i], box[i].path)
BuffersAgree(d, box, buffers) ==
    \A path \in DOMAIN buffers : NoTurn(box, 0, path) => Agrees(d, buffers[path], path)
AsksAgree(d, box, questions) ==
    /\ \A i \in DOMAIN box : box[i].is = "ask" =>
          box[i].path \in DOMAIN d /\ NoTurn(box, i, box[i].path)
    /\ \A q \in questions : q.path \in DOMAIN d /\ NoTurn(box, 0, q.path)
OfferAgrees(d, o) ==
    /\ o.path \in DOMAIN d
    /\ o.version # Unversioned =>
          /\ o.version \in Nat /\ o.version <= d[o.path].version
          /\ o.version = d[o.path].version =>
                /\ o.line # NoLine
                /\ o.line = VersionSpan(SeenIn(d[o.path].text, o.path), o.finding)

\* What agrees with the documents still does when they become others.
Keeps(d, d2, m) ==
    \A path, at : Agrees(d, at, path) /\ ~Turns(m, path) => Agrees(d2, at, path)

LEMMA NoTurnSent ==
    ASSUME NEW box, IsSeq(box), NEW m, NEW box2, box2 = Append(box, m),
           NEW i \in 0..Len(box), NEW path
    PROVE  NoTurn(box2, i, path) <=> NoTurn(box, i, path) /\ ~Turns(m, path)
<1>1. /\ Len(box) \in Nat /\ DOMAIN box = 1..Len(box) /\ DOMAIN box2 = 1..Len(box) + 1
      /\ box2[Len(box) + 1] = m
      /\ \A j \in DOMAIN box : j \in DOMAIN box2 /\ box2[j] = box[j]
      /\ \A j \in DOMAIN box2 : j \in DOMAIN box \/ j = Len(box) + 1
    BY SentIs
<1>2. Len(box) + 1 \in DOMAIN box2 /\ Len(box) + 1 > i
    BY <1>1
<1> QED BY <1>1, <1>2 DEF NoTurn

LEMMA NoTurnHandled ==
    ASSUME NEW box, IsSeq(box), box # <<>>, NEW i \in Nat, NEW path
    PROVE  NoTurn(Tail(box), i, path) <=> NoTurn(box, i + 1, path)
<1>1. /\ \A j \in DOMAIN Tail(box) :
            j \in Int /\ j > 0 /\ j + 1 \in DOMAIN box /\ Tail(box)[j] = box[j + 1]
      /\ \A j \in DOMAIN box : j \in Int /\ (j > 1 => j - 1 \in DOMAIN Tail(box))
    BY HandledIs
<1>2. ASSUME NoTurn(Tail(box), i, path), NEW j \in DOMAIN box, j > i + 1
      PROVE  ~Turns(box[j], path)
    <2>1. j - 1 \in DOMAIN Tail(box) /\ j - 1 > i /\ (j - 1) + 1 = j
        BY <1>1, <1>2
    <2> QED BY <1>1, <1>2, <2>1 DEF NoTurn
<1>3. ASSUME NoTurn(box, i + 1, path), NEW j \in DOMAIN Tail(box), j > i
      PROVE  ~Turns(Tail(box)[j], path)
    <2>1. j + 1 \in DOMAIN box /\ j + 1 > i + 1
        BY <1>1, <1>3
    <2> QED BY <1>1, <1>3, <2>1 DEF NoTurn
<1> QED BY <1>2, <1>3 DEF NoTurn

LEMMA MessagesSent ==
    ASSUME NEW d, NEW box, IsSeq(box), MessagesAgree(d, box),
           NEW m, NEW d2, Keeps(d, d2, m), Carries(m) => Agrees(d2, m, m.path),
           NEW box2, box2 = Append(box, m)
    PROVE  MessagesAgree(d2, box2)
<1> SUFFICES ASSUME NEW i \in DOMAIN box2, Carries(box2[i]), NoTurn(box2, i, box2[i].path)
             PROVE  Agrees(d2, box2[i], box2[i].path)
    BY DEF MessagesAgree
<1>1. /\ Len(box) \in Nat /\ DOMAIN box = 1..Len(box) /\ box2[Len(box) + 1] = m
      /\ \A j \in DOMAIN box : box2[j] = box[j]
      /\ \A j \in DOMAIN box2 : j \in DOMAIN box \/ j = Len(box) + 1
    BY SentIs
<1>2. CASE i = Len(box) + 1
    BY <1>1, <1>2
<1>3. CASE i \in DOMAIN box
    <2>1. NoTurn(box, i, box[i].path) /\ ~Turns(m, box[i].path)
        <3>1. i \in 0..Len(box) /\ box2[i] = box[i]
            BY <1>1, <1>3
        <3> QED BY <3>1, NoTurnSent
    <2>2. Agrees(d, box[i], box[i].path)
        BY <1>1, <1>3, <2>1 DEF MessagesAgree
    <2> QED BY <1>1, <1>3, <2>1, <2>2 DEF Keeps
<1> QED BY <1>1, <1>2, <1>3

LEMMA BuffersSent ==
    ASSUME NEW d, NEW box, IsSeq(box), NEW buffers, BuffersAgree(d, box, buffers),
           NEW m, NEW d2, Keeps(d, d2, m), NEW box2, box2 = Append(box, m)
    PROVE  BuffersAgree(d2, box2, buffers)
<1> SUFFICES ASSUME NEW path \in DOMAIN buffers, NoTurn(box2, 0, path)
             PROVE  Agrees(d2, buffers[path], path)
    BY DEF BuffersAgree
<1>1. 0 \in 0..Len(box)
    BY SeqIs
<1>2. NoTurn(box, 0, path) /\ ~Turns(m, path)
    BY <1>1, NoTurnSent
<1> QED BY <1>2 DEF BuffersAgree, Keeps

LEMMA AsksSent ==
    ASSUME NEW d, NEW box, IsSeq(box), NEW questions, AsksAgree(d, box, questions),
           NEW m, NEW d2, \A path \in DOMAIN d : path \in DOMAIN d2 /\ ~Turns(m, path),
           m.is = "ask" => m.path \in DOMAIN d2, NEW box2, box2 = Append(box, m)
    PROVE  AsksAgree(d2, box2, questions)
<1>1. /\ Len(box) \in Nat /\ DOMAIN box = 1..Len(box) /\ box2[Len(box) + 1] = m
      /\ DOMAIN box2 = 1..Len(box) + 1
      /\ \A j \in DOMAIN box : box2[j] = box[j]
      /\ \A j \in DOMAIN box2 : j \in DOMAIN box \/ j = Len(box) + 1
    BY SentIs
<1>2. ASSUME NEW i \in DOMAIN box2, box2[i].is = "ask"
      PROVE  box2[i].path \in DOMAIN d2 /\ NoTurn(box2, i, box2[i].path)
    <2>1. CASE i = Len(box) + 1
        <3>1. \A j \in DOMAIN box2 : ~(j > i)
            BY <1>1, <2>1
        <3> QED BY <1>1, <1>2, <2>1, <3>1 DEF NoTurn
    <2>2. CASE i \in DOMAIN box
        <3>1. box[i].path \in DOMAIN d /\ NoTurn(box, i, box[i].path) /\ box2[i] = box[i]
            BY <1>1, <1>2, <2>2 DEF AsksAgree
        <3>2. i \in 0..Len(box) /\ box[i].path \in DOMAIN d2 /\ ~Turns(m, box[i].path)
            BY <1>1, <2>2, <3>1
        <3>3. NoTurn(box2, i, box[i].path)
            BY <3>1, <3>2, NoTurnSent
        <3> QED BY <3>1, <3>2, <3>3
    <2> QED BY <1>1, <2>1, <2>2
<1>3. ASSUME NEW q \in questions
      PROVE  q.path \in DOMAIN d2 /\ NoTurn(box2, 0, q.path)
    <2>1. q.path \in DOMAIN d /\ NoTurn(box, 0, q.path) /\ 0 \in 0..Len(box)
        BY <1>1 DEF AsksAgree
    <2> QED BY <2>1, NoTurnSent
<1> QED BY <1>2, <1>3 DEF AsksAgree

LEMMA MessagesHandled ==
    ASSUME NEW d, NEW box, IsSeq(box), box # <<>>, MessagesAgree(d, box)
    PROVE  MessagesAgree(d, Tail(box))
<1> SUFFICES ASSUME NEW i \in DOMAIN Tail(box), Carries(Tail(box)[i]),
                    NoTurn(Tail(box), i, Tail(box)[i].path)
             PROVE  Agrees(d, Tail(box)[i], Tail(box)[i].path)
    BY DEF MessagesAgree
<1>1. i \in Nat /\ i + 1 \in DOMAIN box /\ Tail(box)[i] = box[i + 1]
    BY HandledIs
<1>2. NoTurn(box, i + 1, box[i + 1].path)
    BY <1>1, NoTurnHandled
<1> QED BY <1>1, <1>2 DEF MessagesAgree

\* The buffers after a message: as they were, or as the message has it.
LEMMA BuffersHandled ==
    ASSUME NEW d, NEW box, IsSeq(box), box # <<>>, MessagesAgree(d, box),
           NEW buffers, BuffersAgree(d, box, buffers), NEW buffers2,
           \A path \in DOMAIN buffers2 :
              \/ /\ path \in DOMAIN buffers /\ buffers2[path] = buffers[path]
                 /\ ~Turns(Head(box), path)
              \/ /\ path = Head(box).path /\ Carries(Head(box))
                 /\ buffers2[path].version = Head(box).version
                 /\ buffers2[path].text = Head(box).text
    PROVE  BuffersAgree(d, Tail(box), buffers2)
<1> SUFFICES ASSUME NEW path \in DOMAIN buffers2, NoTurn(Tail(box), 0, path)
             PROVE  Agrees(d, buffers2[path], path)
    BY DEF BuffersAgree
<1>1. 1 \in DOMAIN box /\ Head(box) = box[1] /\ \A j \in DOMAIN box : j \in Int /\ j > 0
    BY HandledIs, SeqIs
<1>2. 0 + 1 = 1 /\ 0 \in Nat
    OBVIOUS
<1>3. NoTurn(box, 1, path)
    BY <1>2, NoTurnHandled
<1>4. CASE /\ path \in DOMAIN buffers /\ buffers2[path] = buffers[path]
           /\ ~Turns(Head(box), path)
    <2>1. ASSUME NEW j \in DOMAIN box PROVE ~Turns(box[j], path)
        <3>1. j = 1 \/ j > 1
            BY <1>1
        <3> QED BY <1>1, <1>3, <1>4, <3>1 DEF NoTurn
    <2>2. NoTurn(box, 0, path)
        BY <2>1 DEF NoTurn
    <2> QED BY <1>4, <2>2 DEF BuffersAgree
<1>5. CASE /\ path = Head(box).path /\ Carries(Head(box))
           /\ buffers2[path].version = Head(box).version
           /\ buffers2[path].text = Head(box).text
    <2>1. Agrees(d, box[1], path)
        BY <1>1, <1>3, <1>5 DEF MessagesAgree
    <2> QED BY <1>1, <1>5, <2>1 DEF Agrees
<1> QED BY <1>4, <1>5

LEMMA AsksHandled ==
    ASSUME NEW d, NEW box, IsSeq(box), box # <<>>, NEW questions,
           AsksAgree(d, box, questions), NEW questions2,
           \A q \in questions2 : q \in questions \/ (q = Head(box) /\ q.is = "ask")
    PROVE  AsksAgree(d, Tail(box), questions2)
<1>1. 1 \in DOMAIN box /\ Head(box) = box[1] /\ 0 + 1 = 1 /\ 0 \in Nat
    BY HandledIs
<1>2. ASSUME NEW i \in DOMAIN Tail(box), Tail(box)[i].is = "ask"
      PROVE  Tail(box)[i].path \in DOMAIN d /\ NoTurn(Tail(box), i, Tail(box)[i].path)
    <2>1. i \in Nat /\ i + 1 \in DOMAIN box /\ Tail(box)[i] = box[i + 1]
        BY HandledIs
    <2>2. box[i + 1].path \in DOMAIN d /\ NoTurn(box, i + 1, box[i + 1].path)
        BY <1>2, <2>1 DEF AsksAgree
    <2> QED BY <2>1, <2>2, NoTurnHandled
<1>3. ASSUME NEW q \in questions2
      PROVE  q.path \in DOMAIN d /\ NoTurn(Tail(box), 0, q.path)
    <2>1. CASE q \in questions
        <3>1. q.path \in DOMAIN d /\ NoTurn(box, 0, q.path)
            BY <2>1 DEF AsksAgree
        <3>2. NoTurn(box, 1, q.path)
            <4>1. \A j \in DOMAIN box : j > 1 => j > 0
                BY SeqIs
            <4> QED BY <3>1, <4>1 DEF NoTurn
        <3> QED BY <1>1, <3>1, <3>2, NoTurnHandled
    <2>2. CASE q = Head(box) /\ q.is = "ask"
        <3>1. q.path \in DOMAIN d /\ NoTurn(box, 1, q.path)
            BY <1>1, <2>2 DEF AsksAgree
        <3> QED BY <1>1, <3>1, NoTurnHandled
    <2> QED BY <2>1, <2>2
<1> QED BY <1>2, <1>3 DEF AsksAgree

-----------------------------------------------------------------------------
(* The invariant                                                           *)

\* A text of a file, under a version of the editor's.
IsAt(path, at) == at.version \in Nat \ {0} /\ IsText(path, at.text)

DocsGood(texts, d) == \A path \in DOMAIN d : path \in DOMAIN texts /\ IsAt(path, d[path])
IsMessage(texts, m) == m.path \in DOMAIN texts /\ (Carries(m) => IsAt(m.path, m))
BoxGood(texts, box) == IsSeq(box) /\ \A i \in DOMAIN box : IsMessage(texts, box[i])
BuffersGood(texts, buffers) ==
    \A path \in DOMAIN buffers :
        /\ Last(path) \in ManifestNames /\ path \in DOMAIN texts
        /\ IsAt(path, buffers[path])
AsksGood(texts, questions) == \A q \in questions : q.path \in DOMAIN texts
OffersGood(offers) == \A o \in offers : Last(o.path) \notin LockNames

\* The codeAction requests the server is at.
Questions == {a.request : a \in asked} \cup {q \in queries : q.is = "ask"}

TextsGood ==
    /\ DocsGood(Project.texts, doc)
    /\ BoxGood(Project.texts, inbox)
    /\ BuffersGood(Project.texts, open)
    /\ AsksGood(Project.texts, Questions)
    /\ OffersGood(menu)

\* Whatever is of a version of a document is of its text.
VersionsAgree ==
    /\ MessagesAgree(doc, inbox)
    /\ BuffersAgree(doc, inbox, open)
    /\ awaited => AsksAgree(doc, inbox, Questions)
    /\ \A o \in menu : OfferAgrees(doc, o)

DocumentsInv == ExtractionInv /\ TextsGood /\ VersionsAgree

LEMMA BoxSent ==
    ASSUME NEW texts, NEW box, BoxGood(texts, box), NEW m, IsMessage(texts, m),
           NEW box2, box2 = Append(box, m)
    PROVE  BoxGood(texts, box2)
<1>1. IsSeq(box)
    BY DEF BoxGood
<1>2. IsSeq(box2) /\ box2[Len(box) + 1] = m
    BY <1>1, SentIs
<1>3. \A i \in DOMAIN box : box2[i] = box[i]
    BY <1>1, SentIs
<1>4. \A i \in DOMAIN box2 : i \in DOMAIN box \/ i = Len(box) + 1
    BY <1>1, SentIs
<1>5. \A i \in DOMAIN box2 : IsMessage(texts, box2[i])
    BY <1>2, <1>3, <1>4 DEF BoxGood
<1> QED BY <1>2, <1>5 DEF BoxGood

LEMMA BoxHandled ==
    ASSUME NEW texts, NEW box, BoxGood(texts, box), box # <<>>
    PROVE  BoxGood(texts, Tail(box)) /\ IsMessage(texts, Head(box))
<1>1. IsSeq(box)
    BY DEF BoxGood
<1>2. /\ IsSeq(Tail(box)) /\ 1 \in DOMAIN box /\ Head(box) = box[1]
      /\ \A i \in DOMAIN Tail(box) : i + 1 \in DOMAIN box /\ Tail(box)[i] = box[i + 1]
    BY <1>1, HandledIs
<1> QED BY <1>2 DEF BoxGood

\* A pass, while the server and the editor do something else.
LEMMA ExtractionStays ==
    ASSUME ExtractionInv, UNCHANGED extractionVars
    PROVE  ExtractionInv' /\ Project' = Project
<1>1. ExtractionInv'
    BY ExtractionInvStep
<1> QED BY <1>1 DEF extractionVars, Project

\* A pass, while a file is written.
LEMMA FileWritten ==
    ASSUME ExtractionInv, NEW path \in DOMAIN Project.texts, NEW text, IsText(path, text),
           files' = [files EXCEPT ![path] = text],
           UNCHANGED <<project, walkVars, visited, phase, packages>>
    PROVE  ExtractionInv' /\ Project' = Project
<1>1. FilesGood'
    <2>1. path \in DOMAIN files /\ DOMAIN files' = DOMAIN files
          /\ \A p \in DOMAIN files : files'[p] = IF p = path THEN text ELSE files[p]
        BY DEF ExtractionInv, FilesGood
    <2>2. \A p \in DOMAIN files : IsPath(p) /\ IsText(p, files[p])
        BY DEF ExtractionInv, FilesGood
    <2>3. \A p \in DOMAIN files' : IsPath(p) /\ IsText(p, files'[p])
        BY <2>1, <2>2
    <2> QED BY <2>1, <2>3 DEF ExtractionInv, FilesGood, Project
<1>2. WalkGood'
    BY DEF ExtractionInv, FilesGood, WalkGood, walkVars
<1>3. Found' = Found /\ Chains' = Chains
    BY FoundStays DEF FoundVars, walkVars
<1>4. ReportGood'
    BY <1>3 DEF ExtractionInv, ReportGood, Done
<1> QED BY <1>1, <1>2, <1>4 DEF ExtractionInv, Project

\* A pass that starts, or is over.
LEMMA AfreshGood ==
    ASSUME ExtractionInv, NEW paths, paths \subseteq DOMAIN files, Afresh(paths),
           phase' # "done", UNCHANGED <<project, files>>
    PROVE  ExtractionInv' /\ Project' = Project
<1>1. FilesGood' /\ Project' = Project
    BY DEF ExtractionInv, FilesGood, Project
<1>2. WalkGood'
    BY NothingIsGood DEF Afresh, WalkGood
<1>3. ReportGood'
    BY DEF ReportGood, Done
<1> QED BY <1>1, <1>2, <1>3 DEF ExtractionInv

\* A text somebody else writes is one a parser can make something of.
LEMMA TextsAreTexts ==
    ASSUME FilesGood, NEW path \in DOMAIN Project.texts
    PROVE  /\ path \in DOMAIN files /\ IsText(path, files[path])
           /\ \A text \in Project.texts[path] : IsText(path, text)
BY ExtractionAssumption DEF FilesGood, Project

LEMMA DocumentsInvInit == DocumentsInit => DocumentsInv
<1> SUFFICES ASSUME DocumentsInit PROVE DocumentsInv
    OBVIOUS
<1>1. ExtractionInv
    BY ExtractionInvInit DEF DocumentsInit
<1>2. DOMAIN <<>> = {} /\ Questions = {}
    BY DEF DocumentsInit, Questions
<1>3. TextsGood
    BY <1>2, EmptyIsSeq DEF DocumentsInit, TextsGood, DocsGood, BoxGood, BuffersGood, AsksGood,
       OffersGood
<1>4. VersionsAgree
    BY <1>2 DEF DocumentsInit, VersionsAgree, MessagesAgree, BuffersAgree
<1> QED BY <1>1, <1>3, <1>4 DEF DocumentsInv

-----------------------------------------------------------------------------
(* The editor                                                              *)

\* A step that sends a message: what is left to show of it.
LEMMA SendsStep ==
    ASSUME DocumentsInv, ExtractionInv', Project' = Project,
           NEW m, inbox' = Append(inbox, m), IsMessage(Project.texts, m),
           Keeps(doc, doc', m), Carries(m) => Agrees(doc', m, m.path),
           UNCHANGED <<open, Questions>>, DocsGood(Project.texts, doc'), OffersGood(menu'),
           awaited' => AsksAgree(doc', inbox', Questions),
           \A o \in menu' : OfferAgrees(doc', o)
    PROVE  DocumentsInv'
<1>1. IsSeq(inbox)
    BY DEF DocumentsInv, TextsGood, BoxGood
<1>2. BoxGood(Project.texts, inbox')
    BY BoxSent DEF DocumentsInv, TextsGood
<1>3. MessagesAgree(doc', inbox')
    BY <1>1, MessagesSent DEF DocumentsInv, VersionsAgree
<1>4. BuffersAgree(doc', inbox', open)
    BY <1>1, BuffersSent DEF DocumentsInv, VersionsAgree
<1>5. TextsGood'
    BY <1>2 DEF DocumentsInv, TextsGood
<1>6. VersionsAgree'
    BY <1>3, <1>4 DEF VersionsAgree
<1> QED BY <1>5, <1>6 DEF DocumentsInv

LEMMA OpensStep ==
    ASSUME DocumentsInv, NEW path \in DOMAIN Project.texts, Opens(path)
    PROVE  DocumentsInv'
<1> DEFINE at == [version |-> 1, text |-> files[path]]
           m == Text("open", path, at)
<1>1. ExtractionInv' /\ Project' = Project
    BY ExtractionStays DEF DocumentsInv, Opens
<1>2. IsAt(path, at)
    BY TextsAreTexts DEF DocumentsInv, ExtractionInv, IsAt
<1>3. /\ m.is = "open" /\ m.path = path /\ m.version = 1 /\ m.text = at.text
      /\ at.version = 1
    BY DEF Text
<1>4. IsMessage(Project.texts, m)
    <2> HIDE DEF m, at
    <2> QED BY <1>2, <1>3 DEF IsMessage, IsAt
<1>5. inbox' = Append(inbox, m) /\ doc' = With(doc, path, at) /\ path \notin DOMAIN doc
      /\ UNCHANGED <<open, Questions, menu, awaited>>
    BY DEF Opens, Sends, serverVars, engineVars, Questions
<1> HIDE DEF m, at
<1>6. /\ DOMAIN doc' = DOMAIN doc \cup {path} /\ doc'[path] = at
      /\ \A p \in DOMAIN doc : doc'[p] = doc[p]
    BY <1>5 DEF With
<1>7. Keeps(doc, doc', m)
    BY <1>6 DEF Keeps, Agrees
<1>8. Agrees(doc', m, m.path)
    BY <1>3, <1>6 DEF Agrees
<1>9. DocsGood(Project.texts, doc')
    BY <1>2, <1>6 DEF DocumentsInv, TextsGood, DocsGood
<1>10. awaited' => AsksAgree(doc', inbox', Questions)
    <2> SUFFICES ASSUME awaited PROVE AsksAgree(doc', inbox', Questions)
        BY <1>5
    <2>1. AsksAgree(doc, inbox, Questions) /\ IsSeq(inbox)
        BY DEF DocumentsInv, VersionsAgree, TextsGood, BoxGood
    <2>2. \A p \in DOMAIN doc : p \in DOMAIN doc' /\ ~Turns(m, p)
        BY <1>3, <1>5, <1>6 DEF Turns
    <2> QED BY <1>3, <1>5, <2>1, <2>2, AsksSent
<1>11. \A o \in menu' : OfferAgrees(doc', o)
    BY <1>5, <1>6 DEF DocumentsInv, VersionsAgree, OfferAgrees
<1>12. OffersGood(menu')
    BY <1>5 DEF DocumentsInv, TextsGood
<1> QED BY <1>1, <1>4, <1>5, <1>7, <1>8, <1>9, <1>10, <1>11, <1>12, SendsStep

\* A document becomes another: what was made for it is made for an older version.
LEMMA BecomesStep ==
    ASSUME DocumentsInv, NEW path \in DOMAIN doc, NEW text, IsText(path, text),
           Becomes(path, text), menu' \subseteq menu
    PROVE  DocumentsInv'
<1> DEFINE v == doc[path].version
           at == [version |-> v + 1, text |-> text]
           m == Text("change", path, at)
<1>1. ExtractionInv' /\ Project' = Project
    BY ExtractionStays DEF DocumentsInv, Becomes
<1>2. path \in DOMAIN Project.texts /\ v \in Nat
    BY DEF DocumentsInv, TextsGood, DocsGood, IsAt
<1>3. /\ m.is = "change" /\ m.path = path /\ m.version = v + 1 /\ m.text = text
      /\ at.version = v + 1 /\ at.text = text
    BY DEF Text
<1>4. inbox' = Append(inbox, m) /\ doc' = [doc EXCEPT ![path] = at]
      /\ UNCHANGED <<open, Questions, awaited>>
    BY DEF Becomes, Sends, serverVars, engineVars, Questions
<1> HIDE DEF m, at
<1>5. v + 1 \in Nat \ {0} /\ \A w \in Nat : w <= v => w <= v + 1 /\ w # v + 1
    BY <1>2
<1>6. IsMessage(Project.texts, m) /\ IsAt(path, at)
    BY <1>2, <1>3, <1>5 DEF IsMessage, IsAt
<1>7. /\ DOMAIN doc' = DOMAIN doc /\ doc'[path] = at
      /\ \A p \in DOMAIN doc : p # path => doc'[p] = doc[p]
    BY <1>4
<1>8. ASSUME NEW p, NEW w, Agrees(doc, w, p) PROVE Agrees(doc', w, p)
    <2>1. CASE p = path
        <3>1. w.version \in Nat /\ w.version <= v
            BY <1>8, <2>1 DEF Agrees
        <3>2. w.version <= v + 1 /\ w.version # v + 1
            BY <1>5, <3>1
        <3> HIDE DEF v
        <3> QED BY <1>3, <1>7, <2>1, <3>1, <3>2 DEF Agrees
    <2>2. CASE p # path
        BY <1>7, <1>8, <2>2 DEF Agrees
    <2> QED BY <2>1, <2>2
<1>9. Keeps(doc, doc', m)
    BY <1>8 DEF Keeps
<1>10. Agrees(doc', m, m.path)
    <2> HIDE DEF v
    <2> QED BY <1>3, <1>5, <1>7 DEF Agrees
<1>11. DocsGood(Project.texts, doc')
    BY <1>6, <1>7 DEF DocumentsInv, TextsGood, DocsGood
<1>12. awaited' => AsksAgree(doc', inbox', Questions)
    <2> SUFFICES ASSUME awaited PROVE AsksAgree(doc', inbox', Questions)
        BY <1>4
    <2>1. AsksAgree(doc, inbox, Questions) /\ IsSeq(inbox)
        BY DEF DocumentsInv, VersionsAgree, TextsGood, BoxGood
    <2>2. \A p \in DOMAIN doc : p \in DOMAIN doc' /\ ~Turns(m, p)
        BY <1>3, <1>7 DEF Turns
    <2> QED BY <1>3, <1>4, <2>1, <2>2, AsksSent
<1>13. ASSUME NEW o \in menu' PROVE OfferAgrees(doc', o)
    <2>1. OfferAgrees(doc, o)
        BY DEF DocumentsInv, VersionsAgree
    <2>2. CASE o.path = path
        <3>1. o.version # Unversioned => o.version \in Nat /\ o.version <= v
            BY <2>1, <2>2 DEF OfferAgrees
        <3>2. o.version # Unversioned => o.version <= v + 1 /\ o.version # v + 1
            BY <1>5, <3>1
        <3> HIDE DEF v
        <3> QED BY <1>3, <1>7, <2>2, <3>1, <3>2 DEF OfferAgrees
    <2>3. CASE o.path # path
        BY <1>7, <2>1, <2>3 DEF OfferAgrees
    <2> QED BY <2>2, <2>3
<1>14. OffersGood(menu')
    BY DEF DocumentsInv, TextsGood, OffersGood
<1> QED BY <1>1, <1>4, <1>6, <1>9, <1>10, <1>11, <1>12, <1>13, <1>14, SendsStep

LEMMA TypesStep ==
    ASSUME DocumentsInv, NEW path \in DOMAIN Project.texts, Types(path)
    PROVE  DocumentsInv'
<1>1. PICK text \in Project.texts[path] : Becomes(path, text)
    BY DEF Types
<1>2. path \in DOMAIN doc /\ menu' = menu
    BY DEF Types
<1>3. IsText(path, text)
    BY TextsAreTexts DEF DocumentsInv, ExtractionInv
<1> QED BY <1>1, <1>2, <1>3, BecomesStep

\* A version written into a statement leaves what a parser can make something of.
LEMMA RewrittenIsText ==
    ASSUME NEW path, Last(path) \notin LockNames, NEW text, IsText(path, text), NEW line, NEW to
    PROVE  IsText(path, Rewritten(text, line, to))
<1> SUFFICES ASSUME text # Unreadable, line \in DOMAIN text
             PROVE  IsText(path, [text EXCEPT ![line].version = to])
    BY DEF Rewritten
<1> DEFINE new == [text EXCEPT ![line].version = to]
<1>1. IsSeq(text)
    BY DEF IsText
<1>2. DOMAIN new = DOMAIN text /\ new[line] = [text[line] EXCEPT !.version = to]
      /\ \A i \in DOMAIN text : i # line => new[i] = text[i]
    OBVIOUS
<1>7. new = [i \in DOMAIN text |-> new[i]]
    OBVIOUS
<1> HIDE DEF new
<1>3. IsSeq(new)
    BY <1>1, <1>7, MapIs
<1>4. ASSUME NEW d, Includes(d) PROVE Includes([d EXCEPT !.version = to])
    BY <1>4 DEF Includes
<1>5. ASSUME NEW i \in DOMAIN text
      PROVE  /\ \A f \in {"version", "bare"} : f \in DOMAIN text[i] => f \in DOMAIN new[i]
             /\ Includes(text[i]) => Includes(new[i])
    <2>1. CASE i = line
        <3>1. DOMAIN [text[line] EXCEPT !.version = to] = DOMAIN text[line]
            OBVIOUS
        <3>2. new[i] = [text[i] EXCEPT !.version = to] /\ DOMAIN new[i] = DOMAIN text[i]
            BY <1>2, <2>1, <3>1
        <3> QED BY <1>4, <3>2
    <2>2. CASE i # line
        BY <1>2, <2>2
    <2> QED BY <2>1, <2>2
<1>6. IsText(path, new)
    BY <1>2, <1>3, <1>5 DEF IsText
<1> QED BY <1>6 DEF new

LEMMA TakesFixStep ==
    ASSUME DocumentsInv, NEW offer \in menu, TakesFix(offer)
    PROVE  DocumentsInv'
<1>1. menu' = {} /\ offer.path \in DOMAIN doc /\ Last(offer.path) \notin LockNames
    BY DEF TakesFix, DocumentsInv, VersionsAgree, OfferAgrees, TextsGood, OffersGood
<1>2. CASE Fits(offer)
    <2> DEFINE text == Rewritten(doc[offer.path].text, offer.line, offer.to)
    <2>1. Becomes(offer.path, text)
        BY <1>2 DEF TakesFix
    <2>2. IsText(offer.path, doc[offer.path].text)
        BY <1>1 DEF DocumentsInv, TextsGood, DocsGood, IsAt
    <2>3. IsText(offer.path, text)
        BY <1>1, <2>2, RewrittenIsText
    <2> HIDE DEF text
    <2> QED BY <1>1, <2>1, <2>3, BecomesStep
<1>3. CASE ~Fits(offer)
    <2>1. UNCHANGED <<extractionVars, doc, awaited, inbox, open, Questions>>
        BY <1>3 DEF TakesFix, serverVars, engineVars, Questions
    <2>2. ExtractionInv' /\ Project' = Project
        BY <2>1, ExtractionStays DEF DocumentsInv
    <2>3. TextsGood'
        BY <1>1, <2>1, <2>2 DEF DocumentsInv, TextsGood, OffersGood
    <2>4. VersionsAgree'
        BY <1>1, <2>1 DEF DocumentsInv, VersionsAgree
    <2> QED BY <2>2, <2>3, <2>4 DEF DocumentsInv
<1> QED BY <1>2, <1>3

LEMMA ClosesStep ==
    ASSUME DocumentsInv, NEW path, Closes(path)
    PROVE  DocumentsInv'
<1> DEFINE m == Message("close", path)
<1>1. ExtractionInv' /\ Project' = Project
    BY ExtractionStays DEF DocumentsInv, Closes
<1>2. m.is = "close" /\ m.path = path
    BY DEF Message
<1>3. /\ path \in DOMAIN doc /\ inbox' = Append(inbox, m) /\ menu' = {} /\ awaited' = FALSE
      /\ doc' = Restrict(doc, DOMAIN doc \ {path}) /\ UNCHANGED <<open, Questions>>
    BY DEF Closes, Sends, serverVars, engineVars, Questions
<1> HIDE DEF m
<1>4. IsMessage(Project.texts, m) /\ ~Carries(m)
    BY <1>2, <1>3 DEF IsMessage, Carries, DocumentsInv, TextsGood, DocsGood
<1>5. DOMAIN doc' = DOMAIN doc \ {path} /\ \A p \in DOMAIN doc' : doc'[p] = doc[p]
    BY <1>3 DEF Restrict
<1>6. Keeps(doc, doc', m)
    BY <1>2, <1>5 DEF Keeps, Agrees, Turns
<1>7. DocsGood(Project.texts, doc') /\ OffersGood(menu')
    BY <1>3, <1>5 DEF DocumentsInv, TextsGood, DocsGood, OffersGood
<1> QED BY <1>1, <1>3, <1>4, <1>6, <1>7, SendsStep

\* A message that says nothing of a document.
LEMMA NoticeStep ==
    ASSUME DocumentsInv, ExtractionInv', Project' = Project,
           NEW m, m.is \in {"save", "watched", "deleted"}, m.path \in DOMAIN Project.texts,
           inbox' = Append(inbox, m), UNCHANGED <<doc, menu, awaited, open, Questions>>
    PROVE  DocumentsInv'
<1>1. ~Carries(m) /\ (\A p : ~Turns(m, p)) /\ m.is # "ask"
    BY DEF Carries, Turns
<1>2. IsMessage(Project.texts, m) /\ Keeps(doc, doc', m)
    BY <1>1 DEF IsMessage, Keeps
<1>3. DocsGood(Project.texts, doc') /\ OffersGood(menu')
    BY DEF DocumentsInv, TextsGood
<1>4. awaited' => AsksAgree(doc', inbox', Questions)
    <2> SUFFICES ASSUME awaited PROVE AsksAgree(doc', inbox', Questions)
        OBVIOUS
    <2>1. AsksAgree(doc, inbox, Questions) /\ IsSeq(inbox)
        BY DEF DocumentsInv, VersionsAgree, TextsGood, BoxGood
    <2> QED BY <1>1, <2>1, AsksSent
<1>5. \A o \in menu' : OfferAgrees(doc', o)
    BY DEF DocumentsInv, VersionsAgree
<1> QED BY <1>1, <1>2, <1>3, <1>4, <1>5, SendsStep

LEMMA SavesStep ==
    ASSUME DocumentsInv, NEW path \in DOMAIN Project.texts, Saves(path)
    PROVE  DocumentsInv'
<1> DEFINE m == Message("save", path)
<1>1. /\ files' = [files EXCEPT ![path] = doc[path].text] /\ path \in DOMAIN doc
      /\ UNCHANGED <<project, walkVars, visited, phase, packages>>
      /\ inbox' = Append(inbox, m) /\ UNCHANGED <<doc, menu, awaited, open, Questions>>
    BY DEF Saves, Sends, editorVars, serverVars, engineVars, Questions
<1>2. IsText(path, doc[path].text)
    BY <1>1 DEF DocumentsInv, TextsGood, DocsGood, IsAt
<1>3. ExtractionInv' /\ Project' = Project
    BY <1>1, <1>2, FileWritten DEF DocumentsInv
<1>4. m.is = "save" /\ m.path = path
    BY DEF Message
<1> HIDE DEF m
<1> QED BY <1>1, <1>3, <1>4, NoticeStep

\* Another tool writes or deletes a file.
LEMMA RewritesStep ==
    ASSUME DocumentsInv, NEW path \in DOMAIN Project.texts, Rewrites(path) \/ Deletes(path)
    PROVE  DocumentsInv'
<1>1. PICK text \in Project.texts[path] \cup {Unreadable} : files' = [files EXCEPT ![path] = text]
    BY DEF Rewrites, Deletes
<1>2. PICK m \in {Message("watched", path), Message("deleted", path)} :
          inbox' = Append(inbox, m) \/ inbox' = inbox
    BY DEF Rewrites, Deletes, Sends
<1>3. /\ UNCHANGED <<project, walkVars, visited, phase, packages>>
      /\ UNCHANGED <<doc, menu, awaited, open, Questions>>
    BY DEF Rewrites, Deletes, editorVars, serverVars, engineVars, Questions
<1>4. ExtractionInv' /\ Project' = Project
    <2>1. IsText(path, text)
        BY TextsAreTexts DEF DocumentsInv, ExtractionInv, IsText
    <2> QED BY <1>1, <1>3, <2>1, FileWritten DEF DocumentsInv
<1>5. m.is \in {"watched", "deleted"} /\ m.path = path
    BY DEF Message
<1>6. CASE inbox' = Append(inbox, m)
    BY <1>3, <1>4, <1>5, <1>6, NoticeStep
<1>7. CASE inbox' = inbox
    BY <1>3, <1>4, <1>7 DEF DocumentsInv, TextsGood, VersionsAgree
<1> QED BY <1>2, <1>6, <1>7

LEMMA AsksActionStep ==
    ASSUME DocumentsInv, NEW path \in DOMAIN Project.texts, AsksAction(path)
    PROVE  DocumentsInv'
<1>1. ExtractionInv' /\ Project' = Project
    BY ExtractionStays DEF DocumentsInv, AsksAction
<1>2. PICK codes, line :
          Sends([is |-> "ask", path |-> path, codes |-> codes, line |-> line])
    BY DEF AsksAction
<1> DEFINE m == [is |-> "ask", path |-> path, codes |-> codes, line |-> line]
<1>3. Questions = {} /\ \A i \in DOMAIN inbox : inbox[i].is # "ask"
    BY DEF AsksAction, Range, Questions
<1>4. path \in DOMAIN doc /\ menu' = {} /\ UNCHANGED <<doc, open, Questions>>
    BY DEF AsksAction, serverVars, engineVars, Questions
<1>5. inbox' = Append(inbox, m) /\ m.is = "ask" /\ m.path = path
    BY <1>2 DEF Sends
<1> HIDE DEF m
<1>6. ~Carries(m) /\ (\A p : ~Turns(m, p))
    BY <1>5 DEF Carries, Turns
<1>7. IsMessage(Project.texts, m) /\ Keeps(doc, doc', m)
    BY <1>4, <1>5, <1>6 DEF IsMessage, Keeps
<1>8. DocsGood(Project.texts, doc') /\ OffersGood(menu')
    BY <1>4 DEF DocumentsInv, TextsGood, OffersGood
<1>9. AsksAgree(doc', inbox', Questions)
    <2>1. AsksAgree(doc, inbox, Questions) /\ IsSeq(inbox)
        BY <1>3 DEF AsksAgree, DocumentsInv, TextsGood, BoxGood
    <2> QED BY <1>4, <1>5, <1>6, <2>1, AsksSent
<1>10. \A o \in menu' : OfferAgrees(doc', o)
    BY <1>4
<1> QED BY <1>1, <1>4, <1>5, <1>6, <1>7, <1>8, <1>9, <1>10, SendsStep

-----------------------------------------------------------------------------
(* The server                                                              *)

\* A step that handles a message: what is left to show of it.
LEMMA HandlesStep ==
    ASSUME DocumentsInv, ExtractionInv', Project' = Project,
           inbox # <<>>, inbox' = Tail(inbox), UNCHANGED <<doc, menu, awaited>>,
           BuffersGood(Project.texts, open'),
           \A path \in DOMAIN open' :
              \/ /\ path \in DOMAIN open /\ open'[path] = open[path]
                 /\ ~Turns(Next1, path)
              \/ /\ path = Next1.path /\ Carries(Next1)
                 /\ open'[path].version = Next1.version
                 /\ open'[path].text = Next1.text,
           \A q \in Questions' : q \in Questions \/ (q = Next1 /\ q.is = "ask")
    PROVE  DocumentsInv'
<1>1. IsSeq(inbox) /\ MessagesAgree(doc, inbox) /\ BuffersAgree(doc, inbox, open)
    BY DEF DocumentsInv, TextsGood, VersionsAgree, BoxGood
<1>2. BoxGood(Project.texts, inbox') /\ IsMessage(Project.texts, Next1)
    BY BoxHandled DEF DocumentsInv, TextsGood, Next1
<1>3. AsksGood(Project.texts, Questions')
    BY <1>2 DEF DocumentsInv, TextsGood, AsksGood, IsMessage
<1>4. TextsGood'
    BY <1>2, <1>3 DEF DocumentsInv, TextsGood
<1>5. MessagesAgree(doc, inbox')
    BY <1>1, MessagesHandled
<1>6. BuffersAgree(doc, inbox', open')
    BY <1>1, BuffersHandled DEF Next1
<1>7. awaited => AsksAgree(doc, inbox', Questions')
    BY <1>1, AsksHandled DEF DocumentsInv, VersionsAgree, Next1
<1>8. VersionsAgree'
    BY <1>5, <1>6, <1>7 DEF DocumentsInv, VersionsAgree
<1> QED BY <1>4, <1>8 DEF DocumentsInv

\* What track() makes of the buffers.
LEMMA TrackStep ==
    ASSUME DocumentsInv, ExtractionInv', Project' = Project,
           Handles("open") \/ Handles("change"), open' = Track(Next1.path, At(Next1)),
           UNCHANGED <<doc, menu, awaited, Questions>>
    PROVE  DocumentsInv'
<1> DEFINE m == Next1
           path == m.path
           at == At(m)
<1>1. inbox # <<>> /\ inbox' = Tail(inbox) /\ Carries(m)
    BY DEF Handles, Carries
<1>2. IsMessage(Project.texts, m)
    BY <1>1, BoxHandled DEF DocumentsInv, TextsGood, Next1
<1>3. path \in DOMAIN Project.texts /\ IsAt(path, at) /\ at.version = m.version /\ at.text = m.text
    BY <1>1, <1>2 DEF IsMessage, IsAt, At
<1>4. BuffersGood(Project.texts, open)
    BY DEF DocumentsInv, TextsGood
<1> HIDE DEF m, path, at
<1>5. \A p \in DOMAIN open' :
         \/ /\ p \in DOMAIN open /\ open'[p] = open[p] /\ p # path
         \/ /\ p = path /\ open'[p] = at /\ Last(path) \in ManifestNames
    <2>1. CASE Last(path) \notin ManifestNames
        <3>1. open' = open
            BY <2>1 DEF Track, m, path
        <3> QED BY <1>4, <2>1, <3>1 DEF BuffersGood
    <2>2. CASE Last(path) \in ManifestNames /\ at.text = Unreadable
        <3>1. open' = Restrict(open, DOMAIN open \ {path})
            BY <2>2 DEF Track, m, path, at
        <3> QED BY <3>1 DEF Restrict
    <2>3. CASE Last(path) \in ManifestNames /\ at.text # Unreadable
        <3>1. open' = With(open, path, at)
            BY <2>3 DEF Track, m, path, at
        <3> QED BY <2>3, <3>1 DEF With
    <2> QED BY <2>1, <2>2, <2>3
<1>6. BuffersGood(Project.texts, open')
    BY <1>3, <1>4, <1>5 DEF BuffersGood
<1>7. \A p \in DOMAIN open' :
         \/ /\ p \in DOMAIN open /\ open'[p] = open[p] /\ ~Turns(Next1, p)
         \/ /\ p = Next1.path /\ Carries(Next1)
            /\ open'[p].version = Next1.version /\ open'[p].text = Next1.text
    BY <1>1, <1>3, <1>5 DEF Turns, m, path
<1> QED BY <1>1, <1>6, <1>7, HandlesStep

LEMMA DidOpenStep ==
    ASSUME DocumentsInv, DidOpen
    PROVE  DocumentsInv'
<1>1. ExtractionInv' /\ Project' = Project
    BY ExtractionStays DEF DocumentsInv, DidOpen
<1>2. UNCHANGED Questions
    BY DEF DidOpen, Questions
<1> QED BY <1>1, <1>2, TrackStep DEF DidOpen, editorVars

LEMMA DidChangeStep ==
    ASSUME DocumentsInv, DidChange
    PROVE  DocumentsInv'
<1>1. ExtractionInv' /\ Project' = Project
    BY ExtractionStays DEF DocumentsInv, DidChange
<1>2. UNCHANGED Questions
    BY DEF DidChange, engineVars, Questions
<1> QED BY <1>1, <1>2, TrackStep DEF DidChange, editorVars

LEMMA DidCloseStep ==
    ASSUME DocumentsInv, DidClose
    PROVE  DocumentsInv'
<1>1. ExtractionInv' /\ Project' = Project
    BY ExtractionStays DEF DocumentsInv, DidClose
<1>2. /\ inbox # <<>> /\ inbox' = Tail(inbox) /\ UNCHANGED <<doc, menu, awaited, Questions>>
      /\ open' = Restrict(open, DOMAIN open \ {Next1.path})
    BY DEF DidClose, Handles, editorVars, engineVars, Questions
<1>3. \A p \in DOMAIN open' : p \in DOMAIN open /\ open'[p] = open[p] /\ p # Next1.path
    BY <1>2 DEF Restrict
<1>4. BuffersGood(Project.texts, open')
    BY <1>3 DEF DocumentsInv, TextsGood, BuffersGood
<1>5. \A p \in DOMAIN open' : p \in DOMAIN open /\ open'[p] = open[p] /\ ~Turns(Next1, p)
    BY <1>3 DEF Turns
<1> QED BY <1>1, <1>2, <1>4, <1>5, HandlesStep

\* A message that says nothing of a document.
LEMMA NoticedStep ==
    ASSUME DocumentsInv, DidSave \/ DidChangeWatched \/ DidDelete \/ CodeAction
    PROVE  DocumentsInv'
<1>1. ExtractionInv' /\ Project' = Project
    BY ExtractionStays DEF DocumentsInv, DidSave, DidChangeWatched, DidDelete, CodeAction
<1>2. /\ inbox # <<>> /\ inbox' = Tail(inbox) /\ Next1.is \in {"save", "watched", "deleted", "ask"}
      /\ UNCHANGED <<doc, menu, awaited, open>>
      /\ asked' = asked /\ queries' \subseteq queries \cup {Next1}
    BY DEF DidSave, DidChangeWatched, DidDelete, CodeAction, Handles, editorVars
<1>3. \A q \in Questions' : q \in Questions \/ (q = Next1 /\ q.is = "ask")
    BY <1>2 DEF Questions
<1>4. BuffersGood(Project.texts, open')
    BY <1>2 DEF DocumentsInv, TextsGood
<1>5. \A p \in DOMAIN open' : p \in DOMAIN open /\ open'[p] = open[p] /\ ~Turns(Next1, p)
    BY <1>2 DEF Turns
<1> QED BY <1>1, <1>2, <1>3, <1>4, <1>5, HandlesStep

-----------------------------------------------------------------------------
(* What can be rewritten                                                   *)

LEMMA SeenInIs ==
    ASSUME NEW path, NEW text, IsText(path, text)
    PROVE  /\ IsSeq(SeenIn(text, path))
           /\ Last(path) \in LockNames =>
                 \A i \in DOMAIN SeenIn(text, path) : ~SeenIn(text, path)[i].editable
<1>1. CASE text = Unreadable
    BY <1>1, EmptyIsSeq DEF SeenIn
<1>2. CASE text # Unreadable
    BY <1>2, ParseIs DEF SeenIn, AllSeen
<1> QED BY <1>1, <1>2

\* version_span() names the line of a version that can be rewritten, of the
\* package, where it was found or where alone it is named.
LEMMA VersionSpanIs ==
    ASSUME NEW seen, IsSeq(seen), NEW x, VersionSpan(seen, x) # NoLine
    PROVE  \E i \in Named(seen, x) :
              /\ VersionSpan(seen, x) = seen[i].evidence[2] /\ seen[i].editable
              /\ Named(seen, x) = {i} \/ seen[i].evidence[2] = AnchorSite(x.package)[2]
<1> DEFINE named == Named(seen, x)
           exact == {i \in named : seen[i].evidence[2] = AnchorSite(x.package)[2]}
<1>1. named \subseteq Nat /\ exact \subseteq named
    BY SeqIs DEF Named
<1>2. CASE exact # {}
    <2>1. Min(exact) \in exact
        BY <1>1, <1>2, FirstPlace
    <2>2. VersionSpan(seen, x) = Span(seen[Min(exact)])
        BY <1>2 DEF VersionSpan
    <2> DEFINE i == Min(exact)
    <2> HIDE DEF i
    <2>3. i \in exact /\ VersionSpan(seen, x) = Span(seen[i])
        BY <2>1, <2>2 DEF i
    <2> QED BY <2>3 DEF Span
<1>3. CASE exact = {}
    <2>1. Cardinality(named) = 1 /\ VersionSpan(seen, x) = Span(seen[Min(named)])
        BY <1>3 DEF VersionSpan
    <2>2. IsFiniteSet(named)
        <3>1. named \subseteq 1..Len(seen) /\ 1 \in Int /\ Len(seen) \in Int
            BY SeqIs DEF Named
        <3>2. IsFiniteSet(1..Len(seen))
            BY <3>1, FS_Interval
        <3> QED BY <3>1, <3>2, FS_Subset
    <2>3. PICK i : named = {i}
        <3> HIDE DEF named
        <3> QED BY <2>1, <2>2, FS_Singleton
    <2>4. Min(named) = i
        <3>1. Min(named) \in named
            BY <1>1, <2>3, FirstPlace
        <3> QED BY <2>3, <3>1
    <2>5. i \in named /\ VersionSpan(seen, x) = Span(seen[i])
        BY <2>1, <2>3, <2>4
    <2> QED BY <2>3, <2>5 DEF Span
<1> QED BY <1>2, <1>3

\* What an answer offers is of the version of the buffer it was made from.
LEMMA AnswersActionStep ==
    ASSUME DocumentsInv, AnswersAction
    PROVE  DocumentsInv'
<1>1. ExtractionInv' /\ Project' = Project
    BY ExtractionStays DEF DocumentsInv, AnswersAction
<1>2. /\ asked' = {} /\ awaited' = FALSE /\ UNCHANGED <<doc, inbox, open>>
      /\ Questions' \subseteq Questions
    BY DEF AnswersAction, Questions
<1>3. PICK a \in asked :
          LET source == Source(a.request.path)
              offers == Upgrades(a.request.path, source.version, source.text, a.findings, a.request)
          IN menu' = IF awaited THEN offers ELSE menu
    BY DEF AnswersAction
<1> DEFINE path == a.request.path
           source == Source(path)
           seen == SeenIn(source.text, path)
<1>4. path \in DOMAIN Project.texts /\ a.request \in Questions
    BY DEF DocumentsInv, TextsGood, AsksGood, Questions
<1>5. IsText(path, source.text)
    <2>1. CASE path \in DOMAIN open
        BY <2>1 DEF Source, DocumentsInv, TextsGood, BuffersGood, IsAt
    <2>2. CASE path \notin DOMAIN open
        <3>1. source.text = Read(path)
            BY <2>2 DEF Source
        <3>2. Read(path) \in {files[path], Unreadable} /\ IsText(path, files[path])
            BY <1>4, TextsAreTexts, WalkedIsRead DEF DocumentsInv, ExtractionInv
        <3> QED BY <3>1, <3>2 DEF IsText
    <2> QED BY <2>1, <2>2
<1>6. ASSUME awaited, NEW o \in menu'
      PROVE  OfferAgrees(doc, o) /\ Last(o.path) \notin LockNames
    <2>1. PICK x \in a.findings :
              /\ VersionSpan(seen, x) # NoLine
              /\ o = [path |-> path, version |-> source.version, line |-> VersionSpan(seen, x),
                      to |-> x.known.fix, finding |-> x]
        BY <1>3, <1>6 DEF Upgrades
    <2>2. /\ o.path = path /\ o.version = source.version
          /\ o.line = VersionSpan(seen, x) /\ o.finding = x
        BY <2>1
    <2> HIDE DEF seen, source
    <2>3. PICK i \in Named(seen, x) : seen[i].editable
        <3>1. IsSeq(seen)
            BY <1>5, SeenInIs DEF seen
        <3> QED BY <2>1, <3>1, VersionSpanIs
    <2>4. Last(path) \notin LockNames
        <3>1. i \in DOMAIN SeenIn(source.text, path) /\ SeenIn(source.text, path)[i].editable
            BY <2>3 DEF seen, Named
        <3> QED BY <1>5, <3>1, SeenInIs
    <2>5. path \in DOMAIN doc /\ NoTurn(inbox, 0, path)
        BY <1>4, <1>6 DEF DocumentsInv, VersionsAgree, AsksAgree
    <2>6. CASE path \in DOMAIN open
        <3>1. source = open[path]
            BY <2>6 DEF source, Source
        <3>2. Agrees(doc, source, path)
            BY <2>5, <2>6, <3>1 DEF DocumentsInv, VersionsAgree, BuffersAgree
        <3>3. source.version = doc[path].version => seen = SeenIn(doc[path].text, path)
            BY <3>2 DEF Agrees, seen
        <3>4. OfferAgrees(doc, o)
            BY <2>1, <2>2, <2>5, <3>2, <3>3 DEF OfferAgrees, Agrees
        <3> QED BY <2>2, <2>4, <3>4
    <2>7. CASE path \notin DOMAIN open
        <3>1. source.version = Unversioned
            BY <2>7 DEF source, Source
        <3> QED BY <2>2, <2>4, <2>5, <3>1 DEF OfferAgrees
    <2> QED BY <2>6, <2>7
<1>7. ASSUME NEW o \in menu' PROVE OfferAgrees(doc, o) /\ Last(o.path) \notin LockNames
    <2>1. ~awaited => menu' = menu
        BY <1>3
    <2> QED BY <1>6, <2>1 DEF DocumentsInv, VersionsAgree, TextsGood, OffersGood
<1>8. TextsGood'
    BY <1>1, <1>2, <1>7 DEF DocumentsInv, TextsGood, AsksGood, OffersGood
<1>9. VersionsAgree'
    BY <1>2, <1>7 DEF DocumentsInv, VersionsAgree
<1> QED BY <1>1, <1>8, <1>9 DEF DocumentsInv

\* What a query waits for is said to it, or published.
LEMMA RepliesStep ==
    ASSUME DocumentsInv, Replies \/ RendersFile \/ Delivers
    PROVE  DocumentsInv'
<1>1. ExtractionInv' /\ Project' = Project
    BY ExtractionStays DEF DocumentsInv, Replies, RendersFile, Delivers
<1>2. UNCHANGED <<doc, menu, awaited, inbox, open>>
    BY DEF Replies, RendersFile, Delivers, editorVars
<1>3. Questions' \subseteq Questions
    <2>1. CASE Replies
        <3>1. PICK q \in queries : queries' = queries \ {q} /\ (RepliesToOpen(q) \/ RepliesToAsk(q))
            BY <2>1 DEF Replies
        <3>2. CASE asked' = asked
            BY <3>1, <3>2 DEF Questions
        <3>3. CASE asked' # asked
            <4>1. q.is = "ask" /\ asked' = {[request |-> q, findings |-> ByFile(found, q.path)]}
                BY <3>1, <3>3 DEF RepliesToOpen, RepliesToAsk
            <4>2. \A a \in asked' : a.request = q
                BY <4>1
            <4> QED BY <3>1, <4>1, <4>2 DEF Questions
        <3> QED BY <3>2, <3>3
    <2>2. CASE RendersFile \/ Delivers
        BY <2>2 DEF RendersFile, Delivers, engineVars, Questions
    <2> QED BY <2>1, <2>2
<1>4. TextsGood'
    BY <1>1, <1>2, <1>3 DEF DocumentsInv, TextsGood, AsksGood
<1>5. VersionsAgree'
    BY <1>2, <1>3 DEF DocumentsInv, VersionsAgree, AsksAgree
<1> QED BY <1>1, <1>4, <1>5 DEF DocumentsInv

\* The scans say nothing of the documents.
LEMMA ScansStep ==
    ASSUME DocumentsInv, ScanStarts \/ ScanReports \/ Scans
    PROVE  DocumentsInv'
<1>1. UNCHANGED <<doc, menu, awaited, inbox, open, Questions>>
    BY DEF ScanStarts, ScanReports, Scans, editorVars, serverVars, engineVars, Questions
<1>2. ExtractionInv' /\ Project' = Project
    <2>1. CASE ScanStarts
        <3> DEFINE paths == {path \in DOMAIN files : Walkable(path)}
        <3>1. Afresh(paths) /\ phase' # "done" /\ UNCHANGED <<project, files>>
            BY <2>1 DEF ScanStarts
        <3>2. paths \subseteq DOMAIN files
            OBVIOUS
        <3> HIDE DEF paths
        <3> QED BY <3>1, <3>2, AfreshGood DEF DocumentsInv
    <2>2. CASE ScanReports
        <3>1. Afresh({}) /\ phase' # "done" /\ UNCHANGED <<project, files>>
            BY <2>2 DEF ScanReports
        <3> QED BY <3>1, AfreshGood DEF DocumentsInv
    <2>3. CASE Scans
        <3>1. ExtractionInv'
            BY <2>3, ExtractionInvStep DEF Scans, DocumentsInv
        <3>2. project' = project
            BY <2>3 DEF Scans, Extracts, PassesOver, HoldsLock, ReadsManifest, Enters, WalkEnds,
               FollowsInclude, Reconciles
        <3> QED BY <3>1, <3>2 DEF Project
    <2> QED BY <2>1, <2>2, <2>3
<1> QED BY <1>1, <1>2 DEF DocumentsInv, TextsGood, VersionsAgree

LEMMA DocumentsInvStep == DocumentsInv /\ [DocumentsNext]_documentVars => DocumentsInv'
<1> SUFFICES ASSUME DocumentsInv, [DocumentsNext]_documentVars PROVE DocumentsInv'
    OBVIOUS
<1>1. CASE UNCHANGED documentVars
    <2>1. UNCHANGED extractionVars /\ UNCHANGED <<doc, menu, awaited, inbox, open, Questions>>
        BY <1>1 DEF documentVars, editorVars, serverVars, engineVars, Questions
    <2>2. ExtractionInv' /\ Project' = Project
        BY <2>1, ExtractionStays DEF DocumentsInv
    <2> QED BY <2>1, <2>2 DEF DocumentsInv, TextsGood, VersionsAgree
<1>2. CASE Edits
    BY <1>2, OpensStep, TypesStep, SavesStep, ClosesStep, AsksActionStep, RewritesStep,
       TakesFixStep DEF Edits
<1>3. CASE Serves \/ Scans
    BY <1>3, DidOpenStep, DidChangeStep, DidCloseStep, NoticedStep, RepliesStep,
       AnswersActionStep, ScansStep DEF Serves
<1> QED BY <1>1, <1>2, <1>3 DEF DocumentsNext

-----------------------------------------------------------------------------
(* The theorems                                                            *)

\* Whatever is edited while a pass runs, the pass, the buffers and the messages
\* are well formed, and whatever is of a document's version is of its text.
THEOREM DocumentsAreWellFormed == DocumentsSpec => []DocumentsInv
<1>1. DocumentsInit => DocumentsInv
    BY DocumentsInvInit
<1>2. DocumentsInv /\ [DocumentsNext]_documentVars => DocumentsInv'
    BY DocumentsInvStep
<1> QED BY <1>1, <1>2, PTL DEF DocumentsSpec

\* Of all that a pass saw nothing is lost between two files, whatever is written
\* while it runs (NothingHidden of Extraction, under the server's actions).
THEOREM NothingIsHiddenWhileEdited == DocumentsSpec => []NothingHidden
<1>1. DocumentsInv => NothingHidden
    BY ReportHidesNothing DEF DocumentsInv
<1> QED BY <1>1, DocumentsAreWellFormed, PTL

\* What ships by any route is reported to ship, whatever is written while the
\* pass runs (ShippingStaysShipping of Extraction).
THEOREM ShippingIsReportedWhileEdited == DocumentsSpec => []ShippingStaysShipping
<1>1. DocumentsInv => ShippingStaysShipping
    BY ReportShips DEF DocumentsInv
<1> QED BY <1>1, DocumentsAreWellFormed, PTL

-----------------------------------------------------------------------------
(* An edit that is accepted                                                *)

Lands(fix) ==
    LET offer == fix.offer
        seen  == SeenIn(fix.before, offer.path)
        named == Named(seen, offer.finding)
    IN offer.version # Unversioned =>
          \E i \in named :
             /\ seen[i].evidence[2] = offer.line /\ seen[i].editable
             /\ named = {i} \/ offer.line = AnchorSite(offer.finding.package)[2]

\* The fix that is taken is of the document's version, hence of its text.
LEMMA FixLands ==
    ASSUME DocumentsInv, NEW offer \in menu, Fits(offer), NEW after
    PROVE  Lands([offer |-> offer, before |-> doc[offer.path].text, after |-> after])
<1> DEFINE text == doc[offer.path].text
           seen == SeenIn(text, offer.path)
           x == offer.finding
           fix == [offer |-> offer, before |-> text, after |-> after]
<1>1. OfferAgrees(doc, offer)
    BY DEF DocumentsInv, VersionsAgree
<1> SUFFICES ASSUME offer.version # Unversioned
             PROVE  \E i \in Named(seen, x) :
                       /\ seen[i].evidence[2] = offer.line /\ seen[i].editable
                       /\ \/ Named(seen, x) = {i}
                          \/ offer.line = AnchorSite(x.package)[2]
    <2>1. fix.offer = offer /\ fix.before = text
        OBVIOUS
    <2> HIDE DEF fix
    <2> SUFFICES Lands(fix)
        BY DEF fix
    <2> QED BY <2>1 DEF Lands
<1>2. offer.path \in DOMAIN doc /\ offer.version = doc[offer.path].version
    BY <1>1 DEF Fits, OfferAgrees
<1>3. offer.line # NoLine /\ offer.line = VersionSpan(seen, x)
    BY <1>1, <1>2 DEF OfferAgrees
<1>4. IsSeq(seen)
    BY <1>2, SeenInIs DEF DocumentsInv, TextsGood, DocsGood, IsAt
<1> HIDE DEF seen, x
<1> QED BY <1>3, <1>4, VersionSpanIs

LEMMA LandsStep ==
    ASSUME DocumentsInv, EditLandsOnVersion, [DocumentsNext]_documentVars
    PROVE  EditLandsOnVersion'
<1>1. \A fix \in fixes : Lands(fix)
    BY DEF EditLandsOnVersion, Lands
<1>2. \A fix \in fixes' : Lands(fix)
    <2>1. ASSUME NEW offer \in menu, TakesFix(offer) PROVE \A fix \in fixes' : Lands(fix)
        <3>1. CASE Fits(offer)
            BY <2>1, <3>1, FixLands DEF TakesFix
        <3>2. CASE ~Fits(offer)
            BY <1>1, <2>1, <3>2 DEF TakesFix
        <3> QED BY <3>1, <3>2
    <2>2. CASE \E offer \in menu : TakesFix(offer)
        BY <2>1, <2>2
    <2>3. CASE \/ UNCHANGED documentVars \/ Serves \/ Scans
               \/ \E path \in DOMAIN Project.texts :
                     \/ Opens(path) \/ Types(path) \/ Saves(path) \/ Closes(path)
                     \/ AsksAction(path) \/ Rewrites(path) \/ Deletes(path)
        <3>1. fixes' = fixes
            BY <2>3 DEF documentVars, Serves, Scans, Opens, Types, Saves, Closes, AsksAction,
               Rewrites, Deletes, DidOpen, DidChange, DidClose, DidSave, DidChangeWatched, DidDelete,
               CodeAction, Replies, AnswersAction, ScanStarts, ScanReports, RendersFile, Delivers
        <3> QED BY <1>1, <3>1
    <2> QED BY <2>2, <2>3 DEF DocumentsNext, Edits
<1> QED BY <1>2 DEF EditLandsOnVersion, Lands

\* Whatever is typed between the scan, the question, the answer and its use, an
\* edit that is accepted under a document's version rewrites a version of the
\* package that was found, where it was found or where alone it is named
\* (EditLandsOnVersion of Documents).
THEOREM EditsLand == DocumentsSpec => []EditLandsOnVersion
<1>1. DocumentsInit => DocumentsInv /\ EditLandsOnVersion
    BY DocumentsInvInit DEF DocumentsInit, EditLandsOnVersion
<1>2. /\ DocumentsInv /\ EditLandsOnVersion
      /\ [DocumentsNext]_documentVars
      => (DocumentsInv /\ EditLandsOnVersion)'
    BY DocumentsInvStep, LandsStep
<1> QED BY <1>1, <1>2, PTL DEF DocumentsSpec

-----------------------------------------------------------------------------
(* What is shown, and what pressing the key does                           *)

\* What is shown was made from one text and one set of findings.
IsRendered(path, shown) ==
    shown.diagnostics =
        Summary(shown.findings)
            \cup {FindingDiagnostic(SeenIn(shown.text, path), x) : x \in shown.findings}
IsRender(r) ==
    /\ {"path", "shown"} \subseteq DOMAIN r
    /\ r.shown # NotYet => IsRendered(r.path, r.shown)
Rendered ==
    /\ \A path \in DOMAIN screen : IsRendered(path, screen[path])
    /\ \A r \in renders : IsRender(r)

LEMMA ForFileIs ==
    ASSUME NEW path, NEW findings
    PROVE  IsRendered(path, ForFile(path, findings))
BY DEF ForFile, IsRendered

LEMMA PublishesRenders ==
    ASSUME Rendered, NEW paths, NEW findings, Publishes(paths, findings), screen' = screen
    PROVE  Rendered'
<1>1. ASSUME NEW turn, NEW path, NEW known PROVE IsRender(Render(turn, path, known))
    <2> DEFINE r == Render(turn, path, known)
    <2>1. r.shown = NotYet /\ DOMAIN r = {"turn", "path", "findings", "shown"}
        BY DEF Render
    <2> HIDE DEF r
    <2> QED BY <2>1 DEF IsRender, r
<1>2. \A r \in renders' : r \in renders \/ \E turn, path, known : r = Render(turn, path, known)
    BY DEF Publishes
<1> QED BY <1>1, <1>2 DEF Rendered

LEMMA RenderedStep ==
    ASSUME Rendered, [DocumentsNext]_documentVars
    PROVE  Rendered'
<1>1. CASE DidDelete \/ Replies \/ ScanReports
    <2>1. screen' = screen
        BY <1>1 DEF DidDelete, Replies, ScanReports
    <2>2. (\E paths, findings : Publishes(paths, findings)) \/ renders' = renders
        BY <1>1 DEF DidDelete, Replies, RepliesToOpen, RepliesToAsk, ScanReports
    <2>3. CASE renders' = renders
        BY <2>1, <2>3 DEF Rendered
    <2> QED BY <2>1, <2>2, <2>3, PublishesRenders
<1>2. CASE RendersFile
    <2>1. screen' = screen
        BY <1>2 DEF RendersFile
    <2>2. PICK r \in renders :
              renders' = (renders \ {r}) \cup {[r EXCEPT !.shown = ForFile(r.path, r.findings)]}
        BY <1>2 DEF RendersFile
    <2> DEFINE shown == ForFile(r.path, r.findings)
               done == [r EXCEPT !.shown = shown]
    <2>3. IsRendered(r.path, shown)
        BY ForFileIs
    <2>4. renders' = (renders \ {r}) \cup {done}
        BY <2>2
    <2> HIDE DEF shown
    <2>5. {"path", "shown"} \subseteq DOMAIN r
        BY DEF Rendered, IsRender
    <2>6. DOMAIN done = DOMAIN r /\ done.path = r.path /\ done.shown = shown
        BY <2>5
    <2> HIDE DEF done
    <2>7. IsRender(done)
        BY <2>3, <2>5, <2>6 DEF IsRender
    <2> QED BY <2>1, <2>4, <2>7 DEF Rendered
<1>3. CASE Delivers
    <2>1. PICK r \in renders :
              /\ r.shown # NotYet \/ r.findings = {}
              /\ renders' = renders \ {r}
              /\ screen' = IF r.findings = {} THEN Restrict(screen, DOMAIN screen \ {r.path})
                           ELSE With(screen, r.path, r.shown)
        BY <1>3 DEF Delivers
    <2>2. r.shown # NotYet => IsRendered(r.path, r.shown)
        BY DEF Rendered, IsRender
    <2>3. \A path \in DOMAIN screen' : IsRendered(path, screen'[path])
        <3>1. CASE r.findings = {}
            <4>1. screen' = Restrict(screen, DOMAIN screen \ {r.path})
                BY <2>1, <3>1
            <4>2. DOMAIN screen' \subseteq DOMAIN screen
                     /\ \A path \in DOMAIN screen' : screen'[path] = screen[path]
                BY <4>1 DEF Restrict
            <4> QED BY <4>2 DEF Rendered
        <3>2. CASE r.findings # {}
            <4>1. screen' = With(screen, r.path, r.shown) /\ r.shown # NotYet
                BY <2>1, <3>2
            <4>2. \A path \in DOMAIN screen' :
                      \/ path \in DOMAIN screen /\ screen'[path] = screen[path]
                      \/ path = r.path /\ screen'[path] = r.shown
                BY <4>1 DEF With
            <4> QED BY <2>2, <4>1, <4>2 DEF Rendered
        <3> QED BY <3>1, <3>2
    <2> QED BY <2>1, <2>3 DEF Rendered
<1>4. CASE \/ UNCHANGED documentVars \/ Edits \/ Scans
           \/ DidOpen \/ DidChange \/ DidClose \/ DidSave \/ DidChangeWatched \/ CodeAction
           \/ AnswersAction \/ ScanStarts
    <2>1. UNCHANGED <<renders, screen>>
        BY <1>4 DEF documentVars, serverVars, shownVars, Edits, Scans, Opens, Types, Becomes, Saves,
           Closes, AsksAction, Rewrites, Deletes, TakesFix, DidOpen, DidChange, DidClose, DidSave,
           DidChangeWatched, CodeAction, AnswersAction, ScanStarts
    <2> QED BY <2>1 DEF Rendered
<1> QED BY <1>1, <1>2, <1>3, <1>4 DEF DocumentsNext, Serves


OfferOf(path, version, seen, x) ==
    [path |-> path, version |-> version, line |-> VersionSpan(seen, x), to |-> x.known.fix,
     finding |-> x]
Offerable(seen, x, code) ==
    x.known.fix # NoFix /\ x.known.worst = code /\ VersionSpan(seen, x) # NoLine

LEMMA UpgradesAre ==
    ASSUME NEW path, NEW version, NEW text, NEW findings, NEW request,
           NEW code, request.codes = {code}, NEW seen, seen = SeenIn(text, path), NEW o
    PROVE  o \in Upgrades(path, version, text, findings, request)
             <=> \E x \in findings :
                    Offerable(seen, x, code) /\ o = OfferOf(path, version, seen, x)
<1>1. \A y : Selects(request, y) <=> y.known.worst = code
    BY DEF Selects
<1> QED BY <1>1 DEF Upgrades, Offerable, OfferOf

LEMMA FindingDiagnosticIs ==
    ASSUME NEW seen, NEW x
    PROVE  LET d == FindingDiagnostic(seen, x)
           IN /\ d.code = x.known.worst /\ d.fix = x.known.fix
              /\ d.promise <=> VersionSpan(seen, x) # NoLine /\ x.known.fix # NoFix
              /\ VersionSpan(seen, x) # NoLine => d.line = VersionSpan(seen, x)
BY DEF FindingDiagnostic

LEMMA RenderedKeepsPromise ==
    ASSUME Rendered PROVE PromiseKept
<1> SUFFICES ASSUME NEW path \in DOMAIN screen \cap DOMAIN open,
                    screen[path].text = open[path].text,
                    screen[path].findings = ByFile(found, path),
                    NEW d \in screen[path].diagnostics
             PROVE  LET offered == Upgrades(path, open[path].version, open[path].text,
                                            ByFile(found, path), [codes |-> {d.code}])
                    IN /\ d.promise => \E o \in offered : o.line = d.line /\ o.to = d.fix
                       /\ \A o \in offered : \E e \in screen[path].diagnostics :
                             e.promise /\ e.code = d.code /\ e.line = o.line /\ e.fix = o.to
    BY DEF PromiseKept
<1> DEFINE text == open[path].text
           findings == ByFile(found, path)
           seen == SeenIn(text, path)
           request == [codes |-> {d.code}]
           offered == Upgrades(path, open[path].version, text, findings, request)
           code == d.code
<1>1. screen[path].diagnostics = Summary(findings) \cup {FindingDiagnostic(seen, x) : x \in findings}
    BY DEF Rendered, IsRendered
<1>2. \A o : o \in offered <=> \E x \in findings :
                 Offerable(seen, x, code) /\ o = OfferOf(path, open[path].version, seen, x)
    <2>1. request.codes = {code}
        OBVIOUS
    <2> DEFINE version == open[path].version
    <2> HIDE DEF request, code, findings, version
    <2> QED BY <2>1, UpgradesAre
<1>3. ASSUME d.promise PROVE \E o \in offered : o.line = d.line /\ o.to = d.fix
    <2>1. d \notin Summary(findings)
        <3> HIDE DEF findings
        <3>1. ASSUME NEW e \in Summary(findings) PROVE ~e.promise
            BY <3>1 DEF Summary
        <3> QED BY <1>3, <3>1
    <2>2. PICK x \in findings : d = FindingDiagnostic(seen, x)
        BY <1>1, <2>1
    <2> HIDE DEF findings, seen, offered
    <2>3. /\ code = x.known.worst /\ d.fix = x.known.fix /\ x.known.fix # NoFix
          /\ VersionSpan(seen, x) # NoLine /\ d.line = VersionSpan(seen, x)
        BY <1>3, <2>2, FindingDiagnosticIs
    <2> DEFINE o == OfferOf(path, open[path].version, seen, x)
    <2>4. o \in offered
        BY <1>2, <2>3 DEF Offerable
    <2>5. o.line = d.line /\ o.to = d.fix
        BY <2>3 DEF OfferOf
    <2> QED BY <2>4, <2>5
<1>4. ASSUME NEW o \in offered
      PROVE  \E e \in screen[path].diagnostics :
                e.promise /\ e.code = d.code /\ e.line = o.line /\ e.fix = o.to
    <2> HIDE DEF findings, seen, offered
    <2>1. PICK y \in findings :
              Offerable(seen, y, code) /\ o = OfferOf(path, open[path].version, seen, y)
        BY <1>2
    <2>2. o.line = VersionSpan(seen, y) /\ o.to = y.known.fix
        BY <2>1 DEF OfferOf
    <2> DEFINE e == FindingDiagnostic(seen, y)
    <2>3. e \in screen[path].diagnostics
        BY <1>1
    <2>4. e.code = code /\ e.fix = y.known.fix /\ e.promise /\ e.line = VersionSpan(seen, y)
        BY <2>1, FindingDiagnosticIs DEF Offerable
    <2> HIDE DEF e
    <2> QED BY <2>2, <2>3, <2>4
<1> QED BY <1>3, <1>4

\* The squiggle shows exactly what pressing the key does, on a buffer that is
\* what was rendered (PromiseKept of Documents).
THEOREM PromisesAreKept == DocumentsSpec => []PromiseKept
<1>1. DocumentsInit => Rendered
    BY DEF DocumentsInit, Rendered
<1>2. Rendered /\ [DocumentsNext]_documentVars => Rendered'
    BY RenderedStep
<1>3. Rendered => PromiseKept
    BY RenderedKeepsPromise
<1> QED BY <1>1, <1>2, <1>3, PTL DEF DocumentsSpec


-----------------------------------------------------------------------------
(* What is held once all has settled                                       *)

\* A file the server watches was written or deleted, and it has not heard of it;
\* or it has, and the scan has not started.
Writing(m) == m.is \in {"watched", "deleted"} \/ (m.is = "save" /\ IsManifest(m.path))
Quiet == ~due /\ \A i \in DOMAIN inbox : ~Writing(inbox[i])

\* The file still says so, if it is one that is watched.
StandsAs(s) ==
    IsManifest(s.evidence[1]) =>
        /\ s.evidence[1] \in DOMAIN files
        /\ \E t \in StatedAt(s.evidence[1]) :
              t.key = s.key /\ t.version = s.version /\ t.evidence = s.evidence
LockStands(l) ==
    /\ l.path \in DOMAIN files /\ Last(l.path) \in LockNames
    /\ Read(l.path) # Unreadable /\ l.tree = Tree(Read(l.path))

Fresh ==
    /\ \A i \in DOMAIN sightings : StandsAs(sightings[i])
    /\ \A dir \in DOMAIN locks : LockStands(locks[dir])
    /\ phase = "idle" => \A x \in found : StandsAs(x.package)

\* Unless a write is still to be heard of, what a pass has seen so far and what
\* is found stand in the files.
Freshness == Quiet => Fresh

LEMMA QuietSent ==
    ASSUME IsSeq(inbox), NEW m, inbox' = Append(inbox, m), due' = due, Quiet'
    PROVE  Quiet /\ ~Writing(m)
<1>1. /\ inbox'[Len(inbox) + 1] = m /\ Len(inbox) + 1 \in DOMAIN inbox'
      /\ \A i \in DOMAIN inbox : i \in DOMAIN inbox' /\ inbox'[i] = inbox[i]
    <2> DEFINE box2 == Append(inbox, m)
    <2>1. /\ Len(inbox) \in Nat /\ DOMAIN box2 = 1..Len(inbox) + 1
          /\ box2[Len(inbox) + 1] = m
          /\ \A i \in DOMAIN inbox : i \in DOMAIN box2 /\ box2[i] = inbox[i]
        BY SentIs
    <2>2. Len(inbox) + 1 \in 1..Len(inbox) + 1
        BY <2>1
    <2>3. inbox' = box2
        OBVIOUS
    <2> HIDE DEF box2
    <2> QED BY <2>1, <2>2, <2>3
<1>2. \A i \in DOMAIN inbox' : ~Writing(inbox'[i])
    BY DEF Quiet, Writing
<1> QED BY <1>1, <1>2 DEF Quiet

LEMMA QuietHandled ==
    ASSUME IsSeq(inbox), inbox # <<>>, inbox' = Tail(inbox), ~Writing(Head(inbox)), ~due, Quiet'
    PROVE  Quiet
<1>1. ASSUME NEW i \in DOMAIN inbox PROVE ~Writing(inbox[i])
    <2>1. i \in Int /\ i > 0 /\ Head(inbox) = inbox[1]
        BY HandledIs, SeqIs
    <2>2. CASE i = 1
        BY <2>1, <2>2
    <2>3. CASE i > 1
        <3>1. i - 1 \in DOMAIN inbox'
            BY <2>3, HandledIs
        <3>2. inbox'[i - 1] = inbox[i]
            <4>1. Tail(inbox)[i - 1] = inbox[(i - 1) + 1] /\ (i - 1) + 1 = i
                BY <2>1, <3>1, HandledIs
            <4> QED BY <4>1
        <3>3. ~Writing(inbox'[i - 1])
            BY <3>1 DEF Quiet, Writing
        <3> QED BY <3>2, <3>3
    <2> QED BY <2>1, <2>2, <2>3
<1> QED BY <1>1 DEF Quiet

\* A write to another file leaves what a watched one says.
LEMMA ReadStays ==
    ASSUME FilesGood, NEW path \in DOMAIN files, NEW text, ~IsManifest(path),
           files' = [files EXCEPT ![path] = text], NEW q \in DOMAIN files, IsManifest(q)
    PROVE  Read(q)' = Read(q) /\ q \in DOMAIN files'
<1>1. q # path /\ DOMAIN files' = DOMAIN files /\ files'[q] = files[q]
    OBVIOUS
<1>2. Normal(q) = q
    BY DEF FilesGood, IsPath
<1> QED BY <1>1, <1>2 DEF Read

LEMMA StaysFresh ==
    ASSUME Fresh, UNCHANGED <<files, sightings, locks>>,
           phase' = "idle" => phase = "idle" /\ found' = found
    PROVE  Fresh'
BY DEF Fresh, StandsAs, LockStands, StatedAt, Read

LEMMA WrittenFresh ==
    ASSUME ExtractionInv, Fresh, NEW path \in DOMAIN files, NEW text, ~IsManifest(path),
           files' = [files EXCEPT ![path] = text], UNCHANGED <<sightings, locks, phase, found>>
    PROVE  Fresh'
<1>1. \A q \in DOMAIN files : IsManifest(q) => Read(q)' = Read(q) /\ q \in DOMAIN files'
    BY ReadStays DEF ExtractionInv
<1>2. ASSUME NEW s, StandsAs(s) PROVE StandsAs(s)'
    BY <1>1, <1>2 DEF StandsAs, StatedAt
<1>3. ASSUME NEW l, LockStands(l) PROVE LockStands(l)'
    BY <1>1, <1>3 DEF LockStands, IsManifest, ManifestNames
<1> QED BY <1>2, <1>3 DEF Fresh

\* What a file is seen to say stands in it.
LEMMA ParsedStands ==
    ASSUME NEW path \in DOMAIN files, IsManifest(path), Read(path) # Unreadable,
           AllSeen(Parse(Read(path), path), path),
           NEW i \in DOMAIN Parse(Read(path), path)
    PROVE  StandsAs(Parse(Read(path), path)[i])
<1> DEFINE seen == Parse(Read(path), path)
<1>1. seen[i].evidence[1] = path
    <2> HIDE DEF seen
    <2> QED BY SeenAt DEF seen
<1>2. seen[i] \in StatedAt(path)
    BY DEF StatedAt, Range
<1> HIDE DEF seen
<1> QED BY <1>1, <1>2 DEF StandsAs, seen

LEMMA LockStandsFor ==
    ASSUME WalkGood, NEW dir \in DOMAIN locks, LockStands(locks[dir]), NEW s, IsOf(s, locks[dir])
    PROVE  StandsAs(s)
<1> DEFINE path == locks[dir].path
           seen == LockSightings(locks[dir].tree, path)
<1>1. IsSeq(path) /\ path # <<>> /\ IsSeq(locks[dir].tree)
    BY DEF WalkGood, AreLocks
<1>2. AllSeen(seen, path)
    BY <1>1, LockSightingsIs
<1>3. PICK i \in DOMAIN seen : s = seen[i]
    BY DEF IsOf, Range
<1>4. seen = Parse(Read(path), path)
    BY DEF LockStands, Parse, LockNames, RequirementsNames
<1>5. IsManifest(path)
    BY DEF LockStands, IsManifest, ManifestNames
<1> HIDE DEF seen
<1> QED BY <1>2, <1>3, <1>4, <1>5, ParsedStands DEF LockStands

\* A pass that has seen what stands reports what stands.
LEMMA PackagesStand ==
    ASSUME DocumentsInv, Fresh, Done, NEW p \in packages
    PROVE  StandsAs(p)
<1>1. ExtractionInv /\ WalkGood
    BY DEF DocumentsInv, ExtractionInv
<1>2. PICK i \in DOMAIN Found :
      \E r \in ReportsOf(Range(Found), Chains, PinnedScopes(Found), Found[i]) :
          /\ p.key = r.key /\ p.version = r.version /\ p.evidence = r.evidence
    BY <1>1, KeptWasReported
<1>3. /\ p.key = Found[i].key /\ p.version = Found[i].version
      /\ p.evidence = Found[i].evidence
    BY <1>1, <1>2, ReportedBelowItsPin
<1>4. \/ \E j \in DOMAIN sightings : Found[i] = sightings[j]
      \/ \E dir \in DOMAIN locks : IsOf(Found[i], locks[dir])
    BY <1>1, FoundIs
<1>5. StandsAs(Found[i])
    BY <1>1, <1>4, LockStandsFor DEF Fresh
<1> QED BY <1>3, <1>5 DEF StandsAs


LEMMA MoreStands ==
    ASSUME Fresh, AreFound(sightings), NEW more, AreFound(more),
           \A i \in DOMAIN more : StandsAs(more[i]),
           sightings' = sightings \o more, UNCHANGED <<files, locks>>, phase' # "idle"
    PROVE  Fresh'
<1>1. Range(sightings') = Range(sightings) \cup Range(more)
    BY ConcatFound
<1>2. \A i \in DOMAIN sightings' : StandsAs(sightings'[i])
    <2>1. \A s \in Range(sightings') : StandsAs(s)
        BY <1>1 DEF Fresh, Range
    <2> QED BY <2>1 DEF Range
<1>3. \A dir \in DOMAIN locks : LockStands(locks[dir])
    BY DEF Fresh
<1> QED BY <1>2, <1>3 DEF Fresh, StandsAs, LockStands, StatedAt, Read

\* A step of a pass reads what the files say now.
LEMMA PassFresh ==
    ASSUME ExtractionInv, Fresh, Extracts
    PROVE  Fresh'
<1>1. files' = files /\ phase' # "idle"
    BY DEF Extracts, PassesOver, HoldsLock, ReadsManifest, Enters, Walking, WalkEnds,
       FollowsInclude, Reconciles
<1>2. WalkGood /\ FilesGood
    BY DEF ExtractionInv
<1>3. ASSUME NEW path \in todo, PassesOver(path) PROVE Fresh'
    BY <1>1, <1>3, StaysFresh DEF PassesOver
<1>4. ASSUME NEW path \in todo, HoldsLock(path) PROVE Fresh'
    <2> DEFINE held == [path |-> path, tree |-> Tree(files[path])]
    <2>1. path \in DOMAIN files /\ Last(path) \in LockNames /\ Read(path) # Unreadable
        BY <1>2, <1>4 DEF WalkGood, HoldsLock, Parsed
    <2>2. Read(path) = files[path]
        BY <1>2, <2>1, WalkedIsRead
    <2>3. LockStands(held)
        BY <2>1, <2>2 DEF LockStands
    <2>4. sightings' = sightings /\ (locks' = locks \/ locks' = With(locks, DirOf(path), held))
        BY <1>4 DEF HoldsLock
    <2> HIDE DEF held
    <2>5. \A dir \in DOMAIN locks' : LockStands(locks'[dir])
        BY <2>3, <2>4 DEF Fresh, With
    <2>6. \A i \in DOMAIN sightings' : StandsAs(sightings'[i])
        BY <2>4 DEF Fresh
    <2> QED BY <1>1, <2>5, <2>6 DEF Fresh, StandsAs, LockStands, StatedAt, Read
<1>5. ASSUME NEW path \in todo, ReadsManifest(path) PROVE Fresh'
    <2> DEFINE more == Parse(Read(path), path)
    <2>1. path \in DOMAIN files /\ IsManifest(path) /\ Read(path) # Unreadable
        BY <1>2, <1>5 DEF WalkGood, ReadsManifest, Parsed, IsManifest
    <2>2. IsText(path, Read(path)) /\ IsSeq(path) /\ path # <<>>
        BY <1>2, <2>1, WalkedIsRead
    <2>3. AllSeen(more, path)
        BY <2>1, <2>2, ParseIs
    <2>4. \A i \in DOMAIN more : StandsAs(more[i])
        BY <2>1, <2>3, ParsedStands
    <2>5. sightings' = sightings \o more /\ locks' = locks
        BY <1>5 DEF ReadsManifest
    <2> HIDE DEF more
    <2>6. AreFound(more)
        BY <2>2, <2>3, SeenIsFound
    <2> QED BY <1>1, <1>2, <2>4, <2>5, <2>6, MoreStands DEF WalkGood
<1>6. CASE FollowsInclude
    <2> DEFINE path == Last(includes)
               file == Read(path)
    <2>1. AreIncludes(includes) /\ includes # <<>>
        BY <1>2, <1>6 DEF WalkGood, FollowsInclude
    <2>2. IsInclude(path)
        BY <2>1, LastInclude
    <2>3. \/ sightings' = sightings \o Requirements(file, path) /\ file # Unreadable
          \/ sightings' = sightings \o <<>>
        BY <1>6 DEF FollowsInclude
    <2>4. locks' = locks
        BY <1>6 DEF FollowsInclude
    <2>5. ~IsManifest(path) /\ IsSeq(path) /\ path # <<>> /\ Last(path) \notin LockNames
        BY <2>2 DEF IsInclude, IsManifest, ManifestNames
    <2>6. file # Unreadable => IsSeq(file)
        BY <1>2, <2>2, IncludedIsRead
    <2> HIDE DEF path, file
    <2>7. CASE sightings' = sightings \o Requirements(file, path) /\ file # Unreadable
        <3> DEFINE more == Requirements(file, path)
        <3>1. AreFound(more)
            BY <2>5, <2>6, <2>7, RequirementsFound
        <3>2. AllSeen(more, path)
            BY <2>5, <2>6, <2>7, RequirementsIs
        <3>3. sightings' = sightings \o more
            BY <2>7
        <3> HIDE DEF more
        <3>4. \A i \in DOMAIN more : StandsAs(more[i])
            BY <2>5, <3>2, SeenAt DEF StandsAs
        <3> QED BY <1>1, <1>2, <2>4, <3>1, <3>3, <3>4, MoreStands DEF WalkGood
    <2>8. CASE sightings' = sightings \o <<>>
        <3>1. AreFound(<<>>) /\ DOMAIN <<>> = {}
            BY NothingIsGood
        <3>2. \A i \in DOMAIN <<>> : StandsAs(<<>>[i])
            BY <3>1
        <3> QED BY <1>1, <1>2, <2>4, <2>8, <3>1, <3>2, MoreStands DEF WalkGood
    <2> QED BY <2>3, <2>7, <2>8
<1>7. CASE WalkEnds \/ Reconciles
    BY <1>1, <1>7, StaysFresh DEF WalkEnds, Reconciles, walkVars
<1> QED BY <1>3, <1>4, <1>5, <1>6, <1>7 DEF Extracts

LEMMA NothingIsFresh ==
    ASSUME sightings = <<>>, locks = <<>>, phase # "idle" PROVE Fresh
<1>1. DOMAIN <<>> = {}
    OBVIOUS
<1> QED BY <1>1 DEF Fresh

LEMMA FreshnessInit == DocumentsInit => Freshness
BY NothingIsFresh DEF DocumentsInit, ExtractionInit, NothingSeen, Freshness

-----------------------------------------------------------------------------
(* Every step keeps it so                                                  *)

\* A step that reads and writes no file, and finds nothing.
LEMMA IdleFresh ==
    ASSUME Freshness, Quiet' => Quiet,
           UNCHANGED <<files, sightings, locks, phase, found>>
    PROVE  Freshness'
<1>1. Quiet' => Fresh'
    BY StaysFresh DEF Freshness
<1> QED BY <1>1 DEF Freshness

\* The editor sends what is no write.
LEMMA SaysFresh ==
    ASSUME DocumentsInv, Freshness, NEW m, inbox' = Append(inbox, m),
           UNCHANGED <<extractionVars, serverVars>>
    PROVE  Freshness'
<1>1. Quiet' => Quiet
    BY QuietSent DEF DocumentsInv, TextsGood, BoxGood, serverVars, engineVars
<1> QED BY <1>1, IdleFresh DEF extractionVars, walkVars, serverVars, engineVars

\* A file is written, and the editor tells of it if it is watched.
LEMMA ToldFresh ==
    ASSUME DocumentsInv, Freshness, NEW path \in DOMAIN files, NEW text,
           files' = [files EXCEPT ![path] = text], NEW m,
           \/ inbox' = Append(inbox, m) /\ (IsManifest(path) => Writing(m))
           \/ inbox' = inbox /\ ~IsManifest(path),
           UNCHANGED <<sightings, locks, phase, serverVars>>
    PROVE  Freshness'
<1>1. Quiet' => Quiet /\ ~IsManifest(path)
    <2>1. CASE inbox' = Append(inbox, m) /\ (IsManifest(path) => Writing(m))
        BY <2>1, QuietSent DEF DocumentsInv, TextsGood, BoxGood, serverVars, engineVars
    <2>2. CASE inbox' = inbox /\ ~IsManifest(path)
        BY <2>2 DEF Quiet, Writing, serverVars, engineVars
    <2> QED BY <2>1, <2>2
<1>2. Quiet' => Fresh'
    BY <1>1, WrittenFresh DEF Freshness, DocumentsInv, serverVars, engineVars
<1> QED BY <1>2 DEF Freshness

\* The server takes up a message that tells of no write.
LEMMA HandlesFresh ==
    ASSUME DocumentsInv, Freshness, inbox # <<>>, inbox' = Tail(inbox), ~Writing(Next1),
           due' = due, UNCHANGED <<extractionVars, found>>
    PROVE  Freshness'
<1>1. Quiet' => Quiet
    <2>1. Quiet' => ~due
        BY DEF Quiet
    <2> QED BY <2>1, QuietHandled DEF DocumentsInv, TextsGood, BoxGood, Next1
<1>2. Quiet' => Fresh'
    BY <1>1, StaysFresh DEF Freshness, extractionVars, walkVars
<1> QED BY <1>2 DEF Freshness

LEMMA EditsFresh ==
    ASSUME DocumentsInv, Freshness, Edits
    PROVE  Freshness'
<1>1. ASSUME NEW path \in DOMAIN Project.texts, Opens(path) PROVE Freshness'
    BY <1>1, SaysFresh DEF Opens, Sends
<1>2. ASSUME NEW path, NEW text, Becomes(path, text) PROVE Freshness'
    BY <1>2, SaysFresh DEF Becomes, Sends
<1>3. ASSUME NEW path \in DOMAIN Project.texts, Types(path) PROVE Freshness'
    BY <1>2, <1>3 DEF Types
<1>4. ASSUME NEW path \in DOMAIN Project.texts, Saves(path) PROVE Freshness'
    <2> DEFINE m == Message("save", path)
    <2>1. m.is = "save" /\ m.path = path
        BY DEF Message
    <2>2. /\ files' = [files EXCEPT ![path] = doc[path].text] /\ inbox' = Append(inbox, m)
          /\ UNCHANGED <<sightings, locks, phase, serverVars>>
        BY <1>4 DEF Saves, Sends, walkVars
    <2>3. path \in DOMAIN files
        BY DEF DocumentsInv, ExtractionInv, FilesGood
    <2> HIDE DEF m
    <2>4. IsManifest(path) => Writing(m)
        BY <2>1 DEF Writing
    <2> QED BY <2>2, <2>3, <2>4, ToldFresh
<1>5. ASSUME NEW path \in DOMAIN Project.texts, Closes(path) PROVE Freshness'
    BY <1>5, SaysFresh DEF Closes, Sends
<1>6. ASSUME NEW path \in DOMAIN Project.texts, AsksAction(path) PROVE Freshness'
    <2>2. PICK m : inbox' = Append(inbox, m)
        BY <1>6 DEF AsksAction, Sends
    <2> QED BY <1>6, <2>2, SaysFresh DEF AsksAction
<1>7. ASSUME NEW path \in DOMAIN Project.texts, Rewrites(path) PROVE Freshness'
    <2> DEFINE m == Message("watched", path)
    <2>1. m.is = "watched"
        BY DEF Message
    <2>2. PICK text \in Project.texts[path] : files' = [files EXCEPT ![path] = text]
        BY <1>7 DEF Rewrites
    <2>3. /\ IF IsManifest(path) THEN inbox' = Append(inbox, m) ELSE inbox' = inbox
          /\ UNCHANGED <<sightings, locks, phase, serverVars>>
        BY <1>7 DEF Rewrites, Sends, walkVars
    <2>4. path \in DOMAIN files
        BY DEF DocumentsInv, ExtractionInv, FilesGood
    <2> HIDE DEF m
    <2>5. Writing(m)
        BY <2>1 DEF Writing
    <2> QED BY <2>2, <2>3, <2>4, <2>5, ToldFresh
<1>9. ASSUME NEW path \in DOMAIN Project.texts, Deletes(path) PROVE Freshness'
    <2> DEFINE m == Message("deleted", path)
    <2>1. m.is = "deleted"
        BY DEF Message
    <2>2. files' = [files EXCEPT ![path] = Unreadable]
        BY <1>9 DEF Deletes
    <2>3. /\ IF IsManifest(path) THEN inbox' = Append(inbox, m) ELSE inbox' = inbox
          /\ UNCHANGED <<sightings, locks, phase, serverVars>>
        BY <1>9 DEF Deletes, Sends, walkVars
    <2>4. path \in DOMAIN files
        BY DEF DocumentsInv, ExtractionInv, FilesGood
    <2> HIDE DEF m
    <2>5. Writing(m)
        BY <2>1 DEF Writing
    <2> QED BY <2>2, <2>3, <2>4, <2>5, ToldFresh
<1>8. ASSUME NEW offer \in menu, TakesFix(offer) PROVE Freshness'
    <2>1. CASE Fits(offer)
        BY <1>2, <1>8, <2>1 DEF TakesFix
    <2>2. CASE ~Fits(offer)
        <3>1. UNCHANGED <<extractionVars, inbox, serverVars>>
            BY <1>8, <2>2 DEF TakesFix
        <3>2. Quiet' => Quiet
            BY <3>1 DEF Quiet, Writing, serverVars, engineVars
        <3> QED BY <3>1, <3>2, IdleFresh DEF extractionVars, walkVars, serverVars, engineVars
    <2> QED BY <2>1, <2>2
<1> QED BY <1>1, <1>3, <1>4, <1>5, <1>6, <1>7, <1>8, <1>9 DEF Edits

LEMMA ServesFresh ==
    ASSUME DocumentsInv, Freshness, Serves
    PROVE  Freshness'
<1>1. CASE DidOpen \/ DidChange \/ DidClose \/ CodeAction
    <2>1. /\ inbox # <<>> /\ inbox' = Tail(inbox)
          /\ Next1.is \in {"open", "change", "close", "ask"}
          /\ due' = due /\ UNCHANGED <<extractionVars, found>>
        BY <1>1 DEF DidOpen, DidChange, DidClose, CodeAction, Handles, engineVars
    <2>2. ~Writing(Next1)
        BY <2>1 DEF Writing
    <2> QED BY <2>1, <2>2, HandlesFresh
<1>2. CASE DidSave
    <2>1. /\ inbox # <<>> /\ inbox' = Tail(inbox) /\ Next1.is = "save"
          /\ due' = (due \/ IsManifest(Next1.path))
          /\ UNCHANGED <<extractionVars, found>>
        BY <1>2 DEF DidSave, Handles
    <2>2. Quiet' => Quiet
        <3>1. Quiet' => ~due /\ ~IsManifest(Next1.path)
            BY <2>1 DEF Quiet
        <3>2. Quiet' => ~Writing(Next1)
            BY <2>1, <3>1 DEF Writing
        <3> QED BY <2>1, <3>1, <3>2, QuietHandled DEF DocumentsInv, TextsGood, BoxGood, Next1
    <2> QED BY <2>1, <2>2, IdleFresh DEF extractionVars, walkVars
<1>3. CASE DidChangeWatched \/ DidDelete
    <2>1. due' = TRUE
        BY <1>3 DEF DidChangeWatched, DidDelete
    <2> QED BY <2>1 DEF Quiet, Freshness
<1>4. CASE Replies \/ AnswersAction \/ RendersFile \/ Delivers
    <2>1. UNCHANGED <<extractionVars, inbox, due, found>>
        BY <1>4 DEF Replies, AnswersAction, RendersFile, Delivers, engineVars
    <2>2. Quiet' => Quiet
        BY <2>1 DEF Quiet, Writing
    <2> QED BY <2>1, <2>2, IdleFresh DEF extractionVars, walkVars
<1>5. CASE ScanStarts
    <2>1. sightings' = <<>> /\ locks' = <<>> /\ phase' = "walking"
        BY <1>5 DEF ScanStarts, Afresh
    <2>2. Fresh'
        <3>1. DOMAIN <<>> = {}
            OBVIOUS
        <3> QED BY <2>1, <3>1 DEF Fresh
    <2> QED BY <2>2 DEF Freshness
<1>6. CASE ScanReports
    <2>1. /\ Done /\ found' = FindingsOf(packages) /\ UNCHANGED <<files, inbox, due>>
          /\ sightings' = <<>> /\ locks' = <<>>
        BY <1>6 DEF ScanReports, Afresh, Done
    <2>2. ASSUME Quiet' PROVE Fresh'
        <3>1. Fresh
            BY <2>1, <2>2 DEF Freshness, Quiet, Writing
        <3>2. ASSUME NEW x \in found' PROVE StandsAs(x.package)
            <4>1. x.package \in packages
                BY <2>1 DEF FindingsOf
            <4> QED BY <2>1, <3>1, <4>1, PackagesStand
        <3>3. \A x \in found' : StandsAs(x.package)'
            BY <2>1, <3>2 DEF StandsAs, StatedAt, Read
        <3>4. DOMAIN <<>> = {}
            OBVIOUS
        <3> QED BY <2>1, <3>3, <3>4 DEF Fresh
    <2> QED BY <2>2 DEF Freshness
<1> QED BY <1>1, <1>2, <1>3, <1>4, <1>5, <1>6 DEF Serves

LEMMA FreshnessStep ==
    ASSUME DocumentsInv, Freshness, [DocumentsNext]_documentVars
    PROVE  Freshness'
<1>1. CASE Scans
    <2>1. UNCHANGED <<inbox, due, found>> /\ Extracts
        BY <1>1 DEF Scans, serverVars, engineVars
    <2>2. Quiet' => Quiet
        BY <2>1 DEF Quiet, Writing
    <2> QED BY <2>1, <2>2, PassFresh DEF Freshness, DocumentsInv
<1>2. CASE UNCHANGED documentVars
    <2>1. Quiet' => Quiet
        BY <1>2 DEF documentVars, serverVars, engineVars, Quiet, Writing
    <2> QED BY <1>2, <2>1, IdleFresh
            DEF documentVars, extractionVars, walkVars, serverVars, engineVars
<1> QED BY <1>1, <1>2, EditsFresh, ServesFresh DEF DocumentsNext

\* Once all has settled, what the server holds stands in the files it was found
\* in, whoever wrote or deleted them and whenever (FindingsStand of Documents).
THEOREM WhatIsHeldStands == DocumentsSpec => []FindingsStand
<1>1. DocumentsInit => DocumentsInv /\ Freshness
    BY DocumentsInvInit, FreshnessInit
<1>2. DocumentsInv /\ Freshness /\ [DocumentsNext]_documentVars => (DocumentsInv /\ Freshness)'
    BY DocumentsInvStep, FreshnessStep
<1>3. Freshness => FindingsStand
    <2> SUFFICES ASSUME Freshness, Settled,
                        NEW x \in found, IsManifest(x.package.evidence[1])
                 PROVE  Stands(x)
        BY DEF FindingsStand
    <2>1. DOMAIN <<>> = {}
        OBVIOUS
    <2>2. Quiet
        BY <2>1 DEF Settled, Quiet
    <2> QED BY <2>2 DEF Freshness, Settled, Fresh, StandsAs, Stands
<1> QED BY <1>1, <1>2, <1>3, PTL DEF DocumentsSpec

-----------------------------------------------------------------------------
(* What a fix does                                                         *)

\* Statements of the file that have a version, each with its line.
AreOf(file, list) ==
    /\ IsSeq(list)
    /\ \A i \in DOMAIN list : \E j \in DOMAIN file :
          "version" \in DOMAIN file[j] /\ list[i] = With(file[j], "line", j)

\* What can be rewritten is at a line of the file, and is of the version there if
\* the line has no more than that.
IsWritten(s, file) ==
    s.editable => /\ s.evidence[2] \in DOMAIN file
                  /\ "version" \in DOMAIN file[s.evidence[2]]
                  /\ Bare(file[s.evidence[2]]) => s.version = file[s.evidence[2]].version
AreWritten(list, file) == \A i \in DOMAIN list : IsWritten(list[i], file)

LEMMA StatementIs ==
    ASSUME NEW d, NEW line
    PROVE  /\ With(d, "line", line).line = line
           /\ DOMAIN With(d, "line", line) = DOMAIN d \cup {"line"}
           /\ "version" \in DOMAIN d => With(d, "line", line).version = d.version
           /\ "is" \in DOMAIN d => With(d, "line", line).is = d.is
           /\ "bare" \in DOMAIN d => With(d, "line", line).bare = d.bare
           /\ Bare(d) <=> Bare(With(d, "line", line))
<1>1. With(d, "line", line).line = line
    BY DEF With
<1>2. DOMAIN With(d, "line", line) = DOMAIN d \cup {"line"}
    BY DEF With
<1>3. ASSUME "version" \in DOMAIN d PROVE With(d, "line", line).version = d.version
    BY <1>3 DEF With
<1>4. ASSUME "is" \in DOMAIN d PROVE With(d, "line", line).is = d.is
    BY <1>4 DEF With
<1>5. ASSUME "bare" \in DOMAIN d PROVE With(d, "line", line).bare = d.bare
    BY <1>5 DEF With
<1>6. Bare(d) <=> Bare(With(d, "line", line))
    BY <1>2, <1>5 DEF Bare
<1> QED BY <1>1, <1>2, <1>3, <1>4, <1>5, <1>6

LEMMA SomeAreOf ==
    ASSUME NEW file, NEW list, AreOf(file, list), NEW places
    PROVE  AreOf(file, Picked(list, places))
<1> DEFINE P == Picked(list, places)
<1>1. IsSeq(P) /\ \A i \in DOMAIN P : \E j \in DOMAIN list : P[i] = list[j]
    BY PickedSome DEF AreOf
<1> HIDE DEF P
<1>2. AreOf(file, P)
    BY <1>1 DEF AreOf
<1> QED BY <1>2 DEF P

LEMMA NumberedAreOf ==
    ASSUME NEW file, IsSeq(file), \A i \in DOMAIN file : "version" \in DOMAIN file[i]
    PROVE  AreOf(file, Numbered(file))
BY NumberedIs DEF AreOf

LEMMA SectionsAreOf ==
    ASSUME NEW file, IsSeq(file), \A i \in DOMAIN file : "version" \in DOMAIN file[i],
           NEW sections, IsSeq(sections)
    PROVE  AreOf(file, InSections(sections, file))
<1> DEFINE g == [s \in DOMAIN sections |-> Where(Numbered(file), LAMBDA d : d.section = sections[s])]
<1>1. \A s \in DOMAIN sections : AreOf(file, g[s])
    <2>1. AreOf(file, Numbered(file))
        BY NumberedAreOf
    <2> QED BY <2>1, SomeAreOf DEF Where
<1>2. g = [s \in DOMAIN sections |-> g[s]]
    OBVIOUS
<1>3. InSections(sections, file) = FlattenSeq(g)
    BY DEF InSections
<1> HIDE DEF g
<1>4. IsSeq(g) /\ DOMAIN g = DOMAIN sections
    BY <1>2, MapIs
<1> DEFINE F == FlattenSeq(g)
<1>5. IsSeq(F) /\ Range(F) = UNION {Range(g[s]) : s \in DOMAIN g}
    BY <1>1, <1>4, FlattenIs DEF AreOf
<1> HIDE DEF F
<1>6. \A i \in DOMAIN F : \E s \in DOMAIN g : \E k \in DOMAIN g[s] : F[i] = g[s][k]
    BY <1>5 DEF Range
<1>7. AreOf(file, F)
    BY <1>1, <1>4, <1>5, <1>6 DEF AreOf
<1> QED BY <1>3, <1>7 DEF F

\* Sightings that have the version and the line of a statement.
LEMMA SeenAreWritten ==
    ASSUME NEW file, NEW list, AreOf(file, list), NEW g, DOMAIN g = DOMAIN list,
           \A i \in DOMAIN list :
              g[i].editable => /\ Bare(list[i]) => g[i].version = list[i].version
                               /\ g[i].evidence[2] = list[i].line
    PROVE  AreWritten(g, file)
<1> SUFFICES ASSUME NEW i \in DOMAIN list, g[i].editable PROVE IsWritten(g[i], file)
    BY DEF AreWritten, IsWritten
<1>1. PICK j \in DOMAIN file :
          "version" \in DOMAIN file[j] /\ list[i] = With(file[j], "line", j)
    BY DEF AreOf
<1>2. /\ list[i].line = j /\ list[i].version = file[j].version
      /\ Bare(file[j]) => Bare(list[i])
    <2> DEFINE s == list[i]
               d == file[j]
    <2>1. s = With(d, "line", j) /\ "version" \in DOMAIN d
        BY <1>1
    <2> HIDE DEF s, d
    <2>2. s.line = j /\ s.version = d.version /\ (Bare(d) => Bare(s))
        BY <2>1, StatementIs
    <2> QED BY <2>2 DEF s, d
<1> QED BY <1>1, <1>2 DEF IsWritten

LEMMA FirstAreWritten ==
    ASSUME NEW file, NEW g, IsSeq(g), AreWritten(g, file)
    PROVE  AreWritten(FirstPerName(g), file)
<1> DEFINE places == {i \in DOMAIN g : \A j \in 1..i - 1 : g[j].key # g[i].key}
           P == Picked(g, places)
<1>1. FirstPerName(g) = P
    BY DEF FirstPerName, FirstOf
<1> HIDE DEF places
<1>2. \A i \in DOMAIN P : \E j \in DOMAIN g : P[i] = g[j]
    BY PickedSome
<1> HIDE DEF P
<1> QED BY <1>1, <1>2 DEF AreWritten

LEMMA PackageJsonWritten ==
    ASSUME NEW file, IsSeq(file), \A i \in DOMAIN file : "version" \in DOMAIN file[i], NEW path
    PROVE  AreWritten(PackageJson(file, path), file)
<1> DEFINE D == Versioned(Declared(file))
           g == [i \in DOMAIN D |-> Sighted(Key("npm", D[i].name), D[i].version, path,
                    D[i].line, NpmGroups(D[i].section), TRUE, ~D[i].escaped)]
<1>1. AreOf(file, D)
    <2>1. NpmSections \in Seq({"dependencies", "optionalDependencies", "peerDependencies",
                               "devDependencies"})
        BY DEF NpmSections
    <2>2. AreOf(file, Declared(file))
        BY <2>1, InSeq, SectionsAreOf DEF Declared
    <2> QED BY <2>2, SomeAreOf DEF Versioned, Where
<1>2. \A i \in DOMAIN D : g[i].version = D[i].version /\ g[i].evidence[2] = D[i].line
    BY DEF Sighted
<1>3. g = [i \in DOMAIN D |-> g[i]]
    OBVIOUS
<1>4. PackageJson(file, path) = FirstPerName(g \o <<>>)
    BY DEF PackageJson, Sightings
<1> HIDE DEF g, D
<1>5. IsSeq(g) /\ g \o <<>> = g /\ DOMAIN g = DOMAIN D
    BY <1>1, <1>3, MapIs DEF AreOf
<1> QED BY <1>1, <1>2, <1>4, <1>5, SeenAreWritten, FirstAreWritten

\* A requirement is the version only if it is no more than that.
LEMMA CargoTomlWritten ==
    ASSUME NEW file, IsSeq(file), \A i \in DOMAIN file : {"version", "bare"} \subseteq DOMAIN file[i],
           NEW path
    PROVE  AreWritten(CargoToml(file, path), file)
<1> DEFINE I == InSections(CargoSections, file)
           st == [i \in DOMAIN I |->
                    [name |-> I[i].name, version |-> Requirement(I[i]), line |-> I[i].line,
                     section |-> I[i].section, editable |-> I[i].version # NoVersion]]
           D == Versioned(st \o <<>>)
           g == [i \in DOMAIN D |-> Sighted(Key("crates.io", D[i].name), D[i].version, path,
                    D[i].line, CargoGroups(D[i].section), TRUE, D[i].editable)]
<1>1. AreOf(file, I)
    <2>1. CargoSections \in Seq({"dependencies", "build-dependencies", "dev-dependencies"})
        BY DEF CargoSections
    <2> QED BY <2>1, InSeq, SectionsAreOf
<1>2. \A i \in DOMAIN D : g[i].version = D[i].version /\ g[i].evidence[2] = D[i].line
    BY DEF Sighted
<1>3. \A i \in DOMAIN I : st[i].version = Requirement(I[i]) /\ st[i].line = I[i].line
    OBVIOUS
<1>4. g = [i \in DOMAIN D |-> g[i]] /\ st = [i \in DOMAIN I |-> st[i]]
    OBVIOUS
<1>5. CargoToml(file, path) = FirstPerName(g \o <<>>)
    BY DEF CargoToml, Sightings
<1> HIDE DEF g, st, I
<1>6. IsSeq(st) /\ st \o <<>> = st /\ DOMAIN st = DOMAIN I
    BY <1>1, <1>4, MapIs DEF AreOf
<1>7. IsSeq(D) /\ \A i \in DOMAIN D : \E k \in DOMAIN I : D[i] = st[k]
    <2> DEFINE places == {i \in DOMAIN st : st[i].version # NoVersion}
    <2>1. D = Picked(st, places)
        BY <1>6 DEF Versioned, Where
    <2> HIDE DEF D, places
    <2> QED BY <1>6, <2>1, PickedSome
<1> HIDE DEF D
<1>8. IsSeq(g) /\ g \o <<>> = g /\ DOMAIN g = DOMAIN D
    BY <1>4, <1>7, MapIs
<1>9. ASSUME NEW i \in DOMAIN g PROVE IsWritten(g[i], file)
    <2>1. PICK k \in DOMAIN I : D[i] = st[k]
        BY <1>7, <1>8
    <2>2. PICK j \in DOMAIN file : I[k] = With(file[j], "line", j)
        BY <1>1 DEF AreOf
    <2> DEFINE d == file[j]
               r == I[k]
    <2>3. {"version", "bare"} \subseteq DOMAIN d /\ r = With(d, "line", j)
        BY <2>2
    <2>4. g[i].version = Requirement(r) /\ g[i].evidence[2] = r.line
        BY <1>2, <1>3, <1>8, <2>1
    <2> HIDE DEF d, r
    <2>5. r.line = j /\ r.version = d.version /\ r.bare = d.bare
        BY <2>3, StatementIs
    <2>6. Bare(d) => g[i].version = d.version
        BY <2>3, <2>4, <2>5 DEF Bare, Requirement
    <2> QED BY <2>3, <2>4, <2>5, <2>6 DEF IsWritten, d
<1> QED BY <1>5, <1>8, <1>9, FirstAreWritten DEF AreWritten

LEMMA CargoLockWritten ==
    ASSUME NEW file, IsSeq(file), \A i \in DOMAIN file : "version" \in DOMAIN file[i], NEW path
    PROVE  AreWritten(CargoLock(file, path), file)
<1> DEFINE D == Versioned(Numbered(file))
           g == [i \in DOMAIN D |-> Sighted(Key("crates.io", D[i].name), D[i].version, path,
                    D[i].line, {}, FALSE, FALSE)]
<1>1. AreOf(file, D)
    BY NumberedAreOf, SomeAreOf DEF Versioned, Where
<1>2. \A i \in DOMAIN D : g[i].version = D[i].version /\ g[i].evidence[2] = D[i].line
    BY DEF Sighted
<1>3. g = [i \in DOMAIN D |-> g[i]]
    OBVIOUS
<1>4. CargoLock(file, path) = g \o <<>>
    BY DEF CargoLock, Sightings
<1> HIDE DEF g, D
<1>5. g \o <<>> = g /\ DOMAIN g = DOMAIN D
    BY <1>1, <1>3, MapIs DEF AreOf
<1> QED BY <1>1, <1>2, <1>4, <1>5, SeenAreWritten

LEMMA RequirementsWritten ==
    ASSUME NEW file, IsSeq(file), \A i \in DOMAIN file : Includes(file[i]), NEW path
    PROVE  AreWritten(Requirements(file, path), file)
<1> DEFINE D == Versioned(Requires(file))
           g == [i \in DOMAIN D |-> Sighted(Key("PyPI", D[i].name), D[i].version, path,
                    D[i].line, {}, ~D[i].pinned, ~D[i].joined)]
<1>1. AreOf(file, D)
    <2> DEFINE N == Numbered(file)
               places == {i \in DOMAIN N : N[i].is = "requirement"}
               R == Picked(N, places)
    <2>1. Requires(file) = R
        BY DEF Requires, Where
    <2>2. /\ IsSeq(N) /\ DOMAIN N = DOMAIN file
          /\ \A i \in DOMAIN file : N[i] = With(file[i], "line", i)
        BY NumberedIs
    <2> HIDE DEF N
    <2>3. \A i \in places : "version" \in DOMAIN file[i]
        <3> SUFFICES ASSUME NEW i \in DOMAIN file, N[i].is = "requirement"
                     PROVE  "version" \in DOMAIN file[i]
            BY <2>2
        <3>1. Includes(file[i]) /\ N[i] = With(file[i], "line", i)
            BY <2>2
        <3>2. file[i].is = "requirement"
            <4> DEFINE s == N[i]
                       d == file[i]
            <4>1. s = With(d, "line", i) /\ "is" \in DOMAIN d
                BY <3>1 DEF Includes
            <4> HIDE DEF s, d
            <4>2. s.is = d.is
                BY <4>1, StatementIs
            <4> QED BY <4>2 DEF s, d
        <3>3. "requirement" # "include"
            OBVIOUS
        <3> QED BY <3>1, <3>2, <3>3 DEF Includes
    <2>4. places \subseteq DOMAIN file
        BY <2>2
    <2> HIDE DEF places
    <2>5. IsSeq(R) /\ \A i \in DOMAIN R : \E j \in DOMAIN N \cap places : R[i] = N[j]
        BY <2>2, PickedSome
    <2> HIDE DEF R
    <2>6. AreOf(file, R)
        BY <2>2, <2>3, <2>4, <2>5 DEF AreOf
    <2> QED BY <2>1, <2>6, SomeAreOf DEF Versioned, Where
<1>2. \A i \in DOMAIN D : g[i].version = D[i].version /\ g[i].evidence[2] = D[i].line
    BY DEF Sighted
<1>3. g = [i \in DOMAIN D |-> g[i]]
    OBVIOUS
<1>4. Requirements(file, path) = g \o <<>>
    BY DEF Requirements, Sightings
<1> HIDE DEF g, D
<1>5. g \o <<>> = g /\ DOMAIN g = DOMAIN D
    BY <1>1, <1>3, MapIs DEF AreOf
<1> QED BY <1>1, <1>2, <1>4, <1>5, SeenAreWritten


\* What is not replaced is the requirement itself.
LEMMA ReplacedIs ==
    ASSUME NEW file, NEW r, {"version", "line"} \subseteq DOMAIN r, Replaced(file, r).editable
    PROVE  Replaced(file, r).version = r.version /\ Replaced(file, r).line = r.line
<1> DEFINE of == Where(Directives(file, "replace"), LAMBDA p :
                     p.name = r.name /\ p.old \in {NoVersion, r.version})
<1>1. Replaced(file, r) =
          IF of = <<>> THEN With(r, "editable", TRUE)
          ELSE [name |-> of[1].new, version |-> of[1].version, line |-> r.line,
                editable |-> FALSE]
    BY DEF Replaced
<1> HIDE DEF of
<1>2. Replaced(file, r) = With(r, "editable", TRUE)
    <2> SUFFICES ASSUME of # <<>> PROVE FALSE
        BY <1>1
    <2> DEFINE s == [name |-> of[1].new, version |-> of[1].version, line |-> r.line,
                     editable |-> FALSE]
    <2>1. Replaced(file, r) = s
        BY <1>1
    <2>2. s.editable = FALSE
        OBVIOUS
    <2> HIDE DEF s
    <2> QED BY <2>1, <2>2
<1>3. With(r, "editable", TRUE).version = r.version
    BY DEF With
<1>4. With(r, "editable", TRUE).line = r.line
    BY DEF With
<1> QED BY <1>2, <1>3, <1>4

LEMMA ToolchainIsOf ==
    ASSUME NEW file, IsSeq(file), \A i \in DOMAIN file : "version" \in DOMAIN file[i]
    PROVE  AreOf(file, GoToolchain(file))
<1>1. ASSUME NEW list, AreOf(file, list), list # <<>> PROVE AreOf(file, <<Last(list)>>)
    <2>1. Last(list) = list[Len(list)] /\ Len(list) \in DOMAIN list
        <3>1. Len(list) \in Nat /\ DOMAIN list = 1..Len(list) /\ list \in Seq(Range(list))
            BY <1>1, SeqIs DEF AreOf, IsSeq
        <3>2. Len(list) # 0
            BY <1>1, <3>1
        <3> QED BY <3>1, <3>2 DEF Last
    <2> DEFINE x == Last(list)
    <2>2. PICK j \in DOMAIN file : "version" \in DOMAIN file[j] /\ x = With(file[j], "line", j)
        BY <1>1, <2>1 DEF AreOf
    <2> HIDE DEF x
    <2>3. <<x>> \in Seq({x})
        OBVIOUS
    <2>4. \A i \in DOMAIN <<x>> : <<x>>[i] = x
        OBVIOUS
    <2>5. IsSeq(<<x>>)
        BY <2>3, InSeq
    <2>6. IsSeq(<<x>>) /\ \A i \in DOMAIN <<x>> : <<x>>[i] = x
        BY <2>4, <2>5
    <2>7. AreOf(file, <<x>>)
        BY <2>2, <2>6 DEF AreOf
    <2> QED BY <2>7 DEF x
<1>2. AreOf(file, <<>>)
    BY EmptyIsSeq DEF AreOf
<1>3. \A is : AreOf(file, Directives(file, is))
    BY NumberedAreOf, SomeAreOf DEF Directives, Where
<1> QED BY <1>1, <1>2, <1>3 DEF GoToolchain

LEMMA GoModWritten ==
    ASSUME NEW file, IsSeq(file), \A i \in DOMAIN file : "version" \in DOMAIN file[i], NEW path
    PROVE  AreWritten(GoMod(file, path), file)
<1> DEFINE Sees(r) == Sighted(Key("Go", r.name), r.version, path, r.line, {}, FALSE, r.editable)
           F == Versioned(Directives(file, "require"))
           req == [i \in DOMAIN F |-> Replaced(file, F[i])]
           D == Versioned(req \o <<>>)
           T == GoToolchain(file)
           g == [i \in DOMAIN D |-> Sees(D[i])]
           h == [i \in DOMAIN T |->
                    Sees([name |-> Toolchain, version |-> T[i].version, line |-> T[i].line,
                          editable |-> TRUE])]
<1>1. /\ \A i \in DOMAIN D : SeenOf(g[i], path) /\ g[i].editable = D[i].editable
                                /\ g[i].version = D[i].version /\ g[i].evidence[2] = D[i].line
      /\ \A i \in DOMAIN T : SeenOf(h[i], path) /\ h[i].version = T[i].version
                                /\ h[i].evidence[2] = T[i].line
    BY DEF Sighted, SeenOf, IsSighting
<1>2. GoMod(file, path) = (g \o <<>>) \o (h \o <<>>)
    BY DEF GoMod, Sightings
<1>3. AreOf(file, F) /\ AreOf(file, T)
    <2>1. AreOf(file, Directives(file, "require"))
        BY NumberedAreOf, SomeAreOf DEF Directives, Where
    <2>2. AreOf(file, F)
        BY <2>1, SomeAreOf DEF Versioned, Where
    <2> QED BY <2>2, ToolchainIsOf
<1>4. /\ IsSeq(req) /\ req \o <<>> = req /\ DOMAIN req = DOMAIN F
      /\ \A i \in DOMAIN F : req[i] = Replaced(file, F[i])
    <2>1. req = [i \in DOMAIN F |-> req[i]] /\ \A i \in DOMAIN F : req[i] = Replaced(file, F[i])
        OBVIOUS
    <2> HIDE DEF req, F
    <2> QED BY <1>3, <2>1, MapIs DEF AreOf
<1>5. g = [i \in DOMAIN D |-> g[i]] /\ h = [i \in DOMAIN T |-> h[i]]
    OBVIOUS
<1>6. IsSeq(D) /\ \A i \in DOMAIN D : \E k \in DOMAIN F : D[i] = req[k]
    <2> DEFINE places == {i \in DOMAIN req : req[i].version # NoVersion}
    <2>1. D = Picked(req, places)
        BY <1>4 DEF Versioned, Where
    <2> HIDE DEF D, req, F, places
    <2> QED BY <1>4, <2>1, PickedSome
<1> HIDE DEF g, h, D, T, req, F
<1>7. AllSeen(g, path) /\ g \o <<>> = g /\ DOMAIN g = DOMAIN D
    BY <1>1, <1>5, <1>6, MapSeen
<1>8. AllSeen(h, path) /\ h \o <<>> = h /\ DOMAIN h = DOMAIN T
    BY <1>1, <1>3, <1>5, MapSeen DEF AreOf
<1>9. AreWritten(h, file)
    BY <1>1, <1>3, <1>8, SeenAreWritten
<1>10. AreWritten(g, file)
    <2> SUFFICES ASSUME NEW i \in DOMAIN D, g[i].editable PROVE IsWritten(g[i], file)
        BY <1>7 DEF AreWritten, IsWritten
    <2>1. PICK k \in DOMAIN F : D[i] = req[k]
        BY <1>6
    <2>2. PICK j \in DOMAIN file :
              "version" \in DOMAIN file[j] /\ F[k] = With(file[j], "line", j)
        BY <1>3 DEF AreOf
    <2> DEFINE r == F[k]
               d == file[j]
    <2>3. r = With(d, "line", j) /\ "version" \in DOMAIN d
        BY <2>2
    <2>4. Replaced(file, r) = D[i] /\ D[i].editable
        BY <1>1, <1>4, <2>1
    <2> HIDE DEF r, d
    <2>5. r.line = j /\ r.version = d.version
        BY <2>3, StatementIs
    <2>6. DOMAIN r = DOMAIN d \cup {"line"}
        BY <2>3, StatementIs
    <2>7. r.line = j /\ r.version = d.version /\ {"version", "line"} \subseteq DOMAIN r
        BY <2>3, <2>5, <2>6
    <2>8. D[i].version = d.version /\ D[i].line = j
        BY <2>4, <2>7, ReplacedIs
    <2> QED BY <1>1, <2>2, <2>8 DEF IsWritten, d
<1>11. AllSeen(g \o h, path) /\ Range(g \o h) = Range(g) \cup Range(h)
    BY <1>7, <1>8, ConcatSeen
<1>12. AreWritten(g \o h, file)
    <2>1. \A s \in Range(g) \cup Range(h) : IsWritten(s, file)
        BY <1>9, <1>10 DEF Range, AreWritten
    <2> DEFINE k == g \o h
    <2>2. \A i \in DOMAIN k : k[i] \in Range(g) \cup Range(h)
        BY <1>11 DEF Range
    <2> HIDE DEF k
    <2>3. AreWritten(k, file)
        BY <2>1, <2>2 DEF AreWritten
    <2> QED BY <2>3 DEF k
<1> QED BY <1>2, <1>7, <1>8, <1>12

LEMMA ParseWritten ==
    ASSUME NEW path, Last(path) \notin LockNames, NEW text, IsText(path, text),
           text # Unreadable
    PROVE  AreWritten(Parse(text, path), text)
<1> USE DEF LockNames, RequirementsNames
<1>1. IsSeq(text)
    BY DEF IsText
<1>2. CASE Last(path) \in {"package.json", "go.mod", "Cargo.toml", "Cargo.lock"}
    <2>1. \A i \in DOMAIN text : "version" \in DOMAIN text[i]
        BY <1>2 DEF IsText, ManifestNames
    <2>2. CASE Last(path) = "package.json"
        BY <1>1, <2>1, <2>2, PackageJsonWritten DEF Parse
    <2>3. CASE Last(path) = "go.mod"
        BY <1>1, <2>1, <2>3, GoModWritten DEF Parse
    <2>4. CASE Last(path) = "Cargo.toml"
        <3>1. \A i \in DOMAIN text : {"version", "bare"} \subseteq DOMAIN text[i]
            BY <2>4 DEF IsText, ManifestNames
        <3> QED BY <1>1, <3>1, <2>4, CargoTomlWritten DEF Parse
    <2>5. CASE Last(path) = "Cargo.lock"
        BY <1>1, <2>1, <2>5, CargoLockWritten DEF Parse
    <2> QED BY <1>2, <2>2, <2>3, <2>4, <2>5
<1>3. CASE Last(path) \in RequirementsNames
    <2>1. \A i \in DOMAIN text : Includes(text[i])
        BY <1>3 DEF IsText, ManifestNames
    <2>2. Parse(text, path) = Requirements(text, path)
        BY <1>3 DEF Parse
    <2> QED BY <1>1, <2>1, <2>2, RequirementsWritten
<1>4. CASE Last(path) \notin ManifestNames
    <2>1. Parse(text, path) = <<>>
        BY <1>4 DEF Parse, ManifestNames
    <2> QED BY <2>1 DEF AreWritten
<1> QED BY <1>2, <1>3, <1>4 DEF ManifestNames


\* A finding is of the version of its package that the matcher knows of.
IsKnown(x) ==
    /\ x.known \in Known
    /\ x.known.key = x.package.key /\ x.known.version = x.package.version
IsOffer(o) == IsKnown(o.finding) /\ o.to = o.finding.known.fix
IsFix(fix) ==
    /\ IsOffer(fix.offer)
    /\ Normal(fix.offer.path) = fix.offer.path /\ Last(fix.offer.path) \notin LockNames
    /\ IsText(fix.offer.path, fix.before)
    /\ fix.after = Rewritten(fix.before, fix.offer.line, fix.offer.to)

\* From what was found to the edit that was applied.
FindingsGood ==
    /\ \A x \in found : IsKnown(x)
    /\ \A a \in asked : \A x \in a.findings : IsKnown(x)
    /\ \A o \in menu : IsOffer(o)
    /\ \A fix \in fixes : IsFix(fix)

LEMMA FindingsStay ==
    ASSUME FindingsGood, UNCHANGED <<asked, fixes>>, found' \subseteq found, menu' \subseteq menu
    PROVE  FindingsGood'
    BY DEF FindingsGood

LEMMA FindingsStep ==
    ASSUME DocumentsInv, FindingsGood, [DocumentsNext]_documentVars
    PROVE  FindingsGood'
<1>1. CASE \/ UNCHANGED documentVars \/ Scans \/ ScanStarts
           \/ \E path \in DOMAIN Project.texts :
                 \/ Opens(path) \/ Types(path) \/ Saves(path) \/ Closes(path)
                 \/ AsksAction(path) \/ Rewrites(path) \/ Deletes(path)
           \/ DidOpen \/ DidChange \/ DidClose \/ DidSave \/ DidChangeWatched \/ DidDelete
           \/ CodeAction \/ RendersFile \/ Delivers
    <2>1. UNCHANGED <<asked, fixes>> /\ found' \subseteq found /\ menu' \subseteq menu
        BY <1>1 DEF documentVars, editorVars, serverVars, engineVars, Scans, ScanStarts, Opens,
           Types, Becomes, Saves, Closes, AsksAction, Rewrites, Deletes, DidOpen, DidChange,
           DidClose, DidSave, DidChangeWatched, DidDelete, CodeAction, RendersFile, Delivers
    <2> QED BY <2>1, FindingsStay
<1>2. ASSUME NEW offer \in menu, TakesFix(offer) PROVE FindingsGood'
    <2>1. UNCHANGED <<found, asked>> /\ menu' = {}
        BY <1>2 DEF TakesFix, Becomes, serverVars, engineVars
    <2>2. CASE ~Fits(offer)
        <3>1. fixes' = fixes
            BY <1>2, <2>2 DEF TakesFix
        <3> QED BY <2>1, <3>1, FindingsStay
    <2>3. CASE Fits(offer)
        <3> DEFINE before == doc[offer.path].text
                   after == Rewritten(before, offer.line, offer.to)
                   fix == [offer |-> offer, before |-> before, after |-> after]
        <3>1. fixes' = {fix}
            BY <1>2, <2>3 DEF TakesFix
        <3>2. IsOffer(offer) /\ Last(offer.path) \notin LockNames /\ offer.path \in DOMAIN doc
            BY DEF FindingsGood, DocumentsInv, TextsGood, OffersGood, VersionsAgree, OfferAgrees
        <3>3. IsText(offer.path, before)
            BY <3>2 DEF DocumentsInv, TextsGood, DocsGood, IsAt
        <3>4. Normal(offer.path) = offer.path
            BY <3>2, TextsAreTexts
               DEF DocumentsInv, TextsGood, DocsGood, ExtractionInv, FilesGood, IsPath
        <3>5. fix.offer = offer /\ fix.before = before /\ fix.after = after
            OBVIOUS
        <3> HIDE DEF fix
        <3>6. IsFix(fix)
            BY <3>2, <3>3, <3>5, <3>4 DEF IsFix
        <3>7. \A f \in fixes' : IsFix(f)
            BY <3>1, <3>6
        <3> QED BY <2>1, <3>7 DEF FindingsGood
    <2> QED BY <2>2, <2>3
<1>3. CASE Replies
    <2>1. UNCHANGED <<found, menu, fixes>>
        BY <1>3 DEF Replies, editorVars
    <2>2. ASSUME NEW a \in asked' PROVE a \in asked \/ a.findings \subseteq found
        BY <1>3 DEF Replies, RepliesToOpen, RepliesToAsk, ByFile
    <2> QED BY <2>1, <2>2 DEF FindingsGood
<1>4. CASE AnswersAction
    <2>1. asked' = {} /\ UNCHANGED <<found, fixes>>
        BY <1>4 DEF AnswersAction
    <2>2. PICK a \in asked :
              LET source == Source(a.request.path)
                  offers == Upgrades(a.request.path, source.version, source.text, a.findings,
                                     a.request)
              IN menu' = IF awaited THEN offers ELSE menu
        BY <1>4 DEF AnswersAction
    <2>3. ASSUME NEW o \in menu' PROVE IsOffer(o)
        <3>1. CASE awaited
            <4>1. PICK x \in a.findings : o.to = x.known.fix /\ o.finding = x
                BY <2>2, <2>3, <3>1 DEF Upgrades
            <4> QED BY <4>1 DEF FindingsGood, IsOffer
        <3>2. CASE ~awaited
            BY <2>2, <2>3, <3>2 DEF FindingsGood
        <3> QED BY <3>1, <3>2
    <2> QED BY <2>1, <2>3 DEF FindingsGood
<1>5. CASE ScanReports
    <2>1. found' = FindingsOf(packages) /\ UNCHANGED <<asked, menu, fixes>>
        BY <1>5 DEF ScanReports, editorVars
    <2>2. ASSUME NEW x \in FindingsOf(packages) PROVE IsKnown(x)
        <3>1. PICK p \in packages, l \in Known :
                  /\ l.key = p.key /\ l.version = p.version
                  /\ x = [package |-> p, known |-> l]
            BY DEF FindingsOf
        <3>2. x.package = p /\ x.known = l
            BY <3>1
        <3> QED BY <3>1, <3>2 DEF IsKnown
    <2> QED BY <2>1, <2>2 DEF FindingsGood
<1> QED BY <1>1, <1>2, <1>3, <1>4, <1>5 DEF DocumentsNext, Edits, Serves

\* What stands at the line after an edit is the version that was written there,
\* and of that the matcher knows nothing.
LEMMA StandingFixSettles ==
    ASSUME FindingsGood, EditLandsOnVersion, FindingsStand
    PROVE  FixSettles
<1> SUFFICES ASSUME Settled, NEW fix \in fixes, Current(fix), Bare(fix.before[fix.offer.line]),
                    NEW y \in found,
                    y.package.key = fix.offer.finding.package.key,
                    y.package.evidence = fix.offer.finding.package.evidence
             PROVE  FALSE
    BY DEF FixSettles, Settles
<1>0. PICK s \in Range(SeenIn(fix.before, fix.offer.path)) :
          /\ fix.offer.version # Unversioned
          /\ fix.offer.finding.package.evidence = AnchorSite(fix.offer.finding.package)
          /\ s.key = fix.offer.finding.package.key
          /\ s.evidence = fix.offer.finding.package.evidence
          /\ \A r \in Range(SeenIn(fix.after, fix.offer.path)) :
                r.evidence[2] = fix.offer.line => r.editable
          /\ files[fix.offer.path] = fix.after
    BY DEF Current
<1> DEFINE path == fix.offer.path
           line == fix.offer.line
           to == fix.offer.to
           x == fix.offer.finding
           seen == SeenIn(fix.before, path)
           named == Named(seen, x)
<1>1. /\ IsKnown(x) /\ to = x.known.fix /\ Last(path) \notin LockNames
      /\ IsText(path, fix.before) /\ fix.after = Rewritten(fix.before, line, to)
      /\ IsKnown(y)
    BY DEF FindingsGood, IsFix, IsOffer
<1>2. fix.before # Unreadable /\ seen = Parse(fix.before, path)
    <2>1. Range(<<>>) = {}
        BY EmptyRange
    <2> QED BY <1>0, <2>1 DEF SeenIn
<1>3. AllSeen(seen, path) /\ AreWritten(seen, fix.before)
    BY <1>1, <1>2, ParseIs, ParseWritten
<1>4. PICK k \in DOMAIN seen : seen[k] = s
    BY DEF Range
<1>5. PICK i \in named :
          /\ seen[i].evidence[2] = line /\ seen[i].editable
          /\ named = {i} \/ line = AnchorSite(x.package)[2]
    BY <1>0 DEF EditLandsOnVersion
<1>6. s.evidence = <<path, line>>
    <2>1. k \in named
        BY <1>0, <1>4 DEF Named
    <2>2. named = {i} => s = seen[i]
        BY <1>4, <2>1
    <2>3. s.evidence[2] = line
        BY <1>0, <1>5, <2>2
    <2>4. s.evidence = <<path, s.evidence[2]>>
        BY <1>3, <1>4 DEF AllSeen, SeenOf
    <2> QED BY <2>3, <2>4
<1>7. /\ line \in DOMAIN fix.before /\ "version" \in DOMAIN fix.before[line]
      /\ i \in DOMAIN seen
    BY <1>3, <1>5 DEF AreWritten, IsWritten, Named
<1>8. fix.after[line].version = to /\ Bare(fix.after[line])
    <2>1. fix.after = [fix.before EXCEPT ![line].version = to]
        BY <1>1, <1>2, <1>7 DEF Rewritten
    <2>2. fix.after[line] = [fix.before[line] EXCEPT !.version = to]
        BY <1>7, <2>1
    <2> DEFINE d == fix.before[line]
    <2>3. "version" \in DOMAIN d /\ fix.after[line] = [d EXCEPT !.version = to] /\ Bare(d)
        BY <1>7, <2>2
    <2> DEFINE e == [d EXCEPT !.version = to]
    <2> HIDE DEF d, to
    <2>4. e.version = to /\ DOMAIN e = DOMAIN d /\ ("bare" \in DOMAIN d => e.bare = d.bare)
        BY <2>3
    <2>5. Bare(e)
        BY <2>3, <2>4 DEF Bare
    <2> QED BY <2>3, <2>4, <2>5
<1>9. IsText(path, fix.after)
    BY <1>1, RewrittenIsText
<1>10. IsManifest(path)
    <2>1. Last(path) \notin ManifestNames => Parse(fix.before, path) = <<>>
        BY DEF Parse, ManifestNames, LockNames, RequirementsNames
    <2>2. DOMAIN <<>> = {}
        OBVIOUS
    <2> QED BY <1>2, <1>7, <2>1, <2>2 DEF IsManifest
<1>11. y.package.evidence = <<path, line>> /\ y.package.evidence[1] = path
    BY <1>0, <1>6
<1>12. PICK r \in StatedAt(path) :
           /\ r.key = y.package.key /\ r.version = y.package.version
           /\ r.evidence = y.package.evidence
    BY <1>10, <1>11 DEF FindingsStand, Stands
<1>13. Read(path) = fix.after /\ fix.after # Unreadable /\ r \in Range(Parse(fix.after, path))
    <2>1. Read(path) # Unreadable /\ r \in Range(Parse(Read(path), path))
        BY <1>10, <1>12 DEF StatedAt
    <2>2. Read(path) = files[Normal(path)]
        BY <2>1 DEF Read
    <2>3. Normal(path) = path
        BY DEF FindingsGood, IsFix
    <2> QED BY <1>0, <2>1, <2>2, <2>3
<1>14. r \in Range(SeenIn(fix.after, path)) /\ r.evidence[2] = line
    BY <1>11, <1>12, <1>13 DEF SeenIn
<1>15. r.version = to
    <2>1. r.editable
        BY <1>0, <1>14
    <2>2. IsWritten(r, fix.after)
        BY <1>1, <1>9, <1>13, ParseWritten DEF AreWritten, Range
    <2> QED BY <1>8, <1>14, <2>1, <2>2 DEF IsWritten
<1>16. /\ x.known \in Known /\ y.known \in Known /\ x.known.key = y.known.key
       /\ x.known.fix = y.known.version
    BY <1>1, <1>12, <1>15 DEF IsKnown
<1> QED BY <1>16, DocumentsAssumption

\* A fix that is taken on a line that states what was found there and nothing
\* around it, saved and scanned again, leaves no finding of that package in the
\* line (FixSettles of Documents).
THEOREM FixesSettle == DocumentsSpec => []FixSettles
<1>1. DocumentsInit => FindingsGood
    BY DEF DocumentsInit, FindingsGood
<1>2. DocumentsInv /\ FindingsGood /\ [DocumentsNext]_documentVars => FindingsGood'
    BY FindingsStep
<1>3. DocumentsSpec => []FindingsGood
    BY <1>1, <1>2, DocumentsAreWellFormed, PTL DEF DocumentsSpec
<1>4. FindingsGood /\ EditLandsOnVersion /\ FindingsStand => FixSettles
    BY StandingFixSettles
<1> QED BY <1>3, <1>4, EditsLand, WhatIsHeldStands, PTL

=============================================================================
