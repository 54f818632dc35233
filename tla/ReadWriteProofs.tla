--------------------------- MODULE ReadWriteProofs ---------------------------
(***************************************************************************)
(* Proofs about the two ends of a document's way that have nothing to do   *)
(* with each other: TextReader, for every set of reports, and              *)
(* DocumentOutput, for any number of streams and any depth.                *)
(***************************************************************************)
EXTENDS TextReader, DocumentOutput, SequenceTheorems, TLAPS

-----------------------------------------------------------------------------
(* TextReader.                                                             *)

USE ReportsAssumption

\* An error is in one place only.
OnePlace ==
  /\ thrown \cap (overtaken \cup Pending) = {} /\ overtaken \cap Pending = {}
  /\ severity_ # "none" => error_ # NoReport
  /\ reader = "failed" => fatal # {}

Results == [kind : {"returns", "false", "throws"}, error : Reports \cup {NoReport}]

LEMMA ResultTypes == Returned \in Results /\ SaysFalse \in Results
  BY DEF Returned, SaysFalse, Results

\* What is pending is an error, and then it is the last report.
LEMMA PendingType ==
  ASSUME TextTypeOK, OnePlace
  PROVE  Pending \subseteq Reports
  BY DEF TextTypeOK, OnePlace, Pending, Thrown

LEMMA ReaderInitInv == ReaderInit => TextReaderInv
  <1> SUFFICES ASSUME ReaderInit PROVE TextReaderInv
    OBVIOUS
  <1>1. TextTypeOK
    BY ResultTypes DEF ReaderInit, TextTypeOK, Calls, Results
  <1>2. Pending = {}
    BY DEF ReaderInit, Pending, Thrown
  <1> QED
    BY <1>1, <1>2 DEF ReaderInit, TextReaderInv, ErrorsAccounted

\* However a method looks at what has been reported, every error stays accounted for; when it
\* does not throw, and has looked, none is pending.
LEMMA CheckAccounts ==
  ASSUME TextReaderInv, NEW failed \in BOOLEAN, NEW otherwise \in {Returned, SaysFalse},
         Check(failed, otherwise), UNCHANGED <<errors, overtaken>>
  PROVE  /\ severity_' \in Severities \cup {"none"} /\ error_' = error_
         /\ answer' \in Results /\ thrown' \subseteq Reports
         /\ errors' = thrown' \cup overtaken' \cup Pending'
         /\ thrown' \cap (overtaken' \cup Pending') = {} /\ overtaken' \cap Pending' = {}
         /\ severity_' # "none" => error_' # NoReport
         /\ thrown \subseteq thrown'
         /\ answer'.kind = "throws" => answer'.error \notin thrown
         /\ failed /\ answer'.kind # "throws" => Pending' = {}
         /\ answer' = otherwise \/ answer'.kind = "throws"
  <1>0. /\ TextTypeOK /\ ErrorsAccounted
        /\ thrown \cap (overtaken \cup Pending) = {} /\ overtaken \cap Pending = {}
        /\ severity_ # "none" => error_ # NoReport
    BY DEF TextReaderInv
  <1>a. otherwise \in Results /\ otherwise.kind # "throws"
    BY ResultTypes DEF Returned, SaysFalse
  <1>1. CASE DoNotCheck(otherwise) /\ ~failed
    <2>1. answer' = otherwise /\ Pending' = Pending /\ UNCHANGED <<state, thrown>>
      BY <1>1 DEF DoNotCheck, Pending, state
    <2> QED
      BY <1>0, <1>1, <1>a, <2>1 DEF TextTypeOK, ErrorsAccounted, state
  <1>2. CASE CheckForExceptions(otherwise)
    <2>1. severity_' = "none" /\ error_' = error_ /\ Pending' = {}
      BY <1>2 DEF CheckForExceptions, Pending, Thrown
    <2>2. CASE severity_ \in Thrown
      <3>1. answer' = [kind |-> "throws", error |-> error_] /\ thrown' = thrown \cup {error_}
        BY <1>2, <2>2 DEF CheckForExceptions
      <3>2. Pending = {error_} /\ error_ \in Reports
        BY <1>0, <2>2 DEF Pending, TextTypeOK, Thrown
      <3>3. answer' \in Results /\ answer'.kind = "throws" /\ answer'.error = error_
        BY <3>1, <3>2 DEF Results
      <3> QED
        BY <1>0, <2>1, <3>1, <3>2, <3>3 DEF TextTypeOK, ErrorsAccounted
    <2>3. CASE severity_ \notin Thrown
      <3>1. answer' = otherwise /\ thrown' = thrown /\ Pending = {}
        BY <1>2, <2>3 DEF CheckForExceptions, Pending
      <3> QED
        BY <1>0, <1>a, <2>1, <3>1 DEF TextTypeOK, ErrorsAccounted
    <2> QED
      BY <2>2, <2>3
  <1> QED
    BY <1>1, <1>2 DEF Check

LEMMA ReaderStepInv == TextReaderInv /\ [ReaderNext]_readerVars => TextReaderInv'
  <1> SUFFICES ASSUME TextReaderInv, [ReaderNext]_readerVars PROVE TextReaderInv'
    OBVIOUS
  <1>0. TextTypeOK /\ ErrorsAccounted /\ OnePlace
    BY DEF TextReaderInv, OnePlace
  <1>1. CASE ConstructReader
    <2>1. Pending' = {}
      BY <1>1 DEF ConstructReader, Pending, Thrown
    <2>2. TextTypeOK'
      BY <1>0, <1>1, ResultTypes DEF ConstructReader, TextTypeOK, Results
    <2>3. ErrorsAccounted' /\ OnePlace'
      BY <1>1, <2>1 DEF ConstructReader, ErrorsAccounted, OnePlace, Returned
    <2> QED
      BY <2>2, <2>3 DEF TextReaderInv, OnePlace
  <1>2. CASE DestroyReader
    <2>1. Pending' = Pending
      BY <1>2 DEF DestroyReader, Pending, state
    <2>2. TextTypeOK'
      BY <1>0, <1>2, ResultTypes DEF DestroyReader, TextTypeOK, Results, state, history
    <2>3. ErrorsAccounted' /\ OnePlace'
      BY <1>0, <1>2, <2>1 DEF DestroyReader, ErrorsAccounted, OnePlace, Returned, state, history
    <2> QED
      BY <2>2, <2>3 DEF TextReaderInv, OnePlace
  <1>3. ASSUME NEW c \in Calls, Enter(c)
        PROVE  TextReaderInv'
    <2>1. Pending' = Pending /\ pc' # "user"
      BY <1>3 DEF Enter, Pending, state
    <2>2. TextTypeOK'
      BY <1>0, <1>3 DEF Enter, TextTypeOK, state, history
    <2>3. ErrorsAccounted' /\ OnePlace'
      BY <1>0, <1>3, <2>1 DEF Enter, ErrorsAccounted, OnePlace, state, history
    <2> QED
      BY <2>2, <2>3 DEF TextReaderInv, OnePlace
  <1>4. ASSUME NEW r \in Reports, NEW severity \in Severities, Report(r, severity)
        PROVE  TextReaderInv'
    <2>1. Pending' = IF severity \in Thrown THEN {r} ELSE {}
      BY <1>4 DEF Report, Pending
    <2>2. Pending \subseteq Reports /\ r \notin errors
      BY <1>0, <1>4, PendingType DEF Report
    <2>3. TextTypeOK'
      BY <1>0, <1>4, <2>2 DEF Report, TextTypeOK, Thrown
    <2>4. ErrorsAccounted'
      BY <1>0, <1>4, <2>1 DEF Report, ErrorsAccounted
    <2>5. OnePlace'
      BY <1>0, <1>4, <2>1, <2>2 DEF Report, OnePlace, ErrorsAccounted
    <2> QED
      BY <2>3, <2>4, <2>5 DEF TextReaderInv, OnePlace
  <1>5. CASE ReadReturns
    <2>1. PICK failed \in BOOLEAN, otherwise \in {Returned, SaysFalse} :
            /\ Check(failed, otherwise)
            /\ reader' = reader \/ (reader = "more" /\ reader' = "end")
      BY <1>5 DEF ReadReturns, Returned, SaysFalse
    <2>2. pc' = "user" /\ UNCHANGED <<call, errors, fatal, overtaken>>
      BY <1>5 DEF ReadReturns
    <2>3. /\ severity_' \in Severities \cup {"none"} /\ error_' = error_
          /\ answer' \in Results /\ thrown' \subseteq Reports
          /\ errors' = thrown' \cup overtaken' \cup Pending'
          /\ thrown' \cap (overtaken' \cup Pending') = {} /\ overtaken' \cap Pending' = {}
          /\ severity_' # "none" => error_' # NoReport
          /\ failed /\ answer'.kind # "throws" => Pending' = {}
          /\ answer' = otherwise \/ answer'.kind = "throws"
      BY <2>1, <2>2, CheckAccounts
    <2>4. TextTypeOK'
      BY <1>0, <2>1, <2>2, <2>3 DEF TextTypeOK, Results
    <2> QED
      BY <1>0, <2>1, <2>2, <2>3, <2>4 DEF TextReaderInv, ErrorsAccounted, OnePlace
  <1>6. CASE OtherReturns
    <2>1. PICK failed \in BOOLEAN, otherwise \in {Returned, SaysFalse} : Check(failed, otherwise)
      BY <1>6 DEF OtherReturns
    <2>2. /\ pc' = "user" /\ UNCHANGED <<call, errors, fatal, overtaken>> /\ call # "read"
          /\ reader' = reader \/ reader' = "closed"
      BY <1>6 DEF OtherReturns
    <2>3. /\ severity_' \in Severities \cup {"none"} /\ error_' = error_
          /\ answer' \in Results /\ thrown' \subseteq Reports
          /\ errors' = thrown' \cup overtaken' \cup Pending'
          /\ thrown' \cap (overtaken' \cup Pending') = {} /\ overtaken' \cap Pending' = {}
          /\ severity_' # "none" => error_' # NoReport
      BY <2>1, <2>2, CheckAccounts
    <2>4. TextTypeOK'
      BY <1>0, <2>1, <2>2, <2>3 DEF TextTypeOK, Results
    <2> QED
      BY <1>0, <2>1, <2>2, <2>3, <2>4 DEF TextReaderInv, ErrorsAccounted, OnePlace
  <1>7. CASE UNCHANGED readerVars
    <2>1. Pending' = Pending
      BY <1>7 DEF readerVars, state, Pending
    <2>2. TextTypeOK'
      BY <1>0, <1>7 DEF readerVars, state, history, TextTypeOK
    <2>3. ErrorsAccounted' /\ OnePlace'
      BY <1>0, <1>7, <2>1 DEF readerVars, state, history, ErrorsAccounted, OnePlace
    <2> QED
      BY <2>2, <2>3 DEF TextReaderInv, OnePlace
  <1> QED
    BY <1>1, <1>2, <1>3, <1>4, <1>5, <1>6, <1>7 DEF ReaderNext

\* The inductive invariant of the reader, for any number of reports.
THEOREM TextReaderInvHolds == ReaderSpec => []TextReaderInv
  BY ReaderInitInv, ReaderStepInv, PTL DEF ReaderSpec

\* Every error is thrown, about to be thrown, or overtaken by a later report
\* (on_libxml_error, check_for_exceptions).
THEOREM ErrorsAccountedHolds == ReaderSpec => []ErrorsAccounted
  BY TextReaderInvHolds, PTL DEF TextReaderInv

\* No error is thrown twice (check_for_exceptions).
THEOREM ThrownOnceHolds == ReaderSpec => ThrownOnce
  <1>1. TextReaderInv /\ [ReaderNext]_readerVars =>
          [pc # "user" /\ pc' = "user" /\ answer'.kind = "throws" => answer'.error \notin thrown]_readerVars
    <2> SUFFICES ASSUME TextReaderInv, ReaderNext, pc # "user", pc' = "user", answer'.kind = "throws"
                 PROVE  answer'.error \notin thrown
      BY DEF readerVars, state, history
    <2>1. ReadReturns \/ OtherReturns
      BY DEF ReaderNext, ConstructReader, DestroyReader, Enter, Report
    <2>2. PICK failed \in BOOLEAN, otherwise \in {Returned, SaysFalse} : Check(failed, otherwise)
      BY <2>1 DEF ReadReturns, OtherReturns
    <2>3. UNCHANGED <<errors, overtaken>>
      BY <2>1 DEF ReadReturns, OtherReturns
    <2> QED
      BY <2>2, <2>3, CheckAccounts
  <1> QED
    BY <1>1, TextReaderInvHolds, PTL DEF ReaderSpec, ThrownOnce

-----------------------------------------------------------------------------
(* DocumentOutput.                                                         *)

\* What OutputInv says of each frame.
Sound(f) ==
  /\ f.scope # "stream" => f.saved = f.before
  /\ f.lost => f.failed
  /\ f.scope = "stream" => f.stream \in Streams

Sounds(s) == s \in Seq(Frame) /\ \A i \in 1..Len(s) : Sound(s[i])

\* A frame that begins.
LEMMA PushSound ==
  ASSUME NEW s, Sounds(s), NEW f \in Frame, Sound(f)
  PROVE  Sounds(<<f>> \o s) /\ Len(<<f>> \o s) = Len(s) + 1
<1>1. s \in Seq(Frame) /\ <<f>> \in Seq(Frame) /\ Len(<<f>>) = 1 /\ <<f>>[1] = f
  BY DEF Sounds
<1>2. /\ <<f>> \o s \in Seq(Frame) /\ Len(<<f>> \o s) = 1 + Len(s)
      /\ \A i \in 1..Len(<<f>> \o s) : (<<f>> \o s)[i] = IF i <= 1 THEN <<f>>[i] ELSE s[i - 1]
  BY <1>1, ConcatProperties
<1>3. ASSUME NEW i \in 1..Len(<<f>> \o s) PROVE Sound((<<f>> \o s)[i])
  <2>1. CASE i = 1
    BY <1>1, <1>2, <2>1
  <2>2. CASE i # 1
    <3>1. i - 1 \in 1..Len(s) /\ (<<f>> \o s)[i] = s[i - 1]
      BY <1>1, <1>2, <2>2, LenProperties
    <3> QED BY <3>1 DEF Sounds
  <2> QED BY <2>1, <2>2
<1> QED BY <1>1, <1>2, <1>3, LenProperties DEF Sounds

\* A frame that ends, or another in its place.
LEMMA PopSound ==
  ASSUME NEW s, Sounds(s), s # <<>>
  PROVE  /\ Sounds(Tail(s)) /\ Len(Tail(s)) = Len(s) - 1 /\ Len(s) \in Nat \ {0}
         /\ Head(s) \in Frame /\ Sound(Head(s))
<1>1. s \in Seq(Frame)
  BY DEF Sounds
<1>2. /\ Head(s) \in Frame /\ Tail(s) \in Seq(Frame) /\ Len(Tail(s)) = Len(s) - 1
      /\ Len(s) \in Nat \ {0} /\ Head(s) = s[1]
      /\ \A i \in 1..Len(Tail(s)) : Tail(s)[i] = s[i + 1]
  BY <1>1, HeadTailProperties, EmptySeq, LenProperties
<1>3. 1 \in 1..Len(s) /\ \A i \in 1..Len(Tail(s)) : i + 1 \in 1..Len(s)
  BY <1>2
<1> QED BY <1>2, <1>3 DEF Sounds

\* The invariant, and what a step does to the stack.
WriterInv == /\ settings \in Settings /\ bad \in SUBSET Streams /\ result \in {"returns", "throws"}
       /\ Sounds(stack)

Restores == Len(stack') < Len(stack) /\ Top.scope # "stream" => settings' = Top.before
Tells    == Len(stack') < Len(stack) /\ Top.scope = "stream" /\ result' = "returns" => ~Top.lost
Outcome  == WriterInv' /\ Restores /\ (NegatedErrorCode \notin ErrorResults => Tells)

LEMMA SameOutcome ==
  ASSUME WriterInv, UNCHANGED stack, settings' \in Settings, bad' \in SUBSET Streams,
         result' \in {"returns", "throws"}
  PROVE  Outcome
<1>1. Len(stack) \in Nat
  BY LenProperties DEF WriterInv, Sounds
<1> QED BY <1>1 DEF Outcome, WriterInv, Sounds, Restores, Tells

LEMMA BeginsOutcome ==
  ASSUME WriterInv, NEW scope \in Scopes, NEW saved \in Settings, NEW stream \in Streams \cup {NoStream},
         NEW at \in {"user", "libxml2"}, Begins(scope, saved, stream, at),
         scope # "stream" => saved = settings,
         scope = "stream" => stream \in Streams,
         settings' \in Settings, bad' \in SUBSET Streams, result' \in {"returns", "throws"}
  PROVE  Outcome
<1> DEFINE f == [scope |-> scope, saved |-> saved, stream |-> stream, pc |-> at,
                 failed |-> FALSE, before |-> settings, lost |-> FALSE]
<1>1. f \in Frame /\ Sound(f)
  BY DEF Frame, Sound, WriterInv
<1>2. stack' = <<f>> \o stack
  BY DEF Begins
<1> HIDE DEF f
<1>3. Sounds(stack') /\ Len(stack') = Len(stack) + 1
  BY <1>1, <1>2, PushSound DEF WriterInv
<1>4. Len(stack) \in Nat
  BY LenProperties DEF WriterInv, Sounds
<1>5. ~(Len(stack') < Len(stack))
  BY <1>3, <1>4
<1> QED BY <1>3, <1>5 DEF Outcome, WriterInv, Restores, Tells

LEMMA BecomesOutcome ==
  ASSUME WriterInv, stack # <<>>, NEW f \in Frame, Sound(f), Becomes(f),
         settings' = settings, bad' \in SUBSET Streams, result' = result
  PROVE  Outcome
<1>1. Sounds(Tail(stack)) /\ Len(Tail(stack)) = Len(stack) - 1 /\ Len(stack) \in Nat \ {0}
  BY PopSound DEF WriterInv
<1>2. Sounds(stack') /\ Len(stack') = Len(stack)
  BY <1>1, PushSound DEF Becomes
<1> QED BY <1>1, <1>2 DEF Outcome, WriterInv, Restores, Tells

LEMMA EndsOutcome ==
  ASSUME WriterInv, stack # <<>>, Ends, settings' \in Settings, bad' \in SUBSET Streams,
         result' \in {"returns", "throws"},
         Top.scope # "stream" => settings' = Top.saved,
         NegatedErrorCode \notin ErrorResults =>
           (Top.scope = "stream" /\ Top.failed => result' = "throws")
  PROVE  Outcome
<1>1. Sounds(stack') /\ Sound(Top)
  BY PopSound DEF WriterInv, Ends, Top
<1>2. Restores
  BY <1>1 DEF Restores, Sound
<1>3. NegatedErrorCode \notin ErrorResults => Tells
  BY <1>1 DEF Tells, Sound
<1> QED BY <1>1, <1>2, <1>3 DEF Outcome, WriterInv

-----------------------------------------------------------------------------
(* The steps.                                                              *)

LEMMA SettingsType ==
  ASSUME NEW s \in Settings, NEW value \in BOOLEAN, NEW saved \in Settings
  PROVE  /\ XmlKeepBlanksDefault(s, value) \in Settings
         /\ [s EXCEPT !.indent = value] \in Settings
         /\ Saved(s, value) = s /\ Constructed(s, value) \in Settings
         /\ Destroyed(s, saved) = saved
BY DEF Settings, XmlKeepBlanksDefault, Saved, Constructed, Destroyed

LEMMA CallersCode ==
  ASSUME WriterInv, SetSettings \/ \E s \in Streams : SetStream(s)
  PROVE  Outcome
<1>1. CASE SetSettings
  <2>1. settings' \in Settings
    BY <1>1, SettingsType DEF SetSettings, WriterInv
  <2> QED BY <1>1, <2>1, SameOutcome DEF SetSettings, WriterInv
<1>2. ASSUME NEW s \in Streams, SetStream(s) PROVE Outcome
  <2>1. bad' \in SUBSET Streams
    BY <1>2 DEF SetStream, WriterInv
  <2> QED BY <1>2, <2>1, SameOutcome DEF SetStream, WriterInv
<1> QED BY <1>1, <1>2

LEMMA Guards ==
  ASSUME WriterInv, CreateKeepBlanks \/ Parse \/ Unguard
  PROVE  Outcome
<1>1. ASSUME NEW scope \in {"guard", "parse"}, NEW value \in BOOLEAN, Guard(scope, value)
      PROVE  Outcome
  <2>1. Saved(settings, value) = settings /\ settings' \in Settings
    BY <1>1, SettingsType DEF WriterInv, Guard
  <2>2. Begins(scope, settings, NoStream, "user") /\ scope \in Scopes
    BY <1>1, <2>1 DEF Guard, Scopes
  <2> QED BY <1>1, <2>1, <2>2, BeginsOutcome DEF Guard, WriterInv
<1>2. CASE Unguard
  <2>1. stack # <<>> /\ Top \in Frame /\ Ends
    BY <1>2, PopSound DEF Unguard, Active, WriterInv, Top
  <2>2. settings' = Top.saved /\ settings' \in Settings
    BY <1>2, <2>1, SettingsType DEF Unguard, WriterInv, Frame
  <2>3. Top.scope # "stream"
    BY <1>2 DEF Unguard, Active
  <2> QED BY <1>2, <2>1, <2>2, <2>3, EndsOutcome DEF Unguard, WriterInv
<1> QED BY <1>1, <1>2 DEF CreateKeepBlanks, Parse

LEMMA Documents ==
  ASSUME WriterInv, DocumentWritten \/ \E format \in BOOLEAN : WriteDocument(format)
  PROVE  Outcome
<1>1. ASSUME NEW format \in BOOLEAN, WriteDocument(format) PROVE Outcome
  <2>1. Saved(settings, TRUE) = settings /\ settings' \in Settings
    BY <1>1, SettingsType DEF WriterInv, WriteDocument
  <2>2. Begins("document", settings, NoStream, "libxml2") /\ "document" \in Scopes
    BY <1>1, <2>1 DEF WriteDocument, Scopes
  <2> QED BY <1>1, <2>1, <2>2, BeginsOutcome DEF WriteDocument, WriterInv
<1>2. CASE DocumentWritten
  <2>1. stack # <<>> /\ Top \in Frame /\ Ends /\ Top.scope = "document"
    BY <1>2, PopSound DEF DocumentWritten, Active, WriterInv, Top
  <2>2. settings' = Top.saved /\ settings' \in Settings
    BY <1>2, <2>1, SettingsType DEF DocumentWritten, WriterInv, Frame
  <2> QED BY <1>2, <2>1, <2>2, EndsOutcome DEF DocumentWritten, WriterInv
<1> QED BY <1>1, <1>2

LEMMA StreamBegins ==
  ASSUME WriterInv, NEW s \in Streams, WriteToStream(s)
  PROVE  Outcome
<1>1. CASE Begins("stream", settings, s, "libxml2") /\ UNCHANGED result
  BY <1>1, BeginsOutcome DEF WriteToStream, WriterInv, Scopes
<1>2. CASE result' = "throws" /\ UNCHANGED stack
  BY <1>2, SameOutcome DEF WriteToStream, WriterInv
<1> QED BY <1>1, <1>2 DEF WriteToStream

\* A write to a stream goes on: its frame stays, and knows of what is lost.
LEMMA StreamStep ==
  ASSUME WriterInv, Active("stream"),
         NEW at \in {"libxml2", "writing", "flushing", "closed"},
         NEW failed \in BOOLEAN, NEW lost \in BOOLEAN, lost => failed,
         Becomes([Top EXCEPT !.pc = at, !.failed = failed, !.lost = lost]),
         settings' = settings, bad' \in SUBSET Streams, result' = result
  PROVE  Outcome
<1> DEFINE f == [Top EXCEPT !.pc = at, !.failed = failed, !.lost = lost]
<1>1. stack # <<>> /\ Top \in Frame /\ Sound(Top) /\ Top.scope = "stream"
  BY PopSound DEF Active, WriterInv, Top
<1>2. f \in Frame /\ Sound(f)
  BY <1>1 DEF Frame, Sound
<1> QED BY <1>1, <1>2, BecomesOutcome

LEMMA StreamGoesOn ==
  ASSUME WriterInv, EncodingFails \/ OnWrite \/ OnClose \/
              \E ok \in BOOLEAN : Written(ok) \/ Flushed(ok)
  PROVE  Outcome
<1>1. Active("stream") => Top \in Frame /\ Sound(Top) /\ Top.failed \in BOOLEAN
                          /\ Top.lost \in BOOLEAN /\ Top.stream \in Streams \cup {NoStream}
  BY PopSound DEF Active, WriterInv, Top, Frame
<1>2. ASSUME Active("stream"), NEW at \in {"libxml2", "writing", "flushing", "closed"},
             NEW failed \in BOOLEAN, NEW lost \in BOOLEAN, NEW g,
             g = [Top EXCEPT !.pc = at, !.failed = failed, !.lost = lost]
      PROVE  /\ at = Top.pc => g = [Top EXCEPT !.failed = failed, !.lost = lost]
             /\ lost = Top.lost => g = [Top EXCEPT !.pc = at, !.failed = failed]
             /\ lost = Top.lost /\ failed = Top.failed => g = [Top EXCEPT !.pc = at]
  BY <1>1, <1>2 DEF Frame
<1>3. CASE EncodingFails
  <2>1. Active("stream") /\ Top.pc = "libxml2"
    BY <1>3 DEF EncodingFails, InStream
  <2>2. Becomes([Top EXCEPT !.pc = "libxml2", !.failed = TRUE, !.lost = TRUE])
    BY <1>2, <1>3, <2>1 DEF EncodingFails
  <2> QED BY <1>3, <2>1, <2>2, StreamStep DEF EncodingFails, WriterInv
<1>4. CASE OnWrite
  <2>1. Active("stream") /\ Top.pc = "libxml2" /\ bad' \in SUBSET Streams
    BY <1>4 DEF OnWrite, InStream, WriterInv
  <2>2. CASE Top.stream \in bad
    <3>1. Becomes([Top EXCEPT !.pc = "libxml2", !.failed = TRUE, !.lost = TRUE])
      BY <1>2, <1>4, <2>1, <2>2 DEF OnWrite
    <3> QED BY <1>4, <2>1, <3>1, StreamStep DEF OnWrite
  <2>3. CASE Top.stream \notin bad
    <3>1. Becomes([Top EXCEPT !.pc = "writing", !.failed = Top.failed, !.lost = Top.lost])
      BY <1>1, <1>2, <1>4, <2>1, <2>3 DEF OnWrite
    <3> QED BY <1>1, <1>4, <2>1, <3>1, StreamStep DEF OnWrite, Sound
  <2> QED BY <2>2, <2>3
<1>5. CASE OnClose
  <2>1. Active("stream") /\ bad' \in SUBSET Streams
    BY <1>5 DEF OnClose, InStream, WriterInv
  <2>2. CASE Top.stream \in bad
    <3>1. Becomes([Top EXCEPT !.pc = "closed", !.failed = TRUE, !.lost = Top.lost])
      BY <1>1, <1>2, <1>5, <2>1, <2>2 DEF OnClose
    <3> QED BY <1>1, <1>5, <2>1, <3>1, StreamStep DEF OnClose
  <2>3. CASE Top.stream \notin bad
    <3>1. Becomes([Top EXCEPT !.pc = "flushing", !.failed = Top.failed, !.lost = Top.lost])
      BY <1>1, <1>2, <1>5, <2>1, <2>3 DEF OnClose
    <3> QED BY <1>1, <1>5, <2>1, <3>1, StreamStep DEF OnClose, Sound
  <2> QED BY <2>2, <2>3
<1>6. ASSUME NEW ok \in BOOLEAN, Written(ok) \/ Flushed(ok) PROVE Outcome
  <2> DEFINE failed == Top.failed \/ Top.stream \in bad'
             lost == Top.lost \/ ~ok
  <2>1. Active("stream") /\ StreamTakes(ok)
    BY <1>6 DEF Written, Flushed, InStream
  <2>2. Top.stream \in Streams /\ bad' \in SUBSET Streams
    BY <1>1, <2>1 DEF Active, Sound, StreamTakes, WriterInv
  <2>3. failed \in BOOLEAN /\ lost \in BOOLEAN /\ (lost => failed)
    BY <1>1, <2>1 DEF Sound, StreamTakes
  <2>4. PICK at \in {"libxml2", "closed"} :
          Becomes([Top EXCEPT !.pc = at, !.failed = failed, !.lost = lost])
    BY <1>6 DEF Written, Flushed
  <2> HIDE DEF failed, lost
  <2> QED BY <1>6, <2>1, <2>2, <2>3, <2>4, StreamStep DEF Written, Flushed
<1> QED BY <1>3, <1>4, <1>5, <1>6

LEMMA StreamEnds ==
  ASSUME WriterInv, StreamWritten
  PROVE  Outcome
<1>1. stack # <<>> /\ Top \in Frame /\ Ends
  BY PopSound DEF StreamWritten, InStream, Active, WriterInv, Top
<1>2. PICK written \in IF Top.failed THEN ErrorResults ELSE {"written"} :
        result' = IF written = MinusOne THEN "throws" ELSE "returns"
  BY DEF StreamWritten
<1>3. NegatedErrorCode \notin ErrorResults => ErrorResults \subseteq {MinusOne}
  BY ErrorResultsAssumption
<1>4. NegatedErrorCode \notin ErrorResults /\ Top.failed => result' = "throws"
  BY <1>2, <1>3
<1> QED BY <1>1, <1>2, <1>4, EndsOutcome DEF StreamWritten, InStream, Active, WriterInv

LEMMA WriterStep ==
  ASSUME WriterInv, [OutputNext]_outputVars
  PROVE  /\ WriterInv' /\ [Restores]_outputVars
         /\ NegatedErrorCode \notin ErrorResults => [Tells]_outputVars
<1>1. CASE OutputNext
  <2>1. Outcome
    BY <1>1, CallersCode, Guards, Documents, StreamBegins, StreamGoesOn, StreamEnds DEF OutputNext
  <2> QED BY <2>1 DEF Outcome
<1>2. CASE UNCHANGED outputVars
  BY <1>2 DEF outputVars, WriterInv, Sounds, Sound
<1> QED BY <1>1, <1>2

LEMMA WriterInvHolds == OutputSpec => []WriterInv
<1>1. OutputInit => WriterInv
  BY EmptySeq DEF OutputInit, WriterInv, Sounds, Initially, Settings
<1>2. WriterInv /\ [OutputNext]_outputVars => WriterInv'
  BY WriterStep
<1> QED BY <1>1, <1>2, PTL DEF OutputSpec

\* For any depth of nesting, each KeepBlanks object holds what it has to restore, and libxml2
\* knows of whatever a stream has lost.
THEOREM OutputInvHolds == OutputSpec => []OutputInv
<1>1. WriterInv => OutputInv
  BY DEF WriterInv, Sounds, Sound, OutputInv, OutputTypeOK
<1> QED BY <1>1, WriterInvHolds, PTL

\* Parses, writes to files and strings, and KeepBlanks objects leave the settings as they
\* found them, whatever runs inside them.
THEOREM SettingsRestoredHolds == OutputSpec => SettingsRestored
<1>1. WriterInv /\ [OutputNext]_outputVars => [Restores]_outputVars
  BY WriterStep
<1> QED BY <1>1, WriterInvHolds, PTL DEF OutputSpec, SettingsRestored, Restores

\* A write to a stream that has not taken everything throws, if libxml2 returns -1 after every
\* error, as it did before version 2.13 (do_write_to_stream).
THEOREM WriteReportedHolds ==
  ASSUME NegatedErrorCode \notin ErrorResults PROVE OutputSpec => WriteReported
<1>1. WriterInv /\ [OutputNext]_outputVars => [Tells]_outputVars
  BY WriterStep
<1> QED BY <1>1, WriterInvHolds, PTL DEF OutputSpec, WriteReported, Tells
=============================================================================
