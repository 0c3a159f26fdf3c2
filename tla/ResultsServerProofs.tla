------------------------ MODULE ResultsServerProofs -------------------------
(***************************************************************************)
(* The files of ResultsServer, for any set of results of any lengths and   *)
(* any time limit.  The promises about a file that is complete are         *)
(* strengthened to files whose writers are between two steps.              *)
(***************************************************************************)
EXTENDS ResultsServer, TLAPS

(* What a file may hold. *)
Text == UNION {[1..n -> Post] : n \in 0..MaxLength}

(* A file starts with the whole of p. *)
StartsWith(text, p) == Len(text) >= Length[p] /\ \A i \in 1..Length[p] : text[i] = p

(* The file of a result that is alone in its second is empty between its   *)
(* truncation and its write, and is the result from the write on.          *)
OwnFileInv ==
  \A p \in Post :
    ArrivedIn(second[p]) = {p} =>
      /\ state[p] = "write" => file[second[p]] = <<>>
      /\ state[p] \in {"close", "written"} => file[second[p]] = [i \in 1..Length[p] |-> p]

(* Once all that arrived in a second have been written, closed or not, the *)
(* file starts with one of them.                                           *)
SharedFileInv ==
  \A t \in Second :
    ArrivedIn(t) # {} /\ (\A p \in ArrivedIn(t) : state[p] \in {"close", "written"}) =>
      \E p \in ArrivedIn(t) : StartsWith(file[t], p)

FilesInv == TypeOK /\ OwnFileInv /\ SharedFileInv

-----------------------------------------------------------------------------
(* Writing from the start of a file. *)

(* What a file may hold is a sequence of marks of bounded length. *)
LEMMA TextIsSeq ==
  ASSUME NEW text \in Text
  PROVE  text \in Seq(Post) /\ Len(text) \in 0..MaxLength /\ text \in [1..Len(text) -> Post]
<1>1. PICK n \in 0..MaxLength : text \in [1..n -> Post]
  BY DEF Text
<1> QED
  BY <1>1, PostAssumption

(* And a sequence of marks of bounded length is what a file may hold. *)
LEMMA SeqIsText ==
  ASSUME NEW n \in 0..MaxLength, NEW text \in [1..n -> Post]
  PROVE  text \in Text
BY DEF Text

(* What is written is a text, starts with the marks written, and is no     *)
(* more than them if the file was empty.                                   *)
LEMMA WrittenFacts ==
  ASSUME NEW text \in Text, NEW p \in Post, NEW n \in 0..Length[p]
  PROVE  /\ Written(text, p, n) \in Text
         /\ n = Length[p] => StartsWith(Written(text, p, n), p)
         /\ text = <<>> => Written(text, p, n) = [i \in 1..n |-> p]
<1> DEFINE m == IF Len(text) > n THEN Len(text) ELSE n
<1>1. n \in 0..MaxLength /\ Length[p] \in 1..MaxLength /\ Len(text) \in 0..MaxLength /\ MaxLength \in Nat
  BY PostAssumption, TextIsSeq
<1>2. m \in 0..MaxLength /\ m >= n
  BY <1>1
<1>3. Written(text, p, n) = [i \in 1..m |-> IF i <= n THEN p ELSE text[i]]
  BY DEF Written
<1>4. \A i \in 1..m : (IF i <= n THEN p ELSE text[i]) \in Post
  BY <1>1, TextIsSeq
<1> HIDE DEF m
<1>5. Written(text, p, n) \in [1..m -> Post]
  BY <1>3, <1>4
<1>6. Written(text, p, n) \in Text
  BY <1>2, <1>5, SeqIsText
<1>7. Len(Written(text, p, n)) = m
  BY <1>2, <1>5, <1>1
<1>8. ASSUME n = Length[p] PROVE StartsWith(Written(text, p, n), p)
  BY <1>1, <1>2, <1>3, <1>7, <1>8 DEF StartsWith
<1>9. ASSUME text = <<>> PROVE Written(text, p, n) = [i \in 1..n |-> p]
  <2>1. m = n
    BY <1>1, <1>9 DEF m
  <2> QED
    BY <2>1, <1>3, <1>1
<1> QED
  BY <1>6, <1>8, <1>9

-----------------------------------------------------------------------------
(* The steps. *)

(* A step of the writer of p concerns the file of p's second only.         *)
LEMMA OneFile ==
  ASSUME FilesInv, NEW p \in Post, NEW t \in Second, NEW s, NEW text,
         state' = [state EXCEPT ![p] = s],
         second' = [second EXCEPT ![p] = t],
         file' = [file EXCEPT ![t] = text],
         second[p] = t \/ state[p] = "sent",
         s \notin {"none", "sent"},
         ArrivedIn(t)' = {p} =>
           /\ s = "write" => text = <<>>
           /\ s \in {"close", "written"} => text = [i \in 1..Length[p] |-> p],
         (\A q \in ArrivedIn(t)' : state'[q] \in {"close", "written"}) =>
           \E q \in ArrivedIn(t)' : StartsWith(text, q)
  PROVE  OwnFileInv' /\ SharedFileInv'
<1>1. /\ state'[p] = s /\ second'[p] = t /\ file'[t] = text
      /\ \A q \in Post \ {p} : state'[q] = state[q] /\ second'[q] = second[q]
      /\ \A u \in Second \ {t} : file'[u] = file[u]
      /\ \A q \in Post : second'[q] \in Second
  BY DEF FilesInv, TypeOK
<1>2. p \in ArrivedIn(t)'
  BY <1>1 DEF ArrivedIn
<1>3. ASSUME NEW u \in Second \ {t}
      PROVE  ArrivedIn(u)' = ArrivedIn(u) /\ p \notin ArrivedIn(u)
  BY <1>1, <1>3 DEF ArrivedIn
<1>4. ASSUME NEW q \in Post, ArrivedIn(second[q])' = {q}
      PROVE  /\ state'[q] = "write" => file'[second'[q]] = <<>>
             /\ state'[q] \in {"close", "written"} =>
                  file'[second'[q]] = [i \in 1..Length[q] |-> q]
  <2>1. CASE second'[q] = t
    <3>1. q = p
      BY <2>1, <1>4, <1>2
    <3> QED
      BY <3>1, <2>1, <1>4, <1>1, ZenonT(30)
  <2>2. CASE second'[q] # t
    <3>1. q # p /\ second'[q] = second[q] /\ second[q] \in Second \ {t} /\ state'[q] = state[q]
      BY <2>2, <1>1
    <3>2. ArrivedIn(second[q]) = {q} /\ file'[second'[q]] = file[second[q]]
      BY <3>1, <1>3, <1>4, <1>1
    <3> QED
      BY <3>1, <3>2 DEF FilesInv, OwnFileInv
  <2> QED
    BY <2>1, <2>2
<1>5. ASSUME NEW u \in Second, ArrivedIn(u)' # {},
             \A q \in ArrivedIn(u)' : state'[q] \in {"close", "written"}
      PROVE  \E q \in ArrivedIn(u)' : StartsWith(file'[u], q)
  <2>1. CASE u = t
    BY <2>1, <1>5, <1>1
  <2>2. CASE u # t
    <3>1. ArrivedIn(u)' = ArrivedIn(u) /\ file'[u] = file[u]
      BY <2>2, <1>1, <1>3
    <3>2. \A q \in ArrivedIn(u) : state[q] = state'[q]
      BY <2>2, <1>3, <1>1 DEF ArrivedIn
    <3> QED
      BY <3>1, <3>2, <1>5 DEF FilesInv, SharedFileInv
  <2> QED
    BY <2>1, <2>2
<1> QED
  BY <1>4, <1>5, ZenonT(30) DEF OwnFileInv, SharedFileInv, StartsWith

(* A step that changes no file, no second, and the state of a result at    *)
(* most before it arrives.                                                 *)
LEMMA NoFile ==
  ASSUME FilesInv, UNCHANGED <<second, file>>,
         \A q \in Post : state'[q] = state[q] \/ {state[q], state'[q]} \subseteq {"none", "sent"}
  PROVE  OwnFileInv' /\ SharedFileInv'
<1>1. \A t : ArrivedIn(t)' = ArrivedIn(t)
  BY DEF ArrivedIn
<1>2. \A t : \A q \in ArrivedIn(t) : state'[q] = state[q]
  BY DEF ArrivedIn
<1>3. ASSUME NEW q \in Post, ArrivedIn(second[q])' = {q}
      PROVE  /\ state'[q] = "write" => file'[second'[q]] = <<>>
             /\ state'[q] \in {"close", "written"} =>
                  file'[second'[q]] = [i \in 1..Length[q] |-> q]
  <2>1. ArrivedIn(second[q]) = {q}
    BY <1>1, <1>3
  <2>2. state'[q] = state[q]
    BY <2>1, <1>2
  <2> QED
    BY <2>1, <2>2 DEF FilesInv, OwnFileInv
<1>4. ASSUME NEW u \in Second, ArrivedIn(u)' # {},
             \A q \in ArrivedIn(u)' : state'[q] \in {"close", "written"}
      PROVE  \E q \in ArrivedIn(u)' : StartsWith(file'[u], q)
  BY <1>1, <1>2, <1>4 DEF FilesInv, SharedFileInv
<1> QED
  BY <1>3, <1>4 DEF OwnFileInv, SharedFileInv, StartsWith

(* At the start no result has been posted and every file is empty. *)
LEMMA FilesInit == Init => FilesInv
<1> SUFFICES ASSUME Init PROVE FilesInv
  OBVIOUS
<1>1. <<>> \in [1..0 -> Post] /\ 0 \in 0..MaxLength
  BY PostAssumption
<1>2. <<>> \in Text
  BY <1>1, SeqIsText, ZenonT(30)
<1>3. TypeOK
  BY <1>2, PostAssumption DEF Init, TypeOK, Second, Text
<1>4. \A t : ArrivedIn(t) = {}
  BY DEF Init, ArrivedIn
<1> QED
  BY <1>3, <1>4, PostAssumption DEF Init, FilesInv, OwnFileInv, SharedFileInv

(* The states of the page and the server, which no file depends on. *)
LEMMA OutsideSteps ==
  ASSUME FilesInv, Load \/ StartTest \/ TestFails \/ Listen \/ Timeout \/ Tick \/ UNCHANGED vars
  PROVE  FilesInv'
<1>1. UNCHANGED <<state, second, file>>
  BY DEF Load, StartTest, TestFails, Listen, Timeout, Tick, vars
<1>2. /\ now' \in Second
      /\ server' \in {"starting", "listening", "stopped"}
      /\ page' \in {"opening", "loaded", "refused", "testing", "completed", "failed", "closed"}
  BY PostAssumption, SMTT(30) DEF FilesInv, TypeOK, Second, Load, StartTest, TestFails, Listen, Timeout, Tick, vars
<1>3. TypeOK'
  BY <1>1, <1>2 DEF FilesInv, TypeOK
<1> QED
  BY <1>1, <1>3, NoFile DEF FilesInv

(* A result is sent. *)
LEMMA SendSteps ==
  ASSUME FilesInv, NEW p \in Post, TestCompletes(p) \/ Click(p)
  PROVE  FilesInv'
<1>1. /\ state[p] = "none" /\ state' = [state EXCEPT ![p] = "sent"]
      /\ page' \in {page, "completed"}
      /\ UNCHANGED <<now, server, second, file>>
  BY DEF TestCompletes, Click
<1>2. TypeOK'
  BY <1>1 DEF FilesInv, TypeOK
<1>3. \A q \in Post : state'[q] = state[q] \/ {state[q], state'[q]} \subseteq {"none", "sent"}
  BY <1>1 DEF FilesInv, TypeOK
<1> QED
  BY <1>1, <1>2, <1>3, NoFile DEF FilesInv

(* A result that arrives shares its second from then on. *)
LEMMA ReceiveStep ==
  ASSUME FilesInv, NEW p \in Post, Receive(p)
  PROVE  FilesInv'
<1>0. PICK t \in Second : t = now
  BY DEF FilesInv, TypeOK
<1>1. /\ file' = [file EXCEPT ![t] = file[t]]
      /\ state' = [state EXCEPT ![p] = "open"]
      /\ second' = [second EXCEPT ![p] = t]
      /\ state[p] = "sent"
  BY <1>0 DEF Receive, FilesInv, TypeOK
<1>2. state'[p] = "open" /\ p \in ArrivedIn(t)'
  BY <1>1 DEF ArrivedIn, FilesInv, TypeOK
<1>4. OwnFileInv' /\ SharedFileInv'
  <2>1. ~(\A q \in ArrivedIn(t)' : state'[q] \in {"close", "written"})
    BY <1>2
  <2>2. "open" \notin {"none", "sent"} /\ "open" # "write" /\ "open" \notin {"close", "written"}
    OBVIOUS
  <2> QED
    BY <1>1, <2>1, <2>2, OneFile, Zenon
<1>5. TypeOK'
  BY DEF FilesInv, TypeOK, Receive
<1> QED
  BY <1>4, <1>5 DEF FilesInv

(* What the steps of a writer have in common. *)
LEMMA WriterStep ==
  ASSUME FilesInv, NEW p \in Post, NEW t \in Second, NEW s, NEW text,
         second[p] = t, state[p] # "none",
         s \in {"write", "close", "written", "error"}, text \in Text,
         state' = [state EXCEPT ![p] = s],
         file' = [file EXCEPT ![t] = text],
         server' \in {"listening", "stopped"},
         UNCHANGED <<now, page, second>>,
         ArrivedIn(t)' = {p} =>
           /\ s = "write" => text = <<>>
           /\ s \in {"close", "written"} => text = [i \in 1..Length[p] |-> p],
         (\A q \in ArrivedIn(t)' : state'[q] \in {"close", "written"}) =>
           \E q \in ArrivedIn(t)' : StartsWith(text, q)
  PROVE  FilesInv'
<1>1. second' = [second EXCEPT ![p] = t]
  BY DEF FilesInv, TypeOK
<1>2. s \notin {"none", "sent"}
  OBVIOUS
<1>3. OwnFileInv' /\ SharedFileInv'
  BY <1>1, <1>2, OneFile, Zenon
<1>4. state' \in [Post -> {"none", "sent", "open", "write", "close", "written", "error"}]
  BY DEF FilesInv, TypeOK
<1>5. file' \in [Second -> Text]
  BY DEF FilesInv, TypeOK, Text
<1>6. TypeOK'
  BY <1>4, <1>5 DEF FilesInv, TypeOK, Text
<1> QED
  BY <1>3, <1>6 DEF FilesInv

(* The file of a result is that of the second it arrived in. *)
LEMMA OwnSecond ==
  ASSUME FilesInv, NEW p \in Post
  PROVE  second[p] \in Second /\ FileOf(second[p]) = second[p] /\ file[second[p]] \in Text
BY DEF FilesInv, TypeOK, FileOf, Text

(* A truncation concerns a file that is still to be written. *)
LEMMA OpenStep ==
  ASSUME FilesInv, NEW p \in Post, Open(p)
  PROVE  FilesInv'
<1>1. PICK t \in Second : second[p] = t
  BY OwnSecond
<1>2. /\ state' = [state EXCEPT ![p] = "write"] /\ file' = [file EXCEPT ![t] = <<>>]
      /\ UNCHANGED <<now, page, second>> /\ state[p] # "none" /\ server' \in {"listening", "stopped"}
  BY <1>1, OwnSecond, ZenonT(30) DEF Open, Step
<1>3. <<>> \in [1..0 -> Post] /\ 0 \in 0..MaxLength
  BY PostAssumption
<1>4. <<>> \in Text
  BY <1>3, SeqIsText, ZenonT(30)
<1>5. state'[p] = "write" /\ p \in ArrivedIn(t)'
  BY <1>1, <1>2 DEF ArrivedIn, FilesInv, TypeOK
<1>6. ~(\A q \in ArrivedIn(t)' : state'[q] \in {"close", "written"})
  BY <1>5
<1>7. "write" \in {"write", "close", "written", "error"} /\ "write" \notin {"close", "written"}
  OBVIOUS
<1> QED
  BY <1>1, <1>2, <1>4, <1>6, <1>7, WriterStep, Zenon

(* A write leaves the whole result at the start of the file. *)
LEMMA WriteStep ==
  ASSUME FilesInv, NEW p \in Post, Write(p)
  PROVE  FilesInv'
<1>1. PICK t \in Second : second[p] = t
  BY OwnSecond
<1> DEFINE text == Written(file[t], p, Length[p])
<1>2. /\ state' = [state EXCEPT ![p] = "close"] /\ file' = [file EXCEPT ![t] = text]
      /\ UNCHANGED <<now, page, second>> /\ state[p] = "write" /\ server' \in {"listening", "stopped"}
  BY <1>1, OwnSecond, ZenonT(30) DEF Write, Step, Contents
<1>3. Length[p] \in 0..Length[p]
  BY PostAssumption
<1>4. /\ text \in Text /\ StartsWith(text, p)
      /\ file[t] = <<>> => text = [i \in 1..Length[p] |-> p]
  BY <1>1, <1>3, OwnSecond, WrittenFacts
<1> HIDE DEF text
<1>5. p \in ArrivedIn(t)' /\ ArrivedIn(t)' = ArrivedIn(t)
  BY <1>1, <1>2 DEF ArrivedIn, FilesInv, TypeOK
<1>6. ArrivedIn(t)' = {p} => text = [i \in 1..Length[p] |-> p]
  BY <1>1, <1>2, <1>4, <1>5, ZenonT(30) DEF FilesInv, OwnFileInv
<1>7. \E q \in ArrivedIn(t)' : StartsWith(text, q)
  BY <1>4, <1>5
<1>8. "close" \in {"write", "close", "written", "error"} /\ "close" # "write" /\ "write" # "none"
  OBVIOUS
<1> QED
  BY <1>1, <1>2, <1>4, <1>6, <1>7, <1>8, WriterStep, Zenon

(* Closing leaves the files alone. *)
LEMMA CloseStep ==
  ASSUME FilesInv, NEW p \in Post, Close(p)
  PROVE  FilesInv'
<1>1. PICK t \in Second : second[p] = t
  BY OwnSecond
<1>2. /\ state' = [state EXCEPT ![p] = "written"] /\ file' = [file EXCEPT ![t] = file[t]]
      /\ UNCHANGED <<now, page, second>> /\ state[p] = "close" /\ server' \in {"listening", "stopped"}
  BY <1>1, OwnSecond, ZenonT(30) DEF Close, Step, Contents
<1>3. p \in ArrivedIn(t)' /\ ArrivedIn(t)' = ArrivedIn(t)
  BY <1>1, <1>2 DEF ArrivedIn, FilesInv, TypeOK
<1>4. ArrivedIn(t)' = {p} => file[t] = [i \in 1..Length[p] |-> p]
  BY <1>1, <1>2, <1>3, ZenonT(30) DEF FilesInv, OwnFileInv
<1>5. \A q \in Post : state'[q] \in {"close", "written"} => state[q] \in {"close", "written"}
  BY <1>2 DEF FilesInv, TypeOK
<1>6. (\A q \in ArrivedIn(t)' : state'[q] \in {"close", "written"}) =>
        \E q \in ArrivedIn(t)' : StartsWith(file[t], q)
  <2>1. ArrivedIn(t) \subseteq Post
    BY DEF ArrivedIn
  <2> QED
    BY <2>1, <1>3, <1>5 DEF FilesInv, SharedFileInv
<1>7. /\ "written" \in {"write", "close", "written", "error"} /\ "written" # "write"
      /\ "close" # "none" /\ file[t] \in Text
  BY <1>1, OwnSecond
<1> QED
  BY <1>1, <1>2, <1>4, <1>6, <1>7, WriterStep, Zenon

(* A writer that fails may leave a part of its result behind. *)
LEMMA FailStep ==
  ASSUME FilesInv, NEW p \in Post, Fail(p)
  PROVE  FilesInv'
<1>1. PICK t \in Second : second[p] = t
  BY OwnSecond
<1>2. PICK n \in 0..Length[p] : file' = [file EXCEPT ![t] = Written(file[t], p, n)]
  <2>1. PICK n \in IF state[p] = "write" THEN 0..(Length[p] - 1) ELSE {0} :
          file' = [file EXCEPT ![FileOf(second[p])] = Written(@, p, n)]
    BY ZenonT(30) DEF Fail
  <2>2. n \in 0..Length[p]
    BY <2>1, PostAssumption
  <2> QED
    BY <2>1, <2>2, <1>1, OwnSecond, ZenonT(30)
<1>3. /\ state' = [state EXCEPT ![p] = "error"]
      /\ UNCHANGED <<now, page, second>> /\ state[p] # "none" /\ server' \in {"listening", "stopped"}
  BY DEF Fail, AfterError
<1>4. Written(file[t], p, n) \in Text
  BY <1>1, OwnSecond, WrittenFacts
<1>5. state'[p] = "error" /\ p \in ArrivedIn(t)'
  BY <1>1, <1>3 DEF ArrivedIn, FilesInv, TypeOK
<1>6. ~(\A q \in ArrivedIn(t)' : state'[q] \in {"close", "written"})
  BY <1>5
<1>7. /\ "error" \in {"write", "close", "written", "error"}
      /\ "error" # "write" /\ "error" \notin {"close", "written"}
  OBVIOUS
<1> QED
  BY <1>1, <1>2, <1>3, <1>4, <1>6, <1>7, WriterStep, Zenon

-----------------------------------------------------------------------------
(* The theorems. *)

(* The inductive invariant holds in every state of the harness. *)
THEOREM FilesInvariant == Spec => []FilesInv
<1>1. Init => FilesInv
  BY FilesInit
<1>2. FilesInv /\ [Next]_vars => FilesInv'
  <2> SUFFICES ASSUME FilesInv, [Next]_vars PROVE FilesInv'
    OBVIOUS
  <2>1. CASE Load \/ StartTest \/ TestFails \/ Listen \/ Timeout \/ Tick \/ UNCHANGED vars
    BY <2>1, OutsideSteps
  <2>2. ASSUME NEW p \in Post, \/ TestCompletes(p) \/ Click(p) \/ Receive(p)
                                \/ Open(p) \/ Write(p) \/ Close(p) \/ Fail(p)
        PROVE  FilesInv'
    BY <2>2, SendSteps, ReceiveStep, OpenStep, WriteStep, CloseStep, FailStep
  <2> QED
    BY <2>1, <2>2 DEF Next
<1> QED
  BY <1>1, <1>2, PTL DEF Spec

(* Type correctness: in particular no file is longer than the longest      *)
(* result, whatever the interleaving of its writers (index.js:36).         *)
THEOREM TypeCorrect == Spec => []TypeOK
<1>1. FilesInv => TypeOK
  BY DEF FilesInv
<1> QED
  BY <1>1, FilesInvariant, PTL

(* A result alone in its second is in its file whole (index.js:36-39). *)
THEOREM OwnFilesWhole == Spec => []OwnFileWhole
<1>1. FilesInv => OwnFileWhole
  BY DEF FilesInv, OwnFileInv, OwnFileWhole
<1> QED
  BY <1>1, FilesInvariant, PTL

(* A file that several results of a second were written to starts with one *)
(* of them whole (index.js:36).                                            *)
THEOREM SharedFilesStartWhole == Spec => []SharedFileStartsWhole
<1>1. FilesInv => SharedFileStartsWhole
  BY DEF FilesInv, SharedFileInv, SharedFileStartsWhole, StartsWith
<1> QED
  BY <1>1, FilesInvariant, PTL

=============================================================================
