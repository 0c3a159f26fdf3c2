---------------------------- MODULE ResultsServer ---------------------------
(***************************************************************************)
(* The SpeedOf.Me harness: scripts/open_speedofme.sh starts a server       *)
(* (speedofme/index.js) in the background, then a browser on its page      *)
(* (speedofme/index.html), each under "timeout 60".  The page runs a test  *)
(* and posts its result; one button runs the test again, another posts a   *)
(* made-up result; the server writes what it is sent to a file named after *)
(* the current second.                                                     *)
(*                                                                         *)
(* The body of a result is as many marks as it is long, so that a file     *)
(* shows which result each part of it comes from.  fs.writeFile is opening *)
(* with truncation, writing from the start of the file, and closing, each  *)
(* done by a thread of its own while the server goes on.                   *)
(***************************************************************************)
EXTENDS Integers, Sequences

CONSTANTS
  Post,             \* the results that may be posted
  Tests,            \* the ones that speed tests post; the others are made up
  Length,           \* how long the body of each is
  MaxLength,        \* no body is longer
  TimeLimit         \* timeout 60

ASSUME PostAssumption ==
  /\ Tests \subseteq Post
  /\ MaxLength \in Nat
  /\ Length \in [Post -> 1..MaxLength]
  /\ TimeLimit \in Nat \ {0}

VARIABLES
  now,              \* seconds since the script started
  server,
  page,
  state,            \* what has become of each post
  second,           \* currentDate when it arrived
  file              \* what the file of each second holds

vars == <<now, server, page, state, second, file>>

Second == 0..TimeLimit

(* Mutant of FileOf: the name has no seconds. *)
FileOfMinute(t) == t \div 2

(* "results_" + currentDate + ".txt" *)
FileOf(t) == t

(* Mutants of Written: it appends; the rest of a short write is forgotten. *)
WrittenAtEnd(text, p, n) == text \o [i \in 1..n |-> p]
WrittenShort(text, p, n) ==
  [i \in 1..(IF Len(text) >= n THEN Len(text) ELSE n - 1) |-> IF i < n THEN p ELSE text[i]]

(* The file after n marks of p are written from its start. *)
Written(text, p, n) ==
  [i \in 1..(IF Len(text) > n THEN Len(text) ELSE n) |-> IF i <= n THEN p ELSE text[i]]

-----------------------------------------------------------------------------
(* The page. *)

Load ==
  /\ page = "opening"
  /\ page' = IF server = "listening" THEN "loaded" ELSE "refused"
  /\ UNCHANGED <<now, server, state, second, file>>

(* btnStartClick, after its delay or by the button, which stays on the     *)
(* page after a test.                                                      *)
StartTest ==
  /\ page \in {"loaded", "completed", "failed"}
  /\ page' = "testing"
  /\ UNCHANGED <<now, server, state, second, file>>

(* onTestCompleted *)
TestCompletes(p) ==
  /\ page = "testing"
  /\ p \in Tests
  /\ state[p] = "none"
  /\ page' = "completed"
  /\ state' = [state EXCEPT ![p] = "sent"]
  /\ UNCHANGED <<now, server, second, file>>

(* onError *)
TestFails ==
  /\ page = "testing"
  /\ page' = "failed"
  /\ UNCHANGED <<now, server, state, second, file>>

(* sendMockInfoClick *)
Click(p) ==
  /\ page \in {"loaded", "testing", "completed", "failed"}
  /\ p \notin Tests
  /\ state[p] = "none"
  /\ state' = [state EXCEPT ![p] = "sent"]
  /\ UNCHANGED <<now, server, page, second, file>>

-----------------------------------------------------------------------------
(* The server. *)

Listen ==
  /\ server = "starting"
  /\ server' = "listening"
  /\ UNCHANGED <<now, page, state, second, file>>

(* The handler of /results: fs.writeFile is started and the post answered. *)
Receive(p) ==
  /\ server = "listening"
  /\ state[p] = "sent"
  /\ state' = [state EXCEPT ![p] = "open"]
  /\ second' = [second EXCEPT ![p] = now]
  /\ UNCHANGED <<now, server, page, file>>

Step(p, from, to, text) ==
  /\ server = "listening"
  /\ state[p] = from
  /\ state' = [state EXCEPT ![p] = to]
  /\ file' = [file EXCEPT ![FileOf(second[p])] = text]
  /\ UNCHANGED <<now, server, page, second>>

Contents(p) == file[FileOf(second[p])]

Open(p) == Step(p, "open", "write", <<>>)
Write(p) == Step(p, "write", "close", Written(Contents(p), p, Length[p]))
Close(p) == Step(p, "close", "written", Contents(p))

(* Mutant of AfterError: the error is ignored. *)
AfterErrorIgnored == server

(* "if (err) throw err" *)
AfterError == "stopped"

(* A step fails; a write may have written part of the body. *)
Fail(p) ==
  /\ server = "listening"
  /\ state[p] \in {"open", "write", "close"}
  /\ server' = AfterError
  /\ state' = [state EXCEPT ![p] = "error"]
  /\ \E n \in IF state[p] = "write" THEN 0..(Length[p] - 1) ELSE {0} :
       file' = [file EXCEPT ![FileOf(second[p])] = Written(@, p, n)]
  /\ UNCHANGED <<now, page, second>>

(* timeout ends the server, which was started first, then the browser. *)
Timeout ==
  /\ now = TimeLimit
  /\ \/ /\ server # "stopped"
        /\ server' = "stopped"
        /\ UNCHANGED page
     \/ /\ server = "stopped"
        /\ page # "closed"
        /\ page' = "closed"
        /\ UNCHANGED server
  /\ UNCHANGED <<now, state, second, file>>

Tick ==
  /\ now < TimeLimit
  /\ now' = now + 1
  /\ UNCHANGED <<server, page, state, second, file>>

Init ==
  /\ now = 0
  /\ server = "starting"
  /\ page = "opening"
  /\ state = [p \in Post |-> "none"]
  /\ second = [p \in Post |-> 0]
  /\ file = [t \in Second |-> <<>>]

Next ==
  \/ Load \/ StartTest \/ TestFails \/ Listen \/ Timeout \/ Tick
  \/ \E p \in Post :
       \/ TestCompletes(p) \/ Click(p)
       \/ Receive(p) \/ Open(p) \/ Write(p) \/ Close(p) \/ Fail(p)

(* The server and its threads run; nothing is assumed of the test. *)
Spec ==
  /\ Init /\ [][Next]_vars
  /\ \A p \in Post : WF_vars(Receive(p)) /\ WF_vars(Open(p) \/ Write(p) \/ Close(p))

-----------------------------------------------------------------------------
(* Properties. *)

(* Type correctness of the harness; a file is no longer than a result,     *)
(* since fs.writeFile always writes from the start.                        *)
TypeOK ==
  /\ now \in Second
  /\ server \in {"starting", "listening", "stopped"}
  /\ page \in {"opening", "loaded", "refused", "testing", "completed", "failed", "closed"}
  /\ state \in [Post -> {"none", "sent", "open", "write", "close", "written", "error"}]
  /\ second \in [Post -> Second]
  /\ file \in [Second -> UNION {[1..n -> Post] : n \in 0..MaxLength}]

(* The posts that arrived in second t. *)
ArrivedIn(t) == {p \in Post : second[p] = t /\ state[p] \notin {"none", "sent"}}

(* A result that was alone in its second is, once "file written" is        *)
(* logged, in its file whole and without a mark of another, and stays so   *)
(* whatever is posted, fails or is stopped later (index.js:36-39).         *)
OwnFileWhole ==
  \A p \in Post :
    state[p] = "written" /\ ArrivedIn(second[p]) = {p} =>
      file[second[p]] = [i \in 1..Length[p] |-> p]

(* Results of the same second share a file, and the steps of their writers *)
(* interleave (index.js:36): a longer one may stick out behind a shorter   *)
(* one, but when all have been written the file starts with one of them    *)
(* whole.  None of the truncations comes after the last write.             *)
SharedFileStartsWhole ==
  \A t \in Second :
    ArrivedIn(t) # {} /\ (\A p \in ArrivedIn(t) : state[p] = "written") =>
      \E p \in ArrivedIn(t) :
        Len(file[t]) >= Length[p] /\ \A i \in 1..Length[p] : file[t][i] = p

(* Every result that is posted is written, unless the server stops: the    *)
(* answer 200 is sent before the file is opened, and only the thrown error *)
(* or the time limit may lose a result that was answered (index.js:37-40). *)
PostedIsWritten ==
  \A p \in Post : state[p] = "sent" ~> state[p] = "written" \/ server = "stopped"

=============================================================================
