------------------------------ MODULE Capture -------------------------------
(***************************************************************************)
(* The element with tcpdump beside it, listening at the element's          *)
(* interface (README.md has the capture made at enp0s8), for the analysis  *)
(* tool to make a fingerprint of.                                          *)
(*                                                                         *)
(* The two do not see the same.  FromDevice hands the element every frame  *)
(* that arrives, ARP included, and no other.  tcpdump also prints the      *)
(* frames that leave by the interface, sent by the links of the other      *)
(* direction; and the tool skips what is ARP or has no length.  The        *)
(* element counts frames, tcpdump prints the length of the payload, a      *)
(* Header less.                                                            *)
(***************************************************************************)
EXTENDS Classifier

CONSTANTS
  Header,               \* units of headers in a frame
  Printed,              \* what the line of an arriving packet contains
  Outgoing,             \* the lines of the frames that leave by the interface
  MaxOutgoing           \* bound: such frames, per element

Text == SUBSET {"length", "ARP"}

ASSUME CaptureAssumption ==
  /\ Header \in Nat
  /\ \A p \in Traffic : p.size >= Header
  /\ Printed \in [Traffic -> Text]
  /\ Outgoing \subseteq [size: Nat, text: Text]
  /\ MaxOutgoing \in Nat

VARIABLE capture        \* what tcpdump has recorded, per element

allvars == <<vars, capture>>

Line(from, size, text) ==
  [time_elapsed |-> now, size |-> size, text |-> text, from |-> from]

(* tcpdump prints each packet that is pushed. *)
Record ==
  capture' =
    [c \in Instance |->
       capture[c] \o
         IF \E o \in output' : o.inst = c
         THEN LET o == CHOOSE o \in output' : TRUE
              IN <<Line("in", o.pkt.size - Header, Printed[o.pkt])>>
         ELSE <<>>]

(* ToDevice sends a frame by the element's interface. *)
Transmit(c, frame) ==
  /\ Cardinality({i \in DOMAIN capture[c] : capture[c][i].from = "out"}) < MaxOutgoing
  /\ capture' = [capture EXCEPT ![c] = @ \o <<Line("out", frame.size, frame.text)>>]
  /\ UNCHANGED vars

CaptureInit == Init /\ capture = [c \in Instance |-> <<>>]

CaptureNext ==
  \/ Next /\ Record
  \/ \E c \in Instance, frame \in Outgoing : Transmit(c, frame)

CaptureSpec == CaptureInit /\ [][CaptureNext]_allvars

(* The lines that parse_packets() keeps: HEADER_REGEX asks for a length,   *)
(* and ARP is skipped.                                                     *)
Kept(line) == "length" \in line.text /\ "ARP" \notin line.text

LinesIn(c, t) == {capture[c][i] : i \in {j \in DOMAIN capture[c] : capture[c][j].time_elapsed = t}}

(* The seconds that get a code in the tool's string. *)
KeptSeconds(c) == {t \in Time : \E line \in LinesIn(c, t) : Kept(line)}

(* The two strings can be laid over each other, second by second, and what *)
(* may stick out is known.  The element's string covers all that arrived   *)
(* since some second: the first burst, or else its last reset (the start,  *)
(* when there was none).  From there on, a second that only the tool has   *)
(* is one in which nothing arrived and frames left; a second that only the *)
(* element has is one of frames that arrived and that the tool skips.      *)
(* Neither the return path a packet takes through push() nor a reset ever  *)
(* makes the element miss a second.                                        *)
StringsAlign ==
  \A c \in Instance :
    \E first \in reset_time[c]..(now + 1) :
      LET coded == Seconds(current_behavior_map[c])
      IN /\ found_first_burst[c] => first <= reset_time[c] + 1
         /\ \A t \in coded : t >= first
         /\ \A t \in {u \in KeptSeconds(c) : u >= first} \ coded :
              \A line \in LinesIn(c, t) : line.from = "out"
         /\ \A t \in coded \ KeptSeconds(c) :
              \E line \in LinesIn(c, t) : line.from = "in" /\ ~Kept(line)

=============================================================================
