------------------------------- MODULE Options -------------------------------
(***************************************************************************)
(* parse_options and parse_options_split: the arguments one by one, then   *)
(* the checks behind the loop.  A number on the command line is a record   *)
(* of its value, or NaN when there is no number, and of whether there is   *)
(* anything behind it.  Main goes on when the options are parsed.          *)
(***************************************************************************)
EXTENDS SplitSpec

CONSTANTS
  Numbers,       \* the numbers the user may type
  NaN,           \* no number at all
  Codecs,        \* the keys of codecs_array
  Languages,     \* codec |-> the keys of its wordlists
  Default,       \* codec |-> its default_language
  Implemented,   \* the codecs with functions to encode and decode
  UserCodecs,    \* what the user may ask for: codecs ...
  UserLanguages  \* ... and languages

ASSUME CodecsAssumption ==
  /\ Languages \in [Codecs -> SUBSET UserLanguages] /\ "base16" \in Codecs
  /\ Implemented \subseteq Codecs
  /\ \A c \in Codecs : Default[c] \in Languages[c]
ASSUME NumbersAssumption == Numbers \subseteq Nat /\ NaN \notin Nat

VARIABLES
  mode,            \* "null", "recover" or "split"
  state,           \* what parse_options_split expects: "exp", "gt" or "xofy"
  e, GT, groups,   \* s->e, s->root.threshold, and s->members with root.count
  max_T,           \* the largest member threshold
  codec, wordlist, \* the codec and the key of its wordlist
  phase            \* "parsing", "parsed", "fatal" or "abort", and those of Main

split   == <<state, e, GT, groups, max_T>>
options == <<mode, split, codec, wordlist>>

(* Before the first argument. *)
NoOptions ==
  /\ mode = "null" /\ state = "exp"
  /\ e = -1 /\ GT = 0 /\ groups = <<>> /\ max_T = 0
  /\ codec = "base16" /\ wordlist = Default["base16"]

Argument == [value : Numbers \cup {NaN}, junk : BOOLEAN]
Fatal    == phase' = "fatal"

(* parse_number returns; otherwise it ends the program. *)
Parses(arg, min, max) == arg.value # NaN /\ arg.value \in min .. max

(* Mutant: the wordlist of an earlier -c stays. *)
Codec_KeepsWordlist(c) ==
  /\ IF c \in Codecs
       THEN codec' = c /\ UNCHANGED <<wordlist, phase>>
       ELSE Fatal /\ UNCHANGED <<codec, wordlist>>
  /\ UNCHANGED <<mode, split>>

(* -c CODEC or -c CODEC:WORDLIST, and -c as the last argument; what a FATAL *)
(* leaves in codec and wordlist no longer matters.  The options -d and -q   *)
(* change nothing that the rest of the program looks at.                    *)
Codec(c) ==
  /\ IF c \in Codecs
       THEN codec' = c /\ wordlist' = Default[c] /\ UNCHANGED phase
       ELSE Fatal /\ UNCHANGED <<codec, wordlist>>
  /\ UNCHANGED <<mode, split>>

CodecAndWordlist(c, w) ==
  /\ IF c \in Codecs /\ w \in Languages[c]
       THEN codec' = c /\ wordlist' = w /\ UNCHANGED phase
       ELSE Fatal /\ UNCHANGED <<codec, wordlist>>
  /\ UNCHANGED <<mode, split>>

CodecMissing == Fatal /\ UNCHANGED <<mode, split, codec, wordlist>>

(* The first other argument. *)
Mode(m) ==
  /\ mode = "null"
  /\ IF m \in {"recover", "split"} THEN mode' = m /\ UNCHANGED phase
                                   ELSE Fatal /\ UNCHANGED mode
  /\ UNCHANGED <<split, codec, wordlist>>

RecoverArgument ==
  /\ mode = "recover"
  /\ Fatal
  /\ UNCHANGED <<mode, split, codec, wordlist>>

Exponent(arg) ==
  /\ mode = "split" /\ state = "exp"
  /\ IF Parses(arg, 0, MaxExp) /\ ~arg.junk
       THEN e' = arg.value /\ state' = "gt" /\ UNCHANGED phase
       ELSE Fatal /\ UNCHANGED <<e, state>>
  /\ UNCHANGED <<mode, GT, groups, max_T, codec, wordlist>>

GroupThreshold(arg) ==
  /\ mode = "split" /\ state = "gt"
  /\ IF Parses(arg, 0, MaxShares) /\ ~arg.junk
       THEN GT' = arg.value /\ state' = "xofy" /\ UNCHANGED phase
       ELSE Fatal /\ UNCHANGED <<GT, state>>
  /\ UNCHANGED <<mode, e, groups, max_T, codec, wordlist>>

(* Mutant: more groups than there is room for. *)
RoomForGroup_Always == TRUE

RoomForGroup == Len(groups) # MaxShares

(* x "of" y *)
Group(x, of, y) ==
  /\ mode = "split" /\ state = "xofy"
  /\ IF RoomForGroup /\ Parses(x, 1, MaxShares) /\ of
        /\ Parses(y, x.value, MaxShares) /\ ~y.junk
       THEN /\ groups' = Append(groups, [T |-> x.value, N |-> y.value])
            /\ max_T' = IF x.value > max_T THEN x.value ELSE max_T
            /\ UNCHANGED phase
       ELSE Fatal /\ UNCHANGED <<groups, max_T>>
  /\ UNCHANGED <<mode, state, e, GT, codec, wordlist>>

(* Everything is there that the split mode needs. *)
Complete == state = "xofy" /\ Len(groups) >= GT

(* Behind the loop.  `split 0 0' is complete without a group, and fails     *)
(* the assert that there is a member threshold (slip0039.c:761).           *)
End ==
  /\ phase = "parsing"
  /\ \/ mode # "split" /\ mode' = "recover" /\ phase' = "parsed"
     \/ mode = "split" /\ ~Complete /\ Fatal /\ UNCHANGED mode
     \/ /\ mode = "split" /\ Complete
        /\ phase' = IF max_T > 0 THEN "parsed" ELSE "abort"
        /\ UNCHANGED mode
  /\ UNCHANGED <<split, codec, wordlist>>

Parse ==
  /\ phase = "parsing"
  /\ \/ \E c \in UserCodecs : Codec(c) \/ \E w \in UserLanguages : CodecAndWordlist(c, w)
     \/ CodecMissing
     \/ \E m \in {"recover", "split", "other"} : Mode(m)
     \/ RecoverArgument
     \/ \E arg \in Argument : Exponent(arg) \/ GroupThreshold(arg)
     \/ \E x, y \in Argument, of \in BOOLEAN : Group(x, of, y)
     \/ End
------------------------------------------------------------------------------
(* The split mode is only entered with a specification that it was made    *)
(* for (Split assumes it): no more groups and members than there is room   *)
(* for, enough groups for the group threshold, however the options are     *)
(* mixed with the arguments (slip0039.c:650-771).                          *)
HandsOnAccepted ==
  phase = "parsed" /\ mode = "split" =>
    Accepted([e |-> e, GT |-> GT, groups |-> groups])

(* The codec and the wordlist it works with belong together, after any     *)
(* number of -c options (slip0039.c:709-726).                              *)
WordlistFits == wordlist \in Languages[codec]
==============================================================================
