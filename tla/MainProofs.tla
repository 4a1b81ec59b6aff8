------------------------------ MODULE MainProofs ------------------------------
(***************************************************************************)
(* What the options hand on, and what is left in memory: for room for any  *)
(* number of shares, any codecs and languages, lines of any length and any *)
(* signals.                                                                *)
(***************************************************************************)
EXTENDS Main, TLAPS

Buffers == {"s", "mnemonic", "dl", "seed", "input_base16", "input", "bs", "header", "scratch",
            "prng"}

(* What the arguments so far say: each state of the parser has seen what   *)
(* comes before it, and the largest threshold belongs to a group.          *)
ArgumentsInv ==
  /\ mode \in {"null", "recover", "split"} /\ state \in {"exp", "gt", "xofy"}
  /\ state # "exp" => e \in 0 .. MaxExp
  /\ GT \in 0 .. MaxShares
  /\ groups \in Seq([T : 1 .. MaxShares, N : 1 .. MaxShares]) /\ Len(groups) <= MaxShares
  /\ \A g \in 1 .. Len(groups) : groups[g].T <= groups[g].N
  /\ max_T \in 0 .. MaxShares /\ (max_T > 0 => Len(groups) > 0)
  /\ phase = "parsed" /\ mode = "split" => Complete /\ max_T > 0

CodecInv == codec \in Codecs /\ wordlist \in Languages[codec]

(* Only while the program ends were there more characters than it keeps.   *)
LineInv == typed = length \/ phase \in {"fatal", "wiping", "gone"}

(* Memory is wiped only on the way out, and what is wiped stays clean.     *)
MemoryInv ==
  /\ dirty \subseteq Buffers /\ step \in 0 .. Len(Wipes) + 1
  /\ step > 0 => /\ phase \in {"wiping", "fatal", "gone"}
                 /\ \A k \in 1 .. step - 1 : Wipes[k] \notin dirty
  /\ phase = "wiping" => step \in 1 .. Len(Wipes)
  /\ phase = "starting" \/ (phase = "gone" /\ step = 0) => dirty = {}

MainInv == ArgumentsInv /\ CodecInv /\ LineInv /\ MemoryInv
------------------------------------------------------------------------------
LEMMA WipesFacts ==
  /\ Len(Wipes) = 12 /\ Wipes[1] = "debug"
  /\ \A k \in 2 .. Len(Wipes) : Wipes[k] \in Buffers \cup {"seed_len"}
  /\ \A b \in Buffers : \E k \in 2 .. Len(Wipes) : Wipes[k] = b
  /\ "debug" \notin Buffers /\ "seed_len" \notin Buffers
<1>1. Len(Wipes) = 12 /\ Wipes[1] = "debug" /\ "debug" \notin Buffers /\ "seed_len" \notin Buffers
  BY DEF Wipes, Buffers
<1>2. \A k \in 2 .. 12 : Wipes[k] \in Buffers \cup {"seed_len"}
  BY DEF Wipes, Buffers
<1>3. \A b \in Buffers : \E k \in 2 .. 12 : Wipes[k] = b
  <2>1. /\ Wipes[2] = "s" /\ Wipes[3] = "mnemonic" /\ Wipes[4] = "dl"
        /\ Wipes[6] = "input_base16" /\ Wipes[7] = "input" /\ Wipes[8] = "bs"
        /\ Wipes[9] = "header" /\ Wipes[10] = "scratch" /\ Wipes[11] = "prng"
        /\ Wipes[12] = "seed"
    BY DEF Wipes
  <2> QED BY <2>1 DEF Buffers
<1> QED BY <1>1, <1>2, <1>3

LEMMA InitMain == Init => MainInv
<1> SUFFICES ASSUME Init PROVE MainInv
  OBVIOUS
<1> USE DEF Init, NoOptions
<1>1. ArgumentsInv
  BY SharesAssumption DEF ArgumentsInv
<1>2. CodecInv
  BY CodecsAssumption DEF CodecInv
<1>3. LineInv /\ MemoryInv
  BY WipesFacts DEF LineInv, MemoryInv
<1> QED BY <1>1, <1>2, <1>3 DEF MainInv

(* Nothing but the parser, and Begin, touches what the arguments say. *)
LEMMA OptionsKept ==
  ASSUME ArgumentsInv, CodecInv, UNCHANGED options, phase' # "parsed" \/ phase' = phase
  PROVE  ArgumentsInv' /\ CodecInv'
BY DEF ArgumentsInv, CodecInv, options, split, Complete

LEMMA ParseKeepsArguments ==
  ASSUME ArgumentsInv, Parse
  PROVE  ArgumentsInv'
<1> DEFINE Group1 == [T : 1 .. MaxShares, N : 1 .. MaxShares]
<1>0. phase = "parsing"
  BY DEF Parse
<1>1. CASE UNCHANGED <<mode, split>> /\ phase' # "parsed"
  BY <1>1 DEF ArgumentsInv, split
<1>2. ASSUME NEW c, Codec(c) \/ \E w \in UserLanguages : CodecAndWordlist(c, w)
      PROVE  ArgumentsInv'
  BY <1>0, <1>1, <1>2 DEF Codec, CodecAndWordlist, Fatal
<1>3. CASE CodecMissing \/ RecoverArgument
  BY <1>1, <1>3 DEF CodecMissing, RecoverArgument, Fatal
<1>4. ASSUME NEW m, Mode(m)
      PROVE  ArgumentsInv'
  BY <1>0, <1>4 DEF Mode, Fatal, ArgumentsInv, split
<1>5. ASSUME NEW arg \in Argument, Exponent(arg) \/ GroupThreshold(arg)
      PROVE  ArgumentsInv'
  BY <1>0, <1>5, SharesAssumption
     DEF Exponent, GroupThreshold, Parses, Fatal, ArgumentsInv, MaxExp
<1>6. ASSUME NEW x \in Argument, NEW y \in Argument, NEW of \in BOOLEAN, Group(x, of, y)
      PROVE  ArgumentsInv'
  <2>1. /\ phase' # "parsed" /\ UNCHANGED <<mode, state, e, GT>>
    BY <1>0, <1>6 DEF Group, Fatal
  <2>2. CASE UNCHANGED <<groups, max_T>>
    BY <2>1, <2>2 DEF ArgumentsInv
  <2>3. CASE /\ Len(groups) # MaxShares
             /\ x.value \in 1 .. MaxShares /\ y.value \in x.value .. MaxShares
             /\ groups' = Append(groups, [T |-> x.value, N |-> y.value])
             /\ max_T' \in {x.value, max_T}
    <3> DEFINE r == [T |-> x.value, N |-> y.value]
    <3>1. r \in Group1 /\ r.T <= r.N
      BY <2>3, SharesAssumption
    <3>2. groups \in Seq(Group1) /\ Len(groups) <= MaxShares
      BY DEF ArgumentsInv
    <3>3. /\ groups' \in Seq(Group1) /\ Len(groups') = Len(groups) + 1
          /\ \A g \in 1 .. Len(groups) : groups'[g] = groups[g]
          /\ groups'[Len(groups) + 1] = r
      BY <2>3, <3>1, <3>2
    <3>4. Len(groups') <= MaxShares /\ Len(groups') > 0 /\ Len(groups) \in Nat
      BY <2>3, <3>2, <3>3, SharesAssumption
    <3>5. \A g \in 1 .. Len(groups') : groups'[g].T <= groups'[g].N
      <4> TAKE g \in 1 .. Len(groups')
      <4>1. g \in 1 .. Len(groups) \/ g = Len(groups) + 1
        BY <3>3, <3>4
      <4> QED BY <4>1, <3>1, <3>3 DEF ArgumentsInv
    <3>6. max_T' \in 0 .. MaxShares
      BY <2>3, SharesAssumption DEF ArgumentsInv
    <3> QED BY <2>1, <3>3, <3>4, <3>5, <3>6 DEF ArgumentsInv
  <2> QED BY <1>6, <2>2, <2>3 DEF Group, Parses, RoomForGroup
<1>7. CASE End
  <2>1. UNCHANGED <<state, e, GT, groups, max_T>>
    BY <1>7 DEF End, split
  <2>2. mode' \in {"null", "recover", "split"}
    BY <1>7 DEF End, ArgumentsInv
  <2>3. phase' = "parsed" /\ mode' = "split" => Complete' /\ max_T' > 0
    BY <1>7, <2>1 DEF End, Complete, Fatal
  <2> QED BY <2>1, <2>2, <2>3 DEF ArgumentsInv
<1> QED BY <1>2, <1>3, <1>4, <1>5, <1>6, <1>7 DEF Parse

LEMMA ParseKeepsCodec ==
  ASSUME CodecInv, Parse
  PROVE  CodecInv'
BY CodecsAssumption DEF CodecInv, Parse, Codec, CodecAndWordlist, CodecMissing, Mode,
   RecoverArgument, Exponent, GroupThreshold, Group, End
------------------------------------------------------------------------------
(* What leaves the line and the memory as they are, or goes on from the    *)
(* reading of a line, in a phase in which nothing is wiped yet.            *)
LEMMA MemoryKept ==
  ASSUME MemoryInv, LineInv, phase \notin {"wiping", "fatal", "gone"},
         phase' \notin {"starting", "wiping", "gone"}, UNCHANGED step,
         dirty' \subseteq Buffers,
         typed' = length' \/ phase' = "fatal"
  PROVE  MemoryInv' /\ LineInv'
BY WipesFacts DEF MemoryInv, LineInv

LEMMA DoesKeeps ==
  ASSUME MainInv, NEW from, NEW next, NEW buffers, Does(from, next, buffers),
         from \notin {"starting", "wiping", "fatal", "gone"},
         next \cap {"starting", "wiping", "gone", "parsed"} = {}, buffers \subseteq Buffers
  PROVE  MainInv'
<1>1. /\ phase = from /\ phase' \in next /\ dirty' = dirty \cup buffers
      /\ typed' = length' /\ UNCHANGED options /\ UNCHANGED step
  BY DEF Does
<1>2. ArgumentsInv' /\ CodecInv'
  BY <1>1, OptionsKept DEF MainInv
<1>3. dirty' \subseteq Buffers
  BY <1>1 DEF MainInv, MemoryInv
<1>4. MemoryInv' /\ LineInv'
  BY <1>1, <1>3, MemoryKept DEF MainInv
<1> QED BY <1>2, <1>4 DEF MainInv

LEMMA WipeKeeps ==
  ASSUME MemoryInv, Wipe
  PROVE  MemoryInv'
<1>1. /\ phase = "wiping" /\ step \in 1 .. Len(Wipes) /\ step' = step + 1
      /\ phase' = IF step = Len(Wipes) THEN "gone" ELSE "wiping"
      /\ dirty \subseteq Buffers /\ \A k \in 1 .. step - 1 : Wipes[k] \notin dirty
  BY WipesFacts DEF Wipe, MemoryInv
<1>2. dirty' \subseteq Buffers /\ Wipes[step] \notin dirty'
      /\ \A k \in 1 .. step - 1 : Wipes[k] \notin dirty'
  <2>1. CASE step = 1
    <3>1. dirty' \in {dirty, dirty \cup {"dl"}}
      BY <2>1, WipesFacts DEF Wipe
    <3>2. "dl" \in Buffers
      BY DEF Buffers
    <3> QED BY <1>1, <2>1, <3>1, <3>2, WipesFacts
  <2>2. CASE step # 1
    <3>1. Wipes[step] # "debug" /\ (Wipes[step] \in Buffers \/ Wipes[step] = "seed_len")
      BY <1>1, <2>2, WipesFacts
    <3>2. CASE Wipes[step] = "seed_len"
      <4>1. dirty' \in {dirty, dirty \ {"seed"}}
        BY <3>2 DEF Wipe
      <4>2. dirty' \subseteq dirty
        BY <4>1
      <4> QED BY <1>1, <3>2, <4>2, WipesFacts
    <3>3. CASE Wipes[step] # "seed_len"
      <4>1. dirty' = dirty \ {Wipes[step]}
        BY <3>1, <3>3 DEF Wipe
      <4> QED BY <1>1, <4>1
    <3> QED BY <3>2, <3>3
  <2> QED BY <2>1, <2>2
<1>3. \A k \in 1 .. step' - 1 : Wipes[k] \notin dirty'
  BY <1>1, <1>2, WipesFacts
<1> QED BY <1>1, <1>2, <1>3, WipesFacts DEF MemoryInv

LEMMA StepMain ==
  ASSUME MainInv, Next
  PROVE  MainInv'
<1> USE DEF MainInv
<1>1. CASE Start
  <2>1. ArgumentsInv' /\ CodecInv'
    BY <1>1, OptionsKept DEF Start
  <2>2. MemoryInv' /\ LineInv'
    BY <1>1, WipesFacts DEF Start, MemoryInv, LineInv, line
  <2> QED BY <2>1, <2>2
<1>2. CASE ParseOptions
  <2>1. ArgumentsInv' /\ CodecInv'
    BY <1>2, ParseKeepsArguments, ParseKeepsCodec DEF ParseOptions
  <2>2. phase = "parsing" /\ phase' \in {"parsing", "parsed", "fatal", "abort"}
    BY <1>2 DEF ParseOptions, Parse, Codec, CodecAndWordlist, CodecMissing, Mode, Fatal,
       RecoverArgument, Exponent, GroupThreshold, Group, End
  <2>3. UNCHANGED <<typed, length, dirty, step>>
    BY <1>2 DEF ParseOptions, line
  <2>4. MemoryInv' /\ LineInv'
    BY <2>2, <2>3, MemoryKept DEF MemoryInv, LineInv
  <2> QED BY <2>1, <2>4
<1>3. CASE Begin
  <2>1. ArgumentsInv'
    BY <1>3, SharesAssumption DEF Begin, ArgumentsInv
  <2>2. CodecInv'
    BY <1>3, CodecsAssumption DEF Begin, CodecInv
  <2>3. MemoryInv' /\ LineInv'
    BY <1>3, MemoryKept DEF Begin, MemoryInv, LineInv, line
  <2> QED BY <2>1, <2>2, <2>3
<1>4. CASE Close \/ UNCHANGED vars
  <2>1. UNCHANGED <<options, phase, typed, length, dirty, step>>
    BY <1>4 DEF Close, vars, line
  <2>2. ArgumentsInv' /\ CodecInv'
    BY <2>1, OptionsKept
  <2> QED BY <2>1, <2>2 DEF MemoryInv, LineInv
<1>5. CASE Passphrase
  <2>1. /\ phase = "passphrase" /\ phase' \in {"passphrase", "seed", "mnemonics", "fatal"}
        /\ dirty' \in {dirty, dirty \cup {"s"}}
        /\ UNCHANGED <<options, typed, length, step>>
    BY <1>5 DEF Passphrase, line
  <2>2. ArgumentsInv' /\ CodecInv'
    BY <2>1, OptionsKept
  <2>3. dirty' \subseteq Buffers
    BY <2>1 DEF MemoryInv, Buffers
  <2>4. MemoryInv' /\ LineInv'
    BY <2>1, <2>3, MemoryKept DEF LineInv
  <2> QED BY <2>2, <2>4
<1>6. CASE ReadLine
  <2>1. PICK c \in Fgetc :
          LET full   == length = Buffer.size - 1
              more   == c \in Characters \ {"newline"}
              stored == more /\ ~full
          IN  /\ phase' = CASE c = EOF       -> AtEOF
                            [] c = "error"   -> "fatal"
                            [] c = "newline" -> Returned
                            [] stored        -> phase
                            [] OTHER         -> WhenFull
              /\ typed'  = IF more THEN typed + 1 ELSE typed
              /\ length' = IF stored THEN length + 1 ELSE length
              /\ dirty'  = IF stored THEN dirty \cup {Buffer.name} ELSE dirty
    BY <1>6 DEF ReadLine
  <2>2. /\ phase \in {"seed", "plaintext", "mnemonics"} /\ UNCHANGED <<options, step>>
    BY <1>6 DEF ReadLine
  <2>3. phase' \in {phase, "id", "encode", "quorum", "mnemonic", "fatal"}
    BY <2>1, <2>2 DEF AtEOF, Returned, WhenFull
  <2>4. ArgumentsInv' /\ CodecInv'
    BY <2>2, <2>3, OptionsKept
  <2>5. Buffer.name \in Buffers
    BY <2>2 DEF Buffer, Buffers
  <2>6. dirty' \subseteq Buffers
    BY <2>1, <2>5 DEF MemoryInv
  <2>7. typed' = length' \/ phase' = "fatal"
    <3>1. "error" \notin Characters /\ EOF \notin Characters
      BY InputAssumption DEF EOF
    <3> QED BY <2>1, <2>2, <3>1 DEF LineInv, WhenFull
  <2>8. MemoryInv' /\ LineInv'
    BY <2>2, <2>3, <2>6, <2>7, MemoryKept
  <2> QED BY <2>4, <2>8
<1>7. CASE TakeSeed \/ AddMnemonic \/ RecoverSecret \/ Rest
  <2>1. {"s"} \subseteq Buffers /\ {"s", "input", "dl", "header"} \subseteq Buffers
    BY DEF Buffers
  <2> QED BY <1>7, <2>1, DoesKeeps DEF TakeSeed, AddMnemonic, RecoverSecret, Rest
<1>8. CASE Decode \/ Encode \/ SplitSecret
  <2>1. /\ {"s", "input", "dl", "scratch"} \subseteq Buffers
        /\ {"s", "prng", "header", "input", "scratch", "mnemonic"} \subseteq Buffers
    BY DEF Buffers
  <2> QED BY <1>8, <2>1, DoesKeeps DEF Decode, Encode, SplitSecret
<1>9. CASE Exit
  <2>1. UNCHANGED <<options, dirty, typed, length>> /\ phase \in {"fatal", "returned"}
        /\ phase' \in {"wiping", "gone"}
    BY <1>9 DEF Exit, line
  <2>2. ArgumentsInv' /\ CodecInv'
    BY <2>1, OptionsKept
  <2>3. MemoryInv' /\ LineInv'
    BY <1>9, <2>1, WipesFacts DEF Exit, MemoryInv, LineInv
  <2> QED BY <2>2, <2>3
<1>10. CASE Abort \/ \E sig \in Signals : Signal(sig)
  <2>1. UNCHANGED <<options, dirty, typed, length, step>> /\ phase' = "fatal"
        /\ phase \notin {"starting", "gone"}
    BY <1>10 DEF Abort, Signal, line
  <2>2. ArgumentsInv' /\ CodecInv'
    BY <2>1, OptionsKept
  <2>3. MemoryInv' /\ LineInv'
    BY <2>1 DEF MemoryInv, LineInv
  <2> QED BY <2>2, <2>3
<1>11. CASE Wipe
  <2>1. UNCHANGED <<options, typed, length>> /\ phase = "wiping" /\ phase' \in {"wiping", "gone"}
    BY <1>11 DEF Wipe, line
  <2>2. ArgumentsInv' /\ CodecInv'
    BY <2>1, OptionsKept
  <2>3. LineInv'
    BY <2>1 DEF LineInv
  <2> QED BY <1>11, <2>2, <2>3, WipeKeeps
<1> QED BY <1>1, <1>2, <1>3, <1>4, <1>5, <1>6, <1>7, <1>8, <1>9, <1>10, <1>11
       DEF Next, Steps, Reads

LEMMA StutterMain ==
  ASSUME MainInv, UNCHANGED vars
  PROVE  MainInv'
<1>1. UNCHANGED <<options, phase, typed, length, dirty, step>>
  BY DEF vars, line
<1>2. ArgumentsInv' /\ CodecInv'
  BY <1>1, OptionsKept DEF MainInv
<1> QED BY <1>1, <1>2 DEF MainInv, MemoryInv, LineInv

(* The inductive invariant of the process. *)
THEOREM MainInvariant == Spec => []MainInv
<1>1. MainInv /\ [Next]_vars => MainInv'
  BY StepMain, StutterMain
<1> QED BY <1>1, InitMain, PTL DEF Spec
------------------------------------------------------------------------------
(* Whatever is on the command line, the split mode is only entered with a  *)
(* specification that it was made for (slip0039.c:650-771), for any        *)
(* MAX_SHARES.                                                             *)
THEOREM AcceptedIsHandedOn == Spec => []HandsOnAccepted
<1>1. MainInv => HandsOnAccepted
  <2> SUFFICES ASSUME MainInv, phase = "parsed", mode = "split"
               PROVE  Accepted([e |-> e, GT |-> GT, groups |-> groups])
    BY DEF HandsOnAccepted
  <2>1. /\ e \in 0 .. MaxExp /\ GT \in 0 .. MaxShares /\ GT <= Len(groups)
        /\ Len(groups) <= MaxShares /\ Len(groups) > 0
        /\ groups \in Seq([T : 1 .. MaxShares, N : 1 .. MaxShares])
        /\ \A g \in 1 .. Len(groups) : groups[g].T <= groups[g].N
    BY DEF MainInv, ArgumentsInv, Complete
  <2>2. Len(groups) \in 1 .. MaxShares
    BY <2>1, SharesAssumption
  <2>3. \A g \in 1 .. Len(groups) :
          groups[g].T \in 1 .. MaxShares /\ groups[g].N \in groups[g].T .. MaxShares
    <3> TAKE g \in 1 .. Len(groups)
    <3>1. groups[g] \in [T : 1 .. MaxShares, N : 1 .. MaxShares]
      <4> DEFINE S == [T : 1 .. MaxShares, N : 1 .. MaxShares]
      <4>1. groups \in Seq(S)
        BY <2>1
      <4> HIDE DEF S
      <4>2. groups[g] \in S
        BY <4>1
      <4> QED BY <4>2 DEF S
    <3> QED BY <2>1, <3>1, SharesAssumption
  <2> QED BY <2>1, <2>2, <2>3 DEF Accepted
<1> QED BY <1>1, MainInvariant, PTL

(* The wordlist is one of the codec's, after any number of -c options.     *)
THEOREM WordlistIsTheCodecs == Spec => []WordlistFits
<1>1. MainInv => WordlistFits
  BY DEF MainInv, CodecInv, WordlistFits
<1> QED BY <1>1, MainInvariant, PTL

(* No line is used cut off, whatever the sizes of the buffers.             *)
THEOREM LinesAreIntact == Spec => []LinesIntact
<1>1. MainInv => LinesIntact
  BY DEF MainInv, LineInv, LinesIntact
<1> QED BY <1>1, MainInvariant, PTL

(* Nothing sensitive is left when the program has ended and no signal came *)
(* during the wiping (slip0039.c:175-211), for any number of signals.      *)
THEOREM ExitIsClean == Spec => []CleanExit
<1>1. MainInv => CleanExit
  <2> SUFFICES ASSUME MainInv, phase = "gone", step \in {0, Len(Wipes) + 1} PROVE dirty = {}
    BY DEF CleanExit
  <2>1. MemoryInv
    BY DEF MainInv
  <2>2. CASE step = 0
    BY <2>1, <2>2 DEF MemoryInv
  <2>3. CASE step = Len(Wipes) + 1
    <3>1. dirty \subseteq Buffers /\ \A k \in 1 .. Len(Wipes) : Wipes[k] \notin dirty
      BY <2>1, <2>3, WipesFacts DEF MemoryInv
    <3> QED BY <3>1, WipesFacts
  <2> QED BY <2>2, <2>3
<1> QED BY <1>1, MainInvariant, PTL
==============================================================================
