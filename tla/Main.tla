--------------------------------- MODULE Main ---------------------------------
(***************************************************************************)
(* The life of the process (main, boring_stuff, sig_handler and wipe of    *)
(* slip0039.c) and its input: the options, then the passphrase, the seed   *)
(* and the master secret, or the mnemonics, character by character, while  *)
(* a signal may arrive at any point.  What recovering and splitting do is  *)
(* in Recover and Split: here they end well or not.                        *)
(***************************************************************************)
EXTENDS Options

CONSTANTS
  Characters,  \* "text", "newline", "unprintable"
  Signals,     \* of those that are caught; "abrt" is another
  SeedSize,    \* sizeof(seed)
  LineSize     \* LINE

ASSUME InputAssumption ==
  /\ Characters \subseteq {"text", "newline", "unprintable"} /\ "abrt" \notin Signals
  /\ {SeedSize, LineSize} \subseteq Nat \ {0}

VARIABLES
  closed,   \* the end of the file was reached on stdin
  typed,    \* how many characters there were on this line
  length,   \* how many of them are in the buffer
  dirty,    \* the buffers with sensitive contents
  caught,   \* the signals whose handlers were called; none of these returns
  step      \* of wipe that is next; 0 before it is called

line == <<typed, length>>
vars == <<options, phase, closed, line, dirty, caught, step>>

Init ==
  /\ NoOptions /\ phase = "starting"
  /\ closed = FALSE /\ typed = 0 /\ length = 0
  /\ dirty = {} /\ caught = {} /\ step = 0

(* boring_stuff.  Before wipe and the handlers are there, the program may  *)
(* also end without, for a signal or as its memory cannot be locked.       *)
Start ==
  /\ phase = "starting" /\ phase' \in {"parsing", "gone"}
  /\ UNCHANGED <<options, closed, line, dirty, caught, step>>

ParseOptions == Parse /\ UNCHANGED <<closed, line, dirty, caught, step>>

(* The options are parsed.  What they say about the split is Split's, and  *)
(* is forgotten here.                                                      *)
Begin ==
  /\ phase = "parsed" /\ phase' = "passphrase"
  /\ state' = "exp" /\ e' = -1 /\ GT' = 0 /\ groups' = <<>> /\ max_T' = 0
  /\ wordlist' = Default[codec]
  /\ UNCHANGED <<mode, codec, closed, line, dirty, caught, step>>
------------------------------------------------------------------------------
(* fgetc: a character, when the user types one, or an error; or EOF, again *)
(* and again.  (The error is an EOF as well, but without feof.)            *)
EOF     == "EOF"
Fgetc   == IF closed THEN {EOF} ELSE Characters \cup {"error"}

Close ==
  /\ ~closed /\ closed' = TRUE
  /\ UNCHANGED <<options, phase, line, dirty, caught, step>>

(* slip0039_add_passphrase; the cipher, a part of s, takes it up. *)
Passphrase ==
  /\ phase = "passphrase"
  /\ \E c \in Fgetc :
       /\ phase' = CASE c = "text"    -> phase
                     [] c = "newline" -> IF mode = "split" THEN "seed" ELSE "mnemonics"
                     [] OTHER         -> "fatal"
       /\ dirty' = IF c = "text" THEN dirty \cup {"s"} ELSE dirty
  /\ UNCHANGED <<options, closed, line, caught, step>>

(* The buffer that a line is read into. *)
Buffer == CASE phase = "seed"      -> [name |-> "seed", size |-> SeedSize]
            [] phase = "plaintext" -> [name |-> "input_base16", size |-> LineSize]
            [] OTHER               -> [name |-> "mnemonic", size |-> LineSize]

(* What comes when read_stringLF returns: the line of the mnemonics that   *)
(* is empty, or the end of the file instead of one, is the last one.       *)
Returned == CASE phase = "seed"      -> "id"
              [] phase = "plaintext" -> "encode"
              [] OTHER               -> IF length = 0 THEN "quorum" ELSE "mnemonic"

(* Mutant: at the end of the file the program waits for more. *)
AtEOF_Waits == phase

(* At the end of the file; only the mnemonics may end with it.             *)
AtEOF == IF phase = "mnemonics" /\ length = 0 THEN Returned ELSE "fatal"

(* Mutant: a line that is too long is cut off. *)
WhenFull_CutsOff == Returned

WhenFull == "fatal"

(* read_stringLF, one character. *)
ReadLine ==
  /\ phase \in {"seed", "plaintext", "mnemonics"}
  /\ \E c \in Fgetc :
       LET full   == length = Buffer.size - 1
           more   == c \in Characters \ {"newline"}
           stored == more /\ ~full
       IN  /\ phase' = CASE c = EOF       -> AtEOF
                         [] c = "error"   -> "fatal"
                         [] c = "newline" -> Returned
                         [] stored        -> phase
                         [] OTHER         -> WhenFull
           /\ typed'  = IF more THEN typed + 1 ELSE typed
           /\ length' = IF stored THEN length + 1 ELSE length
           /\ dirty'  = IF stored THEN dirty \cup {Buffer.name} ELSE dirty
  /\ UNCHANGED <<options, closed, caught, step>>

------------------------------------------------------------------------------
(* A part of the program that goes on with one of some phases, having      *)
(* touched some buffers.                                                   *)
Does(from, next, buffers) ==
  /\ phase = from /\ phase' \in next
  /\ dirty' = dirty \cup buffers
  /\ typed' = 0 /\ length' = 0
  /\ UNCHANGED <<options, closed, caught, step>>

(* The hash of the seed is the identifier of the shares. *)
TakeSeed == Does("id", {"plaintext"}, {"s"})

(* A codec without functions to encode and decode is called through NULL:  *)
(* SIGSEGV is not caught.                                                  *)
CallsNull == codec \notin Implemented

(* slip0039_add_mnemonic *)
AddMnemonic == Does("mnemonic", {"mnemonics", "fatal"}, {"s", "input", "dl", "header"})

(* slip0039_quorum, slip0039_recover and slip0039_decrypt *)
RecoverSecret == Does("quorum", {"decode", "fatal"}, {"s"})

(* slip0039_print_plaintext, and the end of main *)
Decode ==
  IF CallsNull THEN Does("decode", {"killed"}, {})
  ELSE Does("decode", {"returned", "fatal", "abort"}, {"s", "input", "dl", "scratch"})

(* The codec of slip0039_add_plaintext *)
Encode ==
  IF CallsNull THEN Does("encode", {"killed"}, {})
  ELSE Does("encode", {"rest", "fatal", "abort"}, {"s", "input", "dl", "scratch"})

(* ... and the character it reads behind the line: whatever it is, the     *)
(* program goes on, but it waits for it.                                   *)
Rest == \E c \in Fgetc : Does("rest", {"split"}, {})

(* slip0039_encrypt, init_prng_pbkdf2, slip0039_split and                  *)
(* slip0039_print_mnemonics                                                *)
SplitSecret ==
  Does("split", {"returned", "fatal", "abort"},
       {"s", "prng", "header", "input", "scratch", "mnemonic"})
------------------------------------------------------------------------------
(* FATAL, and the end of main, call exit: once only it calls wipe, and     *)
(* when it is called again during wipe, it ends the program.               *)
Exit ==
  /\ phase \in {"fatal", "returned"}
  /\ IF step = 0 THEN phase' = "wiping" /\ step' = 1 ELSE phase' = "gone" /\ UNCHANGED step
  /\ UNCHANGED <<options, closed, line, dirty, caught>>

(* sig_handler calls FATAL.  A signal is not delivered to its own handler; *)
(* another one is.                                                         *)
Signal(sig) ==
  /\ phase \notin {"starting", "gone", "killed"} /\ sig \notin caught
  /\ phase' = "fatal" /\ caught' = caught \cup {sig}
  /\ UNCHANGED <<options, closed, line, dirty, step>>

(* An assert that fails raises a signal that is caught as well. *)
Abort ==
  /\ phase = "abort"
  /\ phase' = "fatal" /\ caught' = caught \cup {"abrt"}
  /\ UNCHANGED <<options, closed, line, dirty, step>>

(* Mutant: the buffer of the debug messages is wiped before they are made. *)
Wipes_DebugLater ==
  <<"dl", "debug", "s", "mnemonic", "seed_len", "input_base16", "input", "bs", "header",
    "scratch", "prng", "seed">>

(* wipe: slip0039_debug first, then buffer by buffer; of the seed first as *)
(* many bytes as its line had, and the whole of it last.                   *)
Wipes ==
  <<"debug", "s", "mnemonic", "dl", "seed_len", "input_base16", "input", "bs", "header",
    "scratch", "prng", "seed">>

(* slip0039_debug puts every share into the buffer of the messages.  The   *)
(* length of the seed is zero as long as its line was not read to its end. *)
Wipe ==
  /\ phase = "wiping"
  /\ dirty' \in CASE Wipes[step] = "debug"    -> {dirty \cup (IF "s" \in dirty THEN {"dl"} ELSE {})}
                   [] Wipes[step] = "seed_len" -> {dirty, dirty \ {"seed"}}
                   [] OTHER                    -> {dirty \ {Wipes[step]}}
  /\ step' = step + 1
  /\ phase' = IF step = Len(Wipes) THEN "gone" ELSE phase
  /\ UNCHANGED <<options, closed, line, caught>>
------------------------------------------------------------------------------
Reads == Passphrase \/ ReadLine \/ Rest
Steps == Start \/ ParseOptions \/ Begin \/ TakeSeed \/ Encode \/ SplitSecret \/ AddMnemonic
           \/ RecoverSecret \/ Decode \/ Exit \/ Abort \/ Wipe

Next == Steps \/ Reads \/ Close \/ \E sig \in Signals : Signal(sig)

(* The program goes on, through a finite command line; the user need not   *)
(* type anything, but what is read from a closed file is its end.          *)
Spec == /\ Init /\ [][Next]_vars
        /\ WF_vars(ParseOptions /\ phase' # "parsing")
        /\ WF_vars(phase # "parsing" /\ Steps)
        /\ WF_vars(closed /\ Reads)
------------------------------------------------------------------------------
(* What is used of a line is the whole line that was typed, up to lines    *)
(* that fill their buffer to the last byte: a longer one is never cut off, *)
(* and never goes on as the next line (utils.c:183-202).  There is no NUL  *)
(* among the characters here: read_stringLF keeps it in the buffer, but    *)
(* what is used ends there.                                                *)
LinesIntact == phase \in {"id", "encode", "mnemonic"} => length = typed

(* Nothing sensitive is left when the program has ended, in whatever phase *)
(* it was when it did so: with a FATAL, an assert or a signal, as long as  *)
(* no signal came during the wiping (slip0039.c:175-211).  SIGSEGV is not  *)
(* caught.                                                                 *)
CleanExit == phase = "gone" /\ step \in {0, Len(Wipes) + 1} => dirty = {}

(* When the input has ended, the program ends: no loop that reads goes on  *)
(* for ever, and what waits for more input is told that there is none      *)
(* (slip0039.c:421-482, utils.c:179-202).                                  *)
EndsWithInput == closed ~> phase \in {"gone", "killed"}

(* slip0039.c:637-638: "make the program cleanup our data on receiving     *)
(* common signals": also after a signal that is caught, nothing is left.   *)
WipedAfterSignal == phase = "gone" /\ caught # {} => dirty = {}
==============================================================================
