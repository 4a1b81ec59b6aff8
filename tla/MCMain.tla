-------------------------------- MODULE MCMain --------------------------------
(***************************************************************************)
(* Options with room for two groups of two members: numbers below, at and  *)
(* above every limit.  Buffers for lines of one and two characters, and    *)
(* two signals: the first may come while the second is handled.            *)
(***************************************************************************)
EXTENDS Main

CONSTANT nan

MCNumbers == {0, 1, MaxShares, MaxShares + 1, MaxExp, MaxExp + 1}
MCCodecs  == {"base16", "bip39", "slip0039", "diceware", "base58"}

MCLanguages ==
  [c \in MCCodecs |-> CASE c = "bip39"    -> {"english", "spanish"}
                         [] c = "diceware" -> {"english", "german", "dutch"}
                         [] OTHER          -> {""}]

MCDefault ==
  [c \in MCCodecs |-> IF c \in {"bip39", "diceware"} THEN "english" ELSE ""]

MCImplemented   == {"base16", "bip39", "diceware"}
MCUserCodecs    == {"base16", "bip39", "base58", "rawhex"}
MCCharacters    == {"text", "newline", "unprintable"}
MCSignals       == {"int", "term"}
MCUserLanguages == {"", "english", "spanish", "german", "dutch"}
==============================================================================
