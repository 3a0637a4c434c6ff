------------------------------ MODULE MCMatch ------------------------------
(* All masks and names over small alphabets. *)
EXTENDS Match

CONSTANTS NameChars, MaskLen, NameLen

MCMaskChars == {"a", "b", "*", "?", Escape}
MCChars == MCMaskChars \cup NameChars
MCMasks == UNION {[1..k -> MCMaskChars] : k \in 0..MaskLen}
MCNames == UNION {[1..k -> NameChars] : k \in 0..NameLen}
MCLower == [c \in {"A"} |-> "a"]
============================================================================
