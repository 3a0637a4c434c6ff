------------------------------ MODULE MCBans ------------------------------
(* An instance of Bans: one mask, a client it matches and an exempt one,   *)
(* three operators on three servers.                                       *)
EXTENDS Bans

MCOrder == <<"cleanup_glines", "cleanup_tklines", "check_splitmode">>
MCPeriod == [e \in {"cleanup_glines", "cleanup_tklines", "check_splitmode"} |->
                IF e = "check_splitmode" THEN 2 ELSE 1]
MCMatched == [m \in Masks |-> Clients]
MCServerOf == [o \in Opers |-> o]
Symmetry == Permutations(Opers \ {Me})
===========================================================================
