---------------------------- MODULE OneTimeClaim -----------------------------
(***************************************************************************)
(* What the owner's registration promises: the claim is opened once, with  *)
(* one deadline that no later step moves, and it is taken at most once, by *)
(* one proof, which nothing replaces.                                      *)
(***************************************************************************)
EXTENDS Naturals

CONSTANTS Claims, Nothing

VARIABLES window, taken

ClaimInit == window = Nothing /\ taken = Nothing

Open ==
    /\ window = Nothing
    /\ window' \in Nat
    /\ UNCHANGED taken

Take ==
    /\ window # Nothing /\ taken = Nothing
    /\ taken' \in Claims
    /\ UNCHANGED window

ClaimSpec == ClaimInit /\ [][Open \/ Take]_<<window, taken>>

====
